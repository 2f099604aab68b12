---------------------------- MODULE IngestProofs ----------------------------
(***************************************************************************)
(* Proofs about Ingest for every number of requests and series and every   *)
(* value of the limits.                                                    *)
(***************************************************************************)
EXTENDS Ingest, FiniteSetTheorems, TLAPS

\* An empty tracker and idle requests are well typed.
LEMMA TypeInit == Init => TypeOK
  BY IngestConstants DEF Init, TypeOK

\* Record tracks one more series, or refreshes one.
LEMMA RecordDomain ==
    ASSUME NEW s, Record(s)
    PROVE  DOMAIN seen' = DOMAIN seen \cup {s}
  BY DEF Record

\* A cleanup only removes series.
LEMMA CleanupDomain ==
    ASSUME CleanupIfDue
    PROVE  DOMAIN seen' \subseteq DOMAIN seen
  BY DEF CleanupIfDue, Cleanup, Expired, Restrict, tracker

\* A new tracker holds no series.
LEMMA FiniteInit == Init => IsFiniteSet(DOMAIN seen)
  <1> SUFFICES ASSUME Init PROVE IsFiniteSet(DOMAIN seen) OBVIOUS
  <1>1. DOMAIN seen = {} BY DEF Init
  <1>q. QED BY <1>1, FS_EmptySet

\* The tracker holds finitely many series, so its counters are numbers.
LEMMA FiniteStep ==
    ASSUME IsFiniteSet(DOMAIN seen), [Next]_vars
    PROVE  IsFiniteSet(DOMAIN seen)'
  <1>1. ASSUME NEW r \in Requests, Check(r) PROVE IsFiniteSet(DOMAIN seen)'
    <2>1. DOMAIN seen' \subseteq DOMAIN seen BY <1>1, CleanupDomain DEF Check
    <2>q. QED BY <2>1, FS_Subset
  <1>2. ASSUME NEW r \in Requests, RecordNext(r) PROVE IsFiniteSet(DOMAIN seen)'
    <2>1. DOMAIN seen' = DOMAIN seen \cup {batch[r][next[r]]}
      BY <1>2, RecordDomain DEF RecordNext
    <2>q. QED BY <2>1, FS_AddElement
  <1>3. CASE Restart
    <2>1. DOMAIN seen' = {} BY <1>3 DEF Restart
    <2>q. QED BY <2>1, FS_EmptySet
  <1>4. ASSUME UNCHANGED seen PROVE IsFiniteSet(DOMAIN seen)'
    BY <1>4
  <1>q. QED
    BY <1>1, <1>2, <1>3, <1>4
    DEF Next, Receive, Invalid, Write, WriteFails, Tick, vars, tracker

-----------------------------------------------------------------------------
(***************************************************************************)
(* Type correctness.                                                       *)
(***************************************************************************)
\* Record and CleanupIfDue keep the tracker well typed.
LEMMA RecordType ==
    ASSUME TypeOK, NEW s \in Series, Record(s)
    PROVE  /\ DOMAIN seen' \subseteq Series
           /\ \A x \in DOMAIN seen' : seen'[x] \in Nat
           /\ seriesCount' \in [MetricNames -> Nat]
           /\ totalSeries' \in Nat /\ lastCleanup' \in Nat
  <1>1. NameOf[s] \in MetricNames BY IngestConstants
  <1>q. QED BY <1>1 DEF TypeOK, Record

\* The cleanup inside Check keeps them, whether or not it recounts.
LEMMA CleanupType ==
    ASSUME TypeOK, IsFiniteSet(DOMAIN seen), CleanupIfDue
    PROVE  /\ DOMAIN seen' \subseteq Series
           /\ \A x \in DOMAIN seen' : seen'[x] \in Nat
           /\ seriesCount' \in [MetricNames -> Nat]
           /\ totalSeries' \in Nat /\ lastCleanup' \in Nat
  <1> DEFINE left == DOMAIN seen \ Expired
  <1>1. IsFiniteSet(left) BY FS_Subset
  <1>2. Cardinality(left) \in Nat BY <1>1, FS_CardinalityType
  <1>3. \A n : Cardinality({s \in left : NameInKey[s] = n}) \in Nat
    <2> SUFFICES ASSUME NEW n
                 PROVE  Cardinality({s \in left : NameInKey[s] = n}) \in Nat
      OBVIOUS
    <2>1. IsFiniteSet({s \in left : NameInKey[s] = n}) BY <1>1, FS_Subset
    <2>q. QED BY <2>1, FS_CardinalityType
  <1>4. CountsOf(left) \in [MetricNames -> Nat] BY <1>3 DEF CountsOf
  <1>5. CASE ~ CleanupDue
    BY <1>5 DEF CleanupIfDue, TypeOK, tracker
  <1>6. CASE CleanupDue
    <2>1. Cleanup BY <1>6 DEF CleanupIfDue
    <2>2. seen' = [x \in left |-> seen[x]] BY <2>1 DEF Cleanup, Restrict
    <2>3. seriesCount' \in [MetricNames -> Nat] /\ totalSeries' \in Nat
      BY <1>2, <1>4, <2>1 DEF Cleanup, TypeOK
    <2>q. QED BY <2>1, <2>2, <2>3 DEF Cleanup, TypeOK
  <1>q. QED BY <1>5, <1>6

RequestsOK ==
    /\ pc \in [Requests -> {"idle", "check", "write", "record"}]
    /\ batch \in [Requests -> Seq(Series)]
    /\ next \in [Requests -> Nat]
    /\ \A r \in Requests : pc[r] \in {"check", "record"} =>
            next[r] \in 1 .. Len(batch[r])

\* The two ways a loop over a batch goes on.
LEMMA AdvanceType ==
    ASSUME RequestsOK, NEW r \in Requests, pc[r] \in {"check", "record"},
           ~ IsLast(r), Advance(r)
    PROVE  RequestsOK'
  <1>1. batch[r] \in Seq(Series) BY DEF RequestsOK
  <1>2. Len(batch[r]) \in Nat BY <1>1
  <1>3. next[r] + 1 \in 1 .. Len(batch[r])
    BY <1>2 DEF RequestsOK, IsLast
  <1>4. next' = [next EXCEPT ![r] = next[r] + 1] /\ pc' = pc /\ batch' = batch
    BY DEF Advance
  <1>q. QED BY <1>2, <1>3, <1>4 DEF RequestsOK

\* The response ends the request and clears its batch.
LEMMA RespondType ==
    ASSUME RequestsOK, NEW r \in Requests, Respond(r)
    PROVE  RequestsOK'
  BY DEF RequestsOK, Respond

\* Every turn of a loop, write, restart and tick keeps the types.
LEMMA TypeStep ==
    ASSUME TypeOK, IsFiniteSet(DOMAIN seen), [Next]_vars
    PROVE  TypeOK'
  <1> USE IngestConstants
  <1>1. ASSUME NEW r \in Requests, NEW b \in Batches, Receive(r, b) PROVE TypeOK'
    <2>1. b \in Seq(Series) OBVIOUS
    <2>2. b # << >> => 1 \in 1 .. Len(b) BY <2>1
    <2>q. QED BY <1>1, <2>1, <2>2 DEF Receive, TypeOK, tracker
  <1>2. ASSUME NEW r \in Requests, Check(r) PROVE TypeOK'
    <2>1. Len(batch[r]) \in Nat /\ next[r] \in 1 .. Len(batch[r])
      BY <1>2 DEF Check, TypeOK
    <2>2. /\ DOMAIN seen' \subseteq Series
          /\ \A x \in DOMAIN seen' : seen'[x] \in Nat
          /\ seriesCount' \in [MetricNames -> Nat]
          /\ totalSeries' \in Nat /\ lastCleanup' \in Nat
      BY <1>2, CleanupType DEF Check
    <2>3. CASE IsLast(r) /\ Enter(r, "write")
      BY <1>2, <2>2, <2>3 DEF Check, Enter, TypeOK
    <2>4. CASE ~ IsLast(r) /\ Advance(r)
      <3>1. RequestsOK' BY <1>2, <2>4, AdvanceType DEF Check, RequestsOK, TypeOK
      <3>q. QED BY <1>2, <2>2, <3>1 DEF Check, RequestsOK, TypeOK
    <2>5. CASE Respond(r)
      BY <1>2, <2>2, <2>5 DEF Check, Respond, TypeOK
    <2>q. QED BY <1>2, <2>3, <2>4, <2>5 DEF Check
  <1>3. ASSUME NEW r \in Requests, Write(r) PROVE TypeOK'
    <2>1. batch[r] \in Seq(Series) BY DEF TypeOK
    <2>2. batch[r] # << >> => 1 \in 1 .. Len(batch[r]) BY <2>1
    <2>3. CASE Respond(r)
      BY <1>3, <2>3 DEF Write, Respond, TypeOK, tracker
    <2>4. CASE batch[r] # << >> /\ Enter(r, "record")
      BY <1>3, <2>2, <2>4 DEF Write, Enter, TypeOK, tracker
    <2>q. QED BY <1>3, <2>3, <2>4 DEF Write
  <1>4. ASSUME NEW r \in Requests, WriteFails(r) PROVE TypeOK'
    BY <1>4 DEF WriteFails, Respond, TypeOK, tracker
  <1>9. ASSUME NEW r \in Requests, Invalid(r) PROVE TypeOK'
    BY <1>9 DEF Invalid, Respond, TypeOK, tracker
  <1>5. ASSUME NEW r \in Requests, RecordNext(r) PROVE TypeOK'
    <2>1. Len(batch[r]) \in Nat /\ next[r] \in 1 .. Len(batch[r])
      BY <1>5 DEF RecordNext, TypeOK
    <2>2. batch[r][next[r]] \in Series BY <2>1 DEF TypeOK
    <2>3. /\ DOMAIN seen' \subseteq Series
          /\ \A x \in DOMAIN seen' : seen'[x] \in Nat
          /\ seriesCount' \in [MetricNames -> Nat]
          /\ totalSeries' \in Nat /\ lastCleanup' \in Nat
      BY <1>5, <2>2, RecordType DEF RecordNext
    <2>4. CASE Respond(r)
      <3>1. RequestsOK' BY <2>4, RespondType DEF RequestsOK, TypeOK
      <3>q. QED BY <1>5, <2>3, <3>1 DEF RecordNext, RequestsOK, TypeOK
    <2>5. CASE ~ IsLast(r) /\ Advance(r)
      <3>1. RequestsOK' BY <1>5, <2>5, AdvanceType DEF RecordNext, RequestsOK, TypeOK
      <3>q. QED BY <1>5, <2>3, <3>1 DEF RecordNext, RequestsOK, TypeOK
    <2>q. QED BY <1>5, <2>4, <2>5 DEF RecordNext
  <1>6. CASE Restart
    BY <1>6 DEF Restart, TypeOK
  <1>7. CASE Tick
    BY <1>7 DEF Tick, TypeOK, tracker
  <1>8. CASE UNCHANGED vars
    BY <1>8 DEF vars, TypeOK, tracker
  <1>q. QED
    BY <1>1, <1>2, <1>3, <1>4, <1>5, <1>6, <1>7, <1>8, <1>9 DEF Next

\* The tracker and the requests are well typed in every reachable state.
THEOREM TypeCorrect == Spec => []TypeOK
  <1> DEFINE TInv == TypeOK /\ IsFiniteSet(DOMAIN seen)
  <1>1. Init => TInv BY TypeInit, FiniteInit
  <1>2. TInv /\ [Next]_vars => TInv' BY TypeStep, FiniteStep
  <1>q. QED BY <1>1, <1>2, PTL DEF Spec

-----------------------------------------------------------------------------
(***************************************************************************)
(* The counters.  rebuildCounts takes the metric name to be what precedes  *)
(* the first comma of a key, which is right when no name holds a comma.    *)
(***************************************************************************)
NoCommaInNames == NameInKey = NameOf

CInv == TypeOK /\ IsFiniteSet(DOMAIN seen) /\ CountersCoverSeen

\* No series, no count.
LEMMA CoverInit == Init => CountersCoverSeen
  <1> SUFFICES ASSUME Init PROVE CountersCoverSeen OBVIOUS
  <1>1. DOMAIN seen = {} BY DEF Init
  <1>2. \A n : Of(n) = {} BY <1>1 DEF Of
  <1>3. Cardinality({}) = 0 BY FS_EmptySet
  <1>4. totalSeries = 0 /\ \A n \in MetricNames : seriesCount[n] = 0 BY DEF Init
  <1>5. Cardinality(DOMAIN seen) <= totalSeries BY <1>1, <1>3, <1>4
  <1>6. ASSUME NEW n \in MetricNames
        PROVE  Cardinality(Of(n)) <= seriesCount[n]
    BY <1>2, <1>3, <1>4
  <1>q. QED BY <1>5, <1>6 DEF CountersCoverSeen, NamesCounted

\* Record of a new series raises both counters, of a known one neither.
LEMMA RecordCovers ==
    ASSUME CInv, NEW s \in Series, Record(s)
    PROVE  CountersCoverSeen'
  <1>1. DOMAIN seen' = DOMAIN seen \cup {s} BY RecordDomain
  <1>2. CASE s \in DOMAIN seen
    <2>1. DOMAIN seen' = DOMAIN seen BY <1>1, <1>2
    <2>2. \A n : Of(n)' = Of(n) BY <2>1 DEF Of
    <2>3. UNCHANGED <<seriesCount, totalSeries>> BY <1>2 DEF Record
    <2>q. QED BY <2>1, <2>2, <2>3 DEF CInv, CountersCoverSeen, NamesCounted
  <1>3. CASE s \notin DOMAIN seen
    <2>1. /\ totalSeries' = totalSeries + 1
          /\ seriesCount' = [seriesCount EXCEPT ![NameOf[s]] = seriesCount[NameOf[s]] + 1]
      BY <1>3 DEF Record
    <2>2. Cardinality(DOMAIN seen') = Cardinality(DOMAIN seen) + 1
      BY <1>1, <1>3, FS_AddElement DEF CInv
    <2>3. Cardinality(DOMAIN seen) \in Nat BY FS_CardinalityType DEF CInv
    <2>4. ASSUME NEW n \in MetricNames
          PROVE  Cardinality(Of(n)') <= seriesCount'[n]
      <3>1. IsFiniteSet(Of(n)) BY FS_Subset DEF Of, CInv
      <3>2. Cardinality(Of(n)) \in Nat BY <3>1, FS_CardinalityType
      <3>3. Cardinality(Of(n)) <= seriesCount[n] /\ seriesCount[n] \in Nat
        BY DEF CInv, CountersCoverSeen, NamesCounted, TypeOK
      <3>4. CASE NameOf[s] = n
        <4>1. Of(n)' = Of(n) \cup {s} /\ s \notin Of(n)
          BY <1>1, <1>3, <3>4 DEF Of
        <4>2. Cardinality(Of(n)') = Cardinality(Of(n)) + 1
          BY <3>1, <4>1, FS_AddElement
        <4>3. seriesCount'[n] = seriesCount[n] + 1
          BY <2>1, <3>4 DEF CInv, TypeOK
        <4>q. QED BY <3>2, <3>3, <4>2, <4>3
      <3>5. CASE NameOf[s] # n
        <4>1. Of(n)' = Of(n) BY <1>1, <3>5 DEF Of
        <4>2. seriesCount'[n] = seriesCount[n]
          BY <2>1, <3>5 DEF CInv, TypeOK
        <4>q. QED BY <3>3, <4>1, <4>2
      <3>q. QED BY <3>4, <3>5
    <2>q. QED
      BY <2>1, <2>2, <2>3, <2>4 DEF CInv, CountersCoverSeen, NamesCounted, TypeOK
  <1>q. QED BY <1>2, <1>3

\* A cleanup removes series and leaves the counters alone, or recounts.
LEMMA CleanupCovers ==
    ASSUME NoCommaInNames, CInv, CleanupIfDue
    PROVE  CountersCoverSeen'
  <1> DEFINE left == DOMAIN seen \ Expired
  <1>1. CASE ~ CleanupDue
    BY <1>1 DEF CleanupIfDue, tracker, CInv, CountersCoverSeen, NamesCounted, Of
  <1>2. CASE CleanupDue
    <2>1. Cleanup BY <1>2 DEF CleanupIfDue
    <2>2. DOMAIN seen' = left BY <2>1 DEF Cleanup, Restrict
    <2>3. IsFiniteSet(left) BY FS_Subset DEF CInv
    <2>4. \A n : Of(n)' = {s \in left : NameOf[s] = n} BY <2>2 DEF Of
    <2>5. CASE Cardinality(Expired) > RebuildThreshold
      <3>1. totalSeries' = Cardinality(left) /\ seriesCount' = CountsOf(left)
        BY <2>1, <2>5 DEF Cleanup
      <3>2. Cardinality(left) \in Nat BY <2>3, FS_CardinalityType
      <3>3. ASSUME NEW n \in MetricNames
            PROVE  Cardinality(Of(n)') <= seriesCount'[n]
        <4>1. seriesCount'[n] = Cardinality(Of(n)')
          BY <2>4, <3>1 DEF CountsOf, NoCommaInNames
        <4>2. IsFiniteSet(Of(n)') BY <2>3, <2>4, FS_Subset
        <4>3. Cardinality(Of(n)') \in Nat BY <4>2, FS_CardinalityType
        <4>q. QED BY <4>1, <4>3
      <3>q. QED BY <2>2, <3>1, <3>2, <3>3 DEF CountersCoverSeen, NamesCounted
    <2>6. CASE ~ (Cardinality(Expired) > RebuildThreshold)
      <3>1. UNCHANGED <<seriesCount, totalSeries>> BY <2>1, <2>6 DEF Cleanup
      <3>2. Cardinality(left) <= Cardinality(DOMAIN seen) BY FS_Subset DEF CInv
      <3>3. Cardinality(left) \in Nat /\ Cardinality(DOMAIN seen) \in Nat
        BY <2>3, FS_CardinalityType DEF CInv
      <3>4. ASSUME NEW n \in MetricNames
            PROVE  Cardinality(Of(n)') <= seriesCount'[n]
        <4>1. IsFiniteSet(Of(n)) BY FS_Subset DEF Of, CInv
        <4>2. Of(n)' \subseteq Of(n) BY <2>4 DEF Of
        <4>3. IsFiniteSet(Of(n)') /\ Cardinality(Of(n)') <= Cardinality(Of(n))
          BY <4>1, <4>2, FS_Subset
        <4>4. Cardinality(Of(n)') \in Nat /\ Cardinality(Of(n)) \in Nat
          BY <4>1, <4>3, FS_CardinalityType
        <4>q. QED
          BY <3>1, <4>3, <4>4 DEF CInv, CountersCoverSeen, NamesCounted, TypeOK
      <3>q. QED
        BY <2>2, <3>1, <3>2, <3>3, <3>4 DEF CInv, CountersCoverSeen, NamesCounted, TypeOK
    <2>q. QED BY <2>5, <2>6
  <1>q. QED BY <1>1, <1>2

\* Only Check and RecordNext touch the tracker, and Restart empties it.
LEMMA CoverStep ==
    ASSUME NoCommaInNames, CInv, [Next]_vars
    PROVE  CountersCoverSeen'
  <1>1. ASSUME NEW r \in Requests, Check(r) PROVE CountersCoverSeen'
    BY <1>1, CleanupCovers DEF Check
  <1>2. ASSUME NEW r \in Requests, RecordNext(r) PROVE CountersCoverSeen'
    <2>1. batch[r] \in Seq(Series) /\ next[r] \in 1 .. Len(batch[r])
      BY <1>2 DEF RecordNext, CInv, TypeOK
    <2>2. batch[r][next[r]] \in Series BY <2>1
    <2>q. QED BY <1>2, <2>2, RecordCovers DEF RecordNext
  <1>3. CASE Restart
    <2>1. DOMAIN seen' = {} BY <1>3 DEF Restart
    <2>2. \A n : Of(n)' = {} BY <2>1 DEF Of
    <2>3. Cardinality({}) = 0 BY FS_EmptySet
    <2>4. totalSeries' = 0 /\ \A n \in MetricNames : seriesCount'[n] = 0
      BY <1>3 DEF Restart
    <2>q. QED BY <2>1, <2>2, <2>3, <2>4 DEF CountersCoverSeen, NamesCounted
  <1>4. ASSUME UNCHANGED tracker PROVE CountersCoverSeen'
    BY <1>4 DEF tracker, CInv, CountersCoverSeen, NamesCounted, Of
  <1>q. QED
    BY <1>1, <1>2, <1>3, <1>4
    DEF Next, Receive, Invalid, Write, WriteFails, Tick, vars

\* Check and Record: the counters that enforce the limits never fall behind the
\* set of tracked series, for any number of concurrent requests, any batches
\* and any cleanups, as long as no metric name holds a comma.
THEOREM CountersCover == NoCommaInNames => (Spec => []CountersCoverSeen)
  <1> SUFFICES ASSUME NoCommaInNames PROVE Spec => []CountersCoverSeen OBVIOUS
  <1>1. Init => CInv BY TypeInit, FiniteInit, CoverInit DEF CInv
  <1>2. CInv /\ [Next]_vars => CInv'
    BY TypeStep, FiniteStep, CoverStep DEF CInv
  <1>3. CInv => CountersCoverSeen BY DEF CInv
  <1>q. QED BY <1>1, <1>2, <1>3, PTL DEF Spec

-----------------------------------------------------------------------------
(***************************************************************************)
(* The bound on the tracker.  It follows from a bound on the tracked and   *)
(* the admitted series together: only a Check that finds room under the    *)
(* limits adds to them, and then the admitted ones are at most Overshoot.  *)
(***************************************************************************)
BatchesOK == \A r \in Requests : Len(batch[r]) <= MaxMetricsPerRequest

BInv == CInv /\ BatchesOK /\ AdmittedBounded

SmallOK ==
    /\ IsFiniteSet(Admitted) /\ Cardinality(Admitted) \in Nat
    /\ Overshoot \in Nat /\ Cardinality(Admitted) <= Overshoot

Claims(r) == {batch[r][i] : i \in Unrecorded(r)}

Claimed == DOMAIN seen \cup Admitted

Named(S, n) == {s \in S : NameOf[s] = n}

\* HandleIngest refuses longer batches and never extends one.
LEMMA BatchesStep == TypeOK /\ BatchesOK /\ [Next]_vars => BatchesOK'
  <1> SUFFICES ASSUME TypeOK, BatchesOK, [Next]_vars PROVE BatchesOK' OBVIOUS
  <1> USE IngestConstants
  <1>1. ASSUME NEW r \in Requests, NEW b \in Batches, Receive(r, b)
        PROVE  BatchesOK'
    BY <1>1 DEF Receive, BatchesOK, TypeOK
  <1>2. ASSUME NEW r \in Requests, Respond(r) PROVE BatchesOK'
    BY <1>2 DEF Respond, BatchesOK, TypeOK
  <1>3. CASE Restart
    BY <1>3 DEF Restart, BatchesOK
  <1>4. CASE UNCHANGED batch
    BY <1>4 DEF BatchesOK
  <1>q. QED
    BY <1>1, <1>2, <1>3, <1>4
    DEF Next, Check, Invalid, Write, WriteFails, RecordNext, Tick, vars,
        Enter, Advance

\* Every request has at most one batch of admitted series.
LEMMA AdmittedSmall == TypeOK /\ BatchesOK => SmallOK
  <1> SUFFICES ASSUME TypeOK, BatchesOK PROVE SmallOK OBVIOUS
  <1> DEFINE M == MaxMetricsPerRequest
             P == Requests \X (1 .. M)
             Q == {p \in P : p[2] \in Unrecorded(p[1])}
             f == [p \in Q |-> batch[p[1]][p[2]]]
  <1>1. M \in Nat /\ IsFiniteSet(Requests) BY IngestConstants
  <1>2. IsFiniteSet(1 .. M) /\ Cardinality(1 .. M) = M
    BY <1>1, FS_Interval
  <1>3. IsFiniteSet(P) /\ Cardinality(P) = Overshoot
    BY <1>1, <1>2, FS_Product DEF Overshoot
  <1>4. IsFiniteSet(Q) /\ Cardinality(Q) <= Cardinality(P)
    <2>1. Q \in SUBSET P OBVIOUS
    <2>q. QED BY <1>3, <2>1, FS_Subset
  <1>5. \A r \in Requests : Unrecorded(r) \subseteq 1 .. M
    <2> SUFFICES ASSUME NEW r \in Requests PROVE Unrecorded(r) \subseteq 1 .. M
      OBVIOUS
    <2>1. /\ Len(batch[r]) \in Nat /\ Len(batch[r]) <= M
          /\ next[r] \in Nat
          /\ pc[r] \in {"check", "record"} => next[r] \in 1 .. Len(batch[r])
      BY DEF TypeOK, BatchesOK
    <2>q. QED BY <1>1, <2>1 DEF Unrecorded, TypeOK
  <1>6. f \in Surjection(Q, Admitted)
    <2>1. \A p \in Q : f[p] \in Admitted BY DEF Admitted
    <2>2. ASSUME NEW s \in Admitted PROVE \E p \in Q : f[p] = s
      <3>1. PICK r \in Requests : \E i \in Unrecorded(r) : s = batch[r][i]
        BY DEF Admitted
      <3>2. PICK i \in Unrecorded(r) : s = batch[r][i] BY <3>1
      <3>3. <<r, i>> \in Q BY <1>5
      <3>q. QED BY <3>2, <3>3
    <2>q. QED BY <2>1, <2>2 DEF Surjection
  <1>7. IsFiniteSet(Admitted) /\ Cardinality(Admitted) <= Cardinality(Q)
    BY <1>4, <1>6, FS_Surjection
  <1>8. /\ Cardinality(Admitted) \in Nat /\ Cardinality(Q) \in Nat
        /\ Cardinality(P) \in Nat
    BY <1>3, <1>4, <1>7, FS_CardinalityType
  <1>q. QED BY <1>3, <1>4, <1>7, <1>8 DEF SmallOK

\* A step that adds no series to the claimed ones keeps the bound.
LEMMA ClaimedShrinks ==
    ASSUME BInv, Claimed' \subseteq Claimed
    PROVE  AdmittedBounded'
  <1>1. IsFiniteSet(Claimed)
    BY AdmittedSmall, FS_Union DEF BInv, CInv, Claimed, SmallOK
  <1>2. ASSUME NEW S, NEW T, S \subseteq T, T \subseteq Claimed
        PROVE  /\ Cardinality(S) \in Nat /\ Cardinality(T) \in Nat
               /\ Cardinality(S) <= Cardinality(T)
    <2>1. IsFiniteSet(T) BY <1>1, <1>2, FS_Subset
    <2>2. IsFiniteSet(S) /\ Cardinality(S) <= Cardinality(T)
      BY <1>2, <2>1, FS_Subset
    <2>q. QED BY <2>1, <2>2, FS_CardinalityType
  <1>3. /\ MaxUniqueSeries \in Nat /\ MaxSeriesPerMetric \in Nat
        /\ Overshoot \in Nat /\ Overshoot' = Overshoot
    BY IngestConstants, AdmittedSmall DEF BInv, CInv, SmallOK, Overshoot
  <1>4. Cardinality(Claimed') < MaxUniqueSeries + Overshoot
    <2>1. Cardinality(Claimed) < MaxUniqueSeries + Overshoot
      BY DEF BInv, AdmittedBounded, Claimed
    <2>q. QED BY <1>2, <1>3, <2>1
  <1>5. ASSUME NEW n \in MetricNames
        PROVE  Cardinality(Named(Claimed', n)) < MaxSeriesPerMetric + Overshoot
    <2>1. Cardinality(Named(Claimed, n)) < MaxSeriesPerMetric + Overshoot
      BY DEF BInv, AdmittedBounded, Claimed, Named
    <2>2. /\ Named(Claimed', n) \subseteq Named(Claimed, n)
          /\ Named(Claimed, n) \subseteq Claimed
      BY DEF Named
    <2>q. QED BY <1>2, <1>3, <2>1, <2>2
  <1>q. QED BY <1>3, <1>4, <1>5 DEF AdmittedBounded, Claimed, Named

\* What a step does to the admitted series: only the request that takes it can
\* change its own.
LEMMA OwnClaims ==
    ASSUME NEW r \in Requests,
           \A q \in Requests \ {r} : UNCHANGED <<pc[q], batch[q], next[q]>>
    PROVE  Admitted' \subseteq Admitted \cup Claims(r)'
  <1>1. \A q \in Requests \ {r} : Claims(q)' = Claims(q)
    BY DEF Claims, Unrecorded
  <1>q. QED BY <1>1 DEF Admitted, Claims

\* A response gives up whatever was admitted and not recorded.
LEMMA RespondClaims ==
    ASSUME TypeOK, NEW r \in Requests, Respond(r)
    PROVE  Admitted' \subseteq Admitted
  <1>1. \A q \in Requests \ {r} : UNCHANGED <<pc[q], batch[q], next[q]>>
    BY DEF Respond, TypeOK
  <1>2. Claims(r)' = {} BY DEF Respond, TypeOK, Claims, Unrecorded
  <1>q. QED BY <1>1, <1>2, OwnClaims

\* A metric that passes Check is admitted; nothing else is.
LEMMA CheckClaims ==
    ASSUME TypeOK, NEW r \in Requests, pc[r] = "check",
           \/ IsLast(r) /\ Enter(r, "write")
           \/ ~ IsLast(r) /\ Advance(r)
    PROVE  Admitted' \subseteq Admitted \cup {batch[r][next[r]]}
  <1>1. \A q \in Requests \ {r} : UNCHANGED <<pc[q], batch[q], next[q]>>
    BY DEF Enter, Advance, TypeOK
  <1>2. next[r] \in 1 .. Len(batch[r]) /\ Len(batch[r]) \in Nat
    BY DEF TypeOK
  <1>3. Claims(r)' \subseteq Claims(r) \cup {batch[r][next[r]]}
    <2>1. batch'[r] = batch[r] BY DEF Enter, Advance
    <2>2. \A i \in Unrecorded(r)' : i \in Unrecorded(r) \/ i = next[r]
      BY <1>2, <2>1 DEF Enter, Advance, IsLast, TypeOK, Unrecorded
    <2>q. QED BY <2>1, <2>2 DEF Claims
  <1>4. Claims(r) \subseteq Admitted BY DEF Claims, Admitted
  <1>5. Admitted' \subseteq Admitted \cup Claims(r)' BY <1>1, OwnClaims
  <1>q. QED BY <1>3, <1>4, <1>5

\* A Check that lets a new series in found room for it under both limits.
LEMMA CheckBound ==
    ASSUME NoCommaInNames, BInv, NEW r \in Requests, Check(r), TypeOK', BatchesOK'
    PROVE  AdmittedBounded'
  <1> DEFINE s == batch[r][next[r]]
  <1>1. DOMAIN seen' \subseteq DOMAIN seen BY CleanupDomain DEF Check
  <1>2. CASE Respond(r)
    BY <1>1, <1>2, RespondClaims, ClaimedShrinks DEF BInv, CInv, Claimed
  <1>3. CASE Passes(s) /\ s \in DOMAIN seen' /\ Admitted' \subseteq Admitted \cup {s}
    BY <1>1, <1>3, ClaimedShrinks DEF Claimed
  <1>4. CASE Passes(s) /\ s \notin DOMAIN seen' /\ Admitted' \subseteq Admitted \cup {s}
    <2>1. /\ totalSeries' < MaxUniqueSeries
          /\ seriesCount'[NameOf[s]] < MaxSeriesPerMetric
      BY <1>4 DEF Passes
    <2>2. CountersCoverSeen' BY CleanupCovers DEF Check, BInv
    <2>3. SmallOK' BY AdmittedSmall, PTL
    <2>4. IsFiniteSet(DOMAIN seen') BY <1>1, FS_Subset DEF BInv, CInv
    <2>5. ASSUME NEW S, NEW T, NEW U, S \subseteq T \cup U,
                 IsFiniteSet(T), IsFiniteSet(U)
          PROVE  /\ Cardinality(T) \in Nat /\ Cardinality(U) \in Nat
                 /\ Cardinality(S) \in Nat
                 /\ Cardinality(S) <= Cardinality(T) + Cardinality(U)
      <3>1. /\ IsFiniteSet(T \cup U)
            /\ Cardinality(T \cup U)
                = Cardinality(T) + Cardinality(U) - Cardinality(T \cap U)
        BY <2>5, FS_Union
      <3>2. IsFiniteSet(S) /\ Cardinality(S) <= Cardinality(T \cup U)
        BY <2>5, <3>1, FS_Subset
      <3>3. IsFiniteSet(T \cap U) BY <2>5, FS_Subset
      <3>q. QED BY <2>5, <3>1, <3>2, <3>3, FS_CardinalityType
    <2>6. /\ MaxUniqueSeries \in Nat /\ MaxSeriesPerMetric \in Nat
          /\ totalSeries' \in Nat
          /\ \A n \in MetricNames : seriesCount'[n] \in Nat
      BY IngestConstants DEF TypeOK
    <2>7. Cardinality(Claimed') < MaxUniqueSeries + Overshoot
      <3>1. Cardinality(DOMAIN seen') < MaxUniqueSeries
        BY <2>1, <2>2, <2>4, <2>6, FS_CardinalityType DEF CountersCoverSeen, NamesCounted
      <3>q. QED
        BY <2>3, <2>4, <2>5, <2>6, <3>1 DEF SmallOK, Claimed
    <2>8. ASSUME NEW n \in MetricNames
          PROVE  Cardinality(Named(Claimed', n)) < MaxSeriesPerMetric + Overshoot
      <3>1. CASE n = NameOf[s]
        <4>1. Named(Claimed', n) \subseteq Of(n)' \cup Admitted'
          BY DEF Named, Claimed, Of
        <4>2. IsFiniteSet(Of(n)') BY <2>4, FS_Subset DEF Of
        <4>3. Cardinality(Of(n)') < MaxSeriesPerMetric
          BY <2>1, <2>2, <2>6, <3>1, <4>2, FS_CardinalityType DEF CountersCoverSeen, NamesCounted
        <4>q. QED
          BY <2>3, <2>5, <2>6, <4>1, <4>2, <4>3 DEF SmallOK
      <3>2. CASE n # NameOf[s]
        <4>1. Named(Claimed', n) \subseteq Named(Claimed, n)
          BY <1>1, <1>4, <3>2 DEF Named, Claimed
        <4>2. IsFiniteSet(Named(Claimed, n))
          <5>1. IsFiniteSet(Claimed)
            BY AdmittedSmall, FS_Union DEF BInv, CInv, Claimed, SmallOK
          <5>q. QED BY <5>1, FS_Subset DEF Named
        <4>3. Cardinality(Named(Claimed, n)) < MaxSeriesPerMetric + Overshoot
          BY DEF BInv, AdmittedBounded, Claimed, Named
        <4>4. /\ IsFiniteSet(Named(Claimed', n))
              /\ Cardinality(Named(Claimed', n)) <= Cardinality(Named(Claimed, n))
          BY <4>1, <4>2, FS_Subset
        <4>q. QED
          BY <2>3, <2>6, <4>2, <4>3, <4>4, FS_CardinalityType DEF SmallOK, Overshoot
      <3>q. QED BY <3>1, <3>2
    <2>q. QED
      BY <2>7, <2>8 DEF AdmittedBounded, Claimed, Named, Overshoot
  <1>q. QED BY <1>2, <1>3, <1>4, CheckClaims DEF Check, BInv, CInv

\* Every other step at most moves a series from admitted to tracked.
LEMMA BoundStep ==
    ASSUME NoCommaInNames, BInv, [Next]_vars, TypeOK', BatchesOK'
    PROVE  AdmittedBounded'
  <1>0. TypeOK BY DEF BInv, CInv
  <1>1. ASSUME NEW r \in Requests, NEW b \in Batches, Receive(r, b)
        PROVE  AdmittedBounded'
    <2>1. \A q \in Requests \ {r} : UNCHANGED <<pc[q], batch[q], next[q]>>
      BY <1>0, <1>1 DEF Receive, TypeOK
    <2>2. Len(b) \in Nat /\ (b = << >> => Len(b) = 0) BY IngestConstants
    <2>3. Claims(r)' = {}
      BY <1>0, <1>1, <2>2 DEF Receive, Claims, Unrecorded, TypeOK
    <2>q. QED
      BY <1>1, <2>1, <2>3, OwnClaims, ClaimedShrinks DEF Receive, tracker, Claimed
  <1>2. ASSUME NEW r \in Requests, Check(r) PROVE AdmittedBounded'
    BY <1>2, CheckBound
  <1>3. ASSUME NEW r \in Requests, Respond(r), DOMAIN seen' = DOMAIN seen
        PROVE  AdmittedBounded'
    BY <1>0, <1>3, RespondClaims, ClaimedShrinks DEF Claimed
  <1>4. ASSUME NEW r \in Requests, Write(r), Enter(r, "record")
        PROVE  AdmittedBounded'
    <2>1. \A q \in Requests \ {r} : UNCHANGED <<pc[q], batch[q], next[q]>>
      BY <1>0, <1>4 DEF Enter, TypeOK
    <2>2. Claims(r)' \subseteq Claims(r)
      BY <1>0, <1>4 DEF Write, Enter, Claims, Unrecorded, TypeOK
    <2>3. Claims(r) \subseteq Admitted BY DEF Claims, Admitted
    <2>q. QED
      BY <1>4, <2>1, <2>2, <2>3, OwnClaims, ClaimedShrinks DEF Write, tracker, Claimed
  <1>5. ASSUME NEW r \in Requests, RecordNext(r) PROVE AdmittedBounded'
    <2>1. next[r] \in 1 .. Len(batch[r]) /\ Len(batch[r]) \in Nat
      BY <1>0, <1>5 DEF RecordNext, TypeOK
    <2>2. batch[r][next[r]] \in Admitted
      <3>1. next[r] \in Unrecorded(r) BY <1>5, <2>1 DEF RecordNext, Unrecorded
      <3>q. QED BY <3>1 DEF Admitted
    <2>3. DOMAIN seen' = DOMAIN seen \cup {batch[r][next[r]]}
      BY <1>5, RecordDomain DEF RecordNext
    <2>4. Admitted' \subseteq Admitted
      <3>1. CASE Respond(r) BY <1>0, <3>1, RespondClaims
      <3>2. CASE Advance(r)
        <4>1. \A q \in Requests \ {r} : UNCHANGED <<pc[q], batch[q], next[q]>>
          BY <1>0, <3>2 DEF Advance, TypeOK
        <4>2. Claims(r)' \subseteq Claims(r)
          BY <1>0, <1>5, <2>1, <3>2
          DEF RecordNext, Advance, Claims, Unrecorded, TypeOK
        <4>3. Claims(r) \subseteq Admitted BY DEF Claims, Admitted
        <4>q. QED BY <4>1, <4>2, <4>3, OwnClaims
      <3>q. QED BY <1>5, <3>1, <3>2 DEF RecordNext
    <2>q. QED BY <2>2, <2>3, <2>4, ClaimedShrinks DEF Claimed
  <1>6. CASE Restart
    <2>1. DOMAIN seen' = {} BY <1>6 DEF Restart
    <2>2. \A r \in Requests : Unrecorded(r)' = {} BY <1>6 DEF Restart, Unrecorded
    <2>3. Admitted' = {} BY <2>2 DEF Admitted
    <2>q. QED BY <2>1, <2>3, ClaimedShrinks DEF Claimed
  <1>7. ASSUME UNCHANGED <<tracker, pc, batch, next>> PROVE AdmittedBounded'
    <2>1. Claimed' = Claimed
      BY <1>7 DEF tracker, Claimed, Admitted, Unrecorded
    <2>q. QED BY <2>1, ClaimedShrinks
  <1>q. QED
    BY <1>1, <1>2, <1>3, <1>4, <1>5, <1>6, <1>7
    DEF Next, Invalid, Write, WriteFails, Tick, vars, tracker

\* An empty tracker and no requests are within every bound.
LEMMA BoundInit == Init => BatchesOK /\ AdmittedBounded
  <1> SUFFICES ASSUME Init PROVE BatchesOK /\ AdmittedBounded OBVIOUS
  <1>1. \A r \in Requests : batch[r] = << >> /\ Unrecorded(r) = {}
    BY DEF Init, Unrecorded
  <1>2. BatchesOK BY <1>1, IngestConstants DEF BatchesOK
  <1>3. Claimed = {} BY <1>1 DEF Init, Claimed, Admitted
  <1>4. SmallOK BY <1>2, TypeInit, AdmittedSmall
  <1>5. Cardinality({}) = 0 BY FS_EmptySet
  <1>6. ASSUME NEW n \in MetricNames
        PROVE  Cardinality({x \in DOMAIN seen \cup Admitted : NameOf[x] = n}) = 0
    <2>1. {x \in DOMAIN seen \cup Admitted : NameOf[x] = n} = {}
      BY <1>3 DEF Claimed
    <2>q. QED BY <1>5, <2>1
  <1>7. Cardinality(DOMAIN seen \cup Admitted) = 0 BY <1>3, <1>5 DEF Claimed
  <1>8. 0 < MaxUniqueSeries + Overshoot /\ 0 < MaxSeriesPerMetric + Overshoot
    BY <1>4, IngestConstants DEF SmallOK
  <1>9. AdmittedBounded BY <1>6, <1>7, <1>8 DEF AdmittedBounded
  <1>q. QED BY <1>2, <1>9

\* The invariants that support each other.
LEMMA BoundInductive == NoCommaInNames => (Spec => []BInv)
  <1> SUFFICES ASSUME NoCommaInNames PROVE Spec => []BInv OBVIOUS
  <1>1. Init => BInv BY TypeInit, FiniteInit, CoverInit, BoundInit DEF BInv, CInv
  <1>2. BInv /\ [Next]_vars => BInv'
    <2> SUFFICES ASSUME BInv, [Next]_vars PROVE BInv' OBVIOUS
    <2>1. TypeOK' /\ IsFiniteSet(DOMAIN seen)' /\ CountersCoverSeen'
      BY TypeStep, FiniteStep, CoverStep DEF BInv, CInv
    <2>2. BatchesOK' BY BatchesStep DEF BInv, CInv
    <2>q. QED BY <2>1, <2>2, BoundStep DEF BInv, CInv
  <1>q. QED BY <1>1, <1>2, PTL DEF Spec

\* Check, Write and Record: tracked and admitted series together stay within
\* the limits plus one batch per concurrent request.
THEOREM AdmissionBound == NoCommaInNames => (Spec => []AdmittedBounded)
  <1>1. BInv => AdmittedBounded BY DEF BInv
  <1>q. QED BY <1>1, BoundInductive, PTL

\* The memory of the cardinality tracker is bounded: however many requests
\* race between Check and Record, it holds fewer series than its limits plus
\* one batch per concurrent request.
THEOREM TrackerBounded == NoCommaInNames => (Spec => []SeenBounded)
  <1>1. BInv => SeenBounded
    <2> SUFFICES ASSUME BInv PROVE SeenBounded OBVIOUS
    <2>1. SmallOK BY AdmittedSmall DEF BInv, CInv
    <2>2. IsFiniteSet(Claimed) BY <2>1, FS_Union DEF BInv, CInv, Claimed, SmallOK
    <2>3. ASSUME NEW S, NEW T, S \subseteq T, T \subseteq Claimed
          PROVE  /\ Cardinality(S) \in Nat /\ Cardinality(T) \in Nat
                 /\ Cardinality(S) <= Cardinality(T)
      <3>1. IsFiniteSet(T) BY <2>2, <2>3, FS_Subset
      <3>2. IsFiniteSet(S) /\ Cardinality(S) <= Cardinality(T)
        BY <2>3, <3>1, FS_Subset
      <3>q. QED BY <3>1, <3>2, FS_CardinalityType
    <2>4. /\ MaxUniqueSeries \in Nat /\ MaxSeriesPerMetric \in Nat
          /\ Overshoot \in Nat
      BY <2>1, IngestConstants DEF SmallOK
    <2>5. Cardinality(DOMAIN seen) < MaxUniqueSeries + Overshoot
      <3>1. Cardinality(Claimed) < MaxUniqueSeries + Overshoot
        BY DEF BInv, AdmittedBounded, Claimed
      <3>2. DOMAIN seen \subseteq Claimed BY DEF Claimed
      <3>q. QED BY <2>3, <2>4, <3>1, <3>2
    <2>6. ASSUME NEW n \in MetricNames
          PROVE  Cardinality(Of(n)) < MaxSeriesPerMetric + Overshoot
      <3>1. Cardinality(Named(Claimed, n)) < MaxSeriesPerMetric + Overshoot
        BY DEF BInv, AdmittedBounded, Claimed, Named
      <3>2. Of(n) \subseteq Named(Claimed, n) /\ Named(Claimed, n) \subseteq Claimed
        BY DEF Of, Named, Claimed
      <3>q. QED BY <2>3, <2>4, <3>1, <3>2
    <2>q. QED BY <2>5, <2>6 DEF SeenBounded
  <1>q. QED BY <1>1, BoundInductive, PTL

=============================================================================
