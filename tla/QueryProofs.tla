----------------------------- MODULE QueryProofs -----------------------------
(***************************************************************************)
(* What the read side promises, for any number of requests and any         *)
(* samples.                                                                *)
(*                                                                         *)
(* Types and the sample limit do not depend on what the parser and the     *)
(* executor compute (ParseQuery and Evaluate are constants), only on when  *)
(* the shared counter is reset, read and stored.  The theorems about       *)
(* answers (a selector less itself, series kept apart, groups, rates)      *)
(* assume of Evaluate only that it is a fixed point of executeExpr, and    *)
(* hold for every expression; the one about charts assumes nothing.        *)
(***************************************************************************)
EXTENDS QueryAnswers, SumTheorems

Samples == Stored \cup Arriving

Shapes ==
    /\ store \subseteq Samples
    /\ pc \in [Requests -> Steps]
    /\ founds \in [Requests -> Seq(SUBSET Samples)]
    /\ loaded \in [Requests -> Nat]
    /\ register \in [Requests -> Nat]
    /\ samplesLoaded \in Nat
    /\ shared \in [Requests -> BOOLEAN]
    /\ response = [r \in Requests |-> response[r]]

\* Of two queries that are executed at once, both know.
Overlaps == \A r, s \in Executing : r # s => shared[r]

\* How far the counter is behind the samples of the one query.
Counting ==
    \A r \in Requests : ~ shared[r] =>
        /\ pc[r] = "eval"  => samplesLoaded = loaded[r] /\ loaded[r] <= MaxSamples
        /\ pc[r] = "read"  => samplesLoaded + Cardinality(Last(founds[r])) = loaded[r]
        /\ pc[r] = "write" => register[r] = loaded[r]
        /\ pc[r] = "check" => register[r] = loaded[r] /\ samplesLoaded = loaded[r]

Ended ==
    \A r \in Requests :
        /\ pc[r] = "new" => loaded[r] = 0
        /\ pc[r] = "read" => founds[r] # << >>
        /\ response[r].code = 200 =>
                pc[r] = "done" /\ (shared[r] \/ loaded[r] <= MaxSamples)

IInv == Shapes /\ Overlaps /\ Counting /\ Ended

-----------------------------------------------------------------------------
\* Sets of samples are finite.
LEMMA SamplesFiniteSet ==
    ASSUME NEW found \in SUBSET Samples
    PROVE  IsFiniteSet(found)
  <1>1. IsFiniteSet(Samples)
    BY ServerConstants, FS_Union DEF Samples
  <1>. QED
    BY <1>1, FS_Subset

\* They can be counted.
LEMMA SamplesFinite ==
    ASSUME NEW found \in SUBSET Samples
    PROVE  Cardinality(found) \in Nat
  BY SamplesFiniteSet, FS_CardinalityType

\* What a query of the store finds is in the store.
LEMMA MatchingSubset ==
    ASSUME NEW request
    PROVE  Matching(store, request) \subseteq store
  BY DEF Matching

\* A list is of what it was appended to last.
LEMMA LastAppended ==
    ASSUME NEW s \in Seq(SUBSET Samples), NEW found \in SUBSET Samples
    PROVE  /\ Append(s, found) \in Seq(SUBSET Samples)
           /\ Append(s, found) # << >>
           /\ Last(Append(s, found)) = found
  BY DEF Last

\* A list that is not empty ends in one of its sets.
LEMMA LastFound ==
    ASSUME NEW s \in Seq(SUBSET Samples), s # << >>
    PROVE  Last(s) \in SUBSET Samples
  BY DEF Last

-----------------------------------------------------------------------------
\* A request that is answered without having run, or by an error.
LEMMA Refusal ==
    ASSUME IInv, NEW r \in Requests, NEW resp, resp.code # 200,
           Respond(r, resp), UNCHANGED <<store, executor, shared>>
    PROVE  IInv'
  <1>. USE DEF IInv, Respond, Goto, executor
  <1>1. Shapes'
    BY DEF Shapes, Steps
  <1>2. Executing' \subseteq Executing
    BY DEF Shapes, Executing
  <1>3. Overlaps'
    BY <1>2 DEF Overlaps
  <1>4. Counting'
    BY DEF Counting, Shapes
  <1>5. Ended'
    BY DEF Ended, Shapes
  <1>. QED
    BY <1>1, <1>3, <1>4, <1>5

\* A query starts with the counter at its own zero, or knows that it shares it.
LEMMA ExecuteStep ==
    ASSUME IInv, NEW r \in Requests, Execute(r)
    PROVE  IInv'
  <1>. USE DEF IInv, Execute, ResetCounter, Goto
  <1>1. Shapes'
    <2>1. shared' \in [Requests -> BOOLEAN]
      BY DEF Shapes
    <2>. QED
      BY <2>1 DEF Shapes, Steps
  <1>2. Executing' = Executing \cup {r}
    BY DEF Shapes, Executing
  <1>3. r \notin Executing
    BY DEF Executing
  <1>4. \A s \in Requests : shared'[s] = (IF s = r THEN Executing # {} ELSE shared[s] \/ s \in Executing)
    OBVIOUS
  <1>5. Overlaps'
    <2>. SUFFICES ASSUME NEW s \in Executing', NEW t \in Executing', s # t
                  PROVE  shared'[s]
      BY DEF Overlaps
    <2>1. s \in Requests
      BY DEF Executing
    <2>2. CASE s = r
      BY <2>2, <1>2, <1>4
    <2>3. CASE s # r
      BY <2>1, <2>3, <1>2, <1>4
    <2>. QED
      BY <2>2, <2>3
  <1>6. Counting'
    <2>. SUFFICES ASSUME NEW s \in Requests, ~ shared'[s]
                  PROVE  /\ pc'[s] = "eval"  => samplesLoaded' = loaded'[s] /\ loaded'[s] <= MaxSamples
                         /\ pc'[s] \notin {"read", "write", "check"}
      BY DEF Counting
    <2>1. CASE s = r
      BY <2>1, ServerConstants DEF Ended, Shapes
    <2>2. CASE s # r
      <3>1. s \notin Executing
        BY <2>2, <1>4
      <3>. QED
        BY <3>1, <2>2 DEF Executing, Shapes
    <2>. QED
      BY <2>1, <2>2
  <1>7. Ended'
    <2>. SUFFICES ASSUME NEW s \in Requests
                  PROVE  /\ pc'[s] = "new" => loaded'[s] = 0
                         /\ pc'[s] = "read" => founds'[s] # << >>
                         /\ response'[s].code = 200 =>
                                pc'[s] = "done" /\ (shared'[s] \/ loaded'[s] <= MaxSamples)
      BY DEF Ended
    <2>1. CASE s = r
      BY <2>1 DEF Ended, Shapes
    <2>2. CASE s # r
      BY <2>2, <1>4 DEF Ended, Shapes, Executing
    <2>. QED
      BY <2>1, <2>2
  <1>. QED
    BY <1>1, <1>5, <1>6, <1>7

\* What a selector found is counted as loaded before the counter knows of it.
LEMMA QueryStoreStep ==
    ASSUME IInv, NEW r \in Requests, QueryStore(r)
    PROVE  IInv'
  <1>. DEFINE found == Matching(store, Outcome(r).request)
  <1>. USE DEF IInv, QueryStore, Goto
  <1>1. found \in SUBSET Samples
    BY MatchingSubset DEF Shapes
  <1>2. Cardinality(found) \in Nat
    BY <1>1, SamplesFinite
  <1>3. /\ founds' = [founds EXCEPT ![r] = Append(founds[r], found)]
        /\ loaded' = [loaded EXCEPT ![r] = loaded[r] + Cardinality(found)]
    OBVIOUS
  <1>. HIDE DEF found
  <1>4. founds[r] \in Seq(SUBSET Samples)
    BY DEF Shapes
  <1>5. /\ Append(founds[r], found) \in Seq(SUBSET Samples)
        /\ Append(founds[r], found) # << >>
        /\ Last(Append(founds[r], found)) = found
    BY <1>1, <1>4, LastAppended
  <1>6. Shapes'
    BY <1>2, <1>3, <1>5 DEF Shapes, Steps
  <1>7. Executing' = Executing /\ r \in Executing
    BY DEF Shapes, Executing
  <1>8. Overlaps'
    BY <1>7 DEF Overlaps
  <1>9. Counting'
    <2>. SUFFICES ASSUME NEW s \in Requests, ~ shared'[s]
                  PROVE  /\ pc'[s] = "eval"  => samplesLoaded' = loaded'[s] /\ loaded'[s] <= MaxSamples
                         /\ pc'[s] = "read"  =>
                                samplesLoaded' + Cardinality(Last(founds'[s])) = loaded'[s]
                         /\ pc'[s] = "write" => register'[s] = loaded'[s]
                         /\ pc'[s] = "check" => register'[s] = loaded'[s] /\ samplesLoaded' = loaded'[s]
      BY DEF Counting
    <2>1. CASE s = r
      <3>1. pc'[s] = "read" /\ samplesLoaded = loaded[r]
        BY <2>1 DEF Shapes, Counting
      <3>2. founds'[s] = Append(founds[r], found) /\ loaded'[s] = loaded[r] + Cardinality(found)
        BY <2>1, <1>3 DEF Shapes
      <3>. QED
        BY <3>1, <3>2, <1>5
    <2>2. CASE s # r
      BY <2>2, <1>3 DEF Shapes, Counting
    <2>. QED
      BY <2>1, <2>2
  <1>10. Ended'
    BY <1>3, <1>5 DEF Ended, Shapes
  <1>. QED
    BY <1>6, <1>8, <1>9, <1>10

\* A lone query reads a counter that lacks just what it found last.
LEMMA ReadCounterStep ==
    ASSUME IInv, NEW r \in Requests, ReadCounter(r)
    PROVE  IInv'
  <1>. USE DEF IInv, ReadCounter, Goto
  <1>1. Last(founds[r]) \in SUBSET Samples
    BY LastFound DEF Shapes, Ended
  <1>2. Cardinality(Last(founds[r])) \in Nat
    BY <1>1, SamplesFinite
  <1>3. Shapes'
    BY <1>2 DEF Shapes, Steps
  <1>4. Executing' = Executing /\ r \in Executing
    BY DEF Shapes, Executing
  <1>5. Overlaps'
    BY <1>4 DEF Overlaps
  <1>6. Counting'
    BY DEF Counting, Shapes
  <1>7. Ended'
    BY DEF Ended, Shapes
  <1>. QED
    BY <1>3, <1>5, <1>6, <1>7

\* Storing the counter disturbs no other query that runs alone.
LEMMA WriteCounterStep ==
    ASSUME IInv, NEW r \in Requests, WriteCounter(r)
    PROVE  IInv'
  <1>. USE DEF IInv, WriteCounter, Goto
  <1>1. Shapes'
    BY DEF Shapes, Steps
  <1>2. Executing' = Executing /\ r \in Executing
    BY DEF Shapes, Executing
  <1>3. Overlaps'
    BY <1>2 DEF Overlaps
  <1>4. \A s \in Requests : s # r /\ ~ shared[s] => s \notin Executing
    BY <1>2 DEF Overlaps
  <1>5. Counting'
    <2>. SUFFICES ASSUME NEW s \in Requests, ~ shared'[s], s \in Executing'
                  PROVE  /\ pc'[s] = "check"
                         /\ register'[s] = loaded'[s] /\ samplesLoaded' = loaded'[s]
      BY DEF Counting, Executing
    <2>1. s = r
      BY <1>2, <1>4
    <2>. QED
      BY <2>1 DEF Shapes, Counting
  <1>6. Ended'
    BY DEF Ended, Shapes
  <1>. QED
    BY <1>1, <1>3, <1>5, <1>6

\* A lone query goes on only when all it has loaded is within the limit.
LEMMA CheckLimitStep ==
    ASSUME IInv, NEW r \in Requests, CheckLimit(r)
    PROVE  IInv'
  <1>1. CASE Respond(r, Failed)
    <2>1. Failed.code # 200
      BY DEF Failed
    <2>. QED
      BY <1>1, <2>1, Refusal DEF CheckLimit
  <1>2. CASE /\ Goto(r, "eval")
             /\ UNCHANGED response
             /\ \E n \in {samplesLoaded, register[r]} : ~ n > MaxSamples
    <2>. USE <1>2 DEF IInv, CheckLimit, Goto, executor
    <2>1. Shapes'
      BY DEF Shapes, Steps
    <2>2. Executing' = Executing /\ r \in Executing
      BY DEF Shapes, Executing
    <2>3. Overlaps'
      BY <2>2 DEF Overlaps
    <2>4. ~ shared[r] => samplesLoaded = loaded[r] /\ loaded[r] <= MaxSamples
      BY ServerConstants DEF Shapes, Counting
    <2>5. Counting'
      BY <2>4 DEF Counting, Shapes
    <2>6. Ended'
      BY DEF Ended, Shapes
    <2>. QED
      BY <2>1, <2>3, <2>5, <2>6
  <1>. QED
    BY <1>1, <1>2 DEF CheckLimit

\* An answer is given to a query that has passed every check.
LEMMA FinishStep ==
    ASSUME IInv, NEW r \in Requests, Finish(r)
    PROVE  IInv'
  <1>1. CASE Respond(r, Failed)
    <2>1. Failed.code # 200
      BY DEF Failed
    <2>. QED
      BY <1>1, <2>1, Refusal DEF Finish
  <1>2. CASE Respond(r, Answer(Converted(r, Outcome(r).result)))
    <2>. USE <1>2 DEF IInv, Finish, Respond, Goto, executor
    <2>1. Shapes'
      BY DEF Shapes, Steps
    <2>2. Executing' \subseteq Executing
      BY DEF Shapes, Executing
    <2>3. Overlaps'
      BY <2>2 DEF Overlaps
    <2>4. Counting'
      BY DEF Counting, Shapes
    <2>5. Ended'
      BY DEF Ended, Shapes, Counting
    <2>. QED
      BY <2>1, <2>3, <2>4, <2>5
  <1>. QED
    BY <1>1, <1>2 DEF Finish

\* A query that loops over a constant loads nothing.
LEMMA SpinStep ==
    ASSUME IInv, NEW r \in Requests, Spin(r)
    PROVE  IInv'
  <1>. USE DEF IInv, Spin, Goto, executor
  <1>1. Shapes'
    BY DEF Shapes, Steps
  <1>2. Executing' \subseteq Executing
    BY DEF Shapes, Executing
  <1>3. Overlaps'
    BY <1>2 DEF Overlaps
  <1>4. Counting'
    BY DEF Counting, Shapes
  <1>5. Ended'
    BY DEF Ended, Shapes
  <1>. QED
    BY <1>1, <1>3, <1>4, <1>5

\* The dashboard's handlers load nothing through the executor.
LEMMA DashboardStep ==
    ASSUME IInv, NEW r \in Requests, HandleMetricsList(r) \/ HandleRangeQuery(r)
    PROVE  IInv'
  <1>1. /\ pc[r] = "new" /\ \E resp : Respond(r, resp)
        /\ UNCHANGED <<store, loaded, register, samplesLoaded, shared>>
        /\ founds' = founds
            \/ founds' = [founds EXCEPT ![r] = <<Matching(store, Wanted(workload[r]))>>]
    BY DEF HandleMetricsList, HandleRangeQuery, executor
  <1>. USE <1>1 DEF IInv, Respond, Goto
  <1>2. Matching(store, Wanted(workload[r])) \in SUBSET Samples
    BY MatchingSubset DEF Shapes
  <1>3. <<Matching(store, Wanted(workload[r]))>> \in Seq(SUBSET Samples)
    BY <1>2
  <1>4. Shapes'
    <2>1. founds' \in [Requests -> Seq(SUBSET Samples)]
      BY <1>3 DEF Shapes
    <2>. QED
      BY <2>1 DEF Shapes, Steps
  <1>5. Executing' = Executing /\ r \notin Executing
    BY DEF Shapes, Executing
  <1>6. Overlaps'
    BY <1>5 DEF Overlaps
  <1>7. Counting'
    BY DEF Counting, Shapes
  <1>8. Ended'
    BY ServerConstants DEF Ended, Shapes
  <1>. QED
    BY <1>4, <1>6, <1>7, <1>8

\* A sample that arrives is counted by no query until it is found.
LEMMA ArriveStep ==
    ASSUME IInv, NEW m \in Arriving, Arrive(m)
    PROVE  IInv'
  <1>. USE DEF IInv, Arrive, executor
  <1>1. Shapes'
    BY DEF Shapes, Samples
  <1>2. Overlaps' /\ Counting' /\ Ended'
    BY DEF Overlaps, Counting, Ended, Executing
  <1>. QED
    BY <1>1, <1>2

-----------------------------------------------------------------------------
\* Nothing is loaded, counted or answered at first.
LEMMA InvariantHolds == Init => IInv
  <1>. SUFFICES ASSUME Init PROVE IInv
    OBVIOUS
  <1>1. Shapes
    <2>1. << >> \in Seq(SUBSET Samples)
      OBVIOUS
    <2>. QED
      BY <2>1 DEF Init, Shapes, Steps, Samples
  <1>2. Overlaps /\ Counting /\ Ended
    BY DEF Init, Overlaps, Executing, Counting, Ended, NoResponse
  <1>. QED
    BY <1>1, <1>2 DEF IInv

\* Each action keeps the invariant.
LEMMA InvariantIsKept == IInv /\ [Next]_vars => IInv'
  <1>. SUFFICES ASSUME IInv, [Next]_vars PROVE IInv'
    OBVIOUS
  <1>1. ASSUME NEW r \in Requests, Refuse(r) PROVE IInv'
    <2>1. Refused.code # 200
      BY DEF Refused
    <2>. QED
      BY <1>1, <2>1, Refusal DEF Refuse
  <1>2. ASSUME NEW r \in Requests, Execute(r) PROVE IInv'
    BY <1>2, ExecuteStep
  <1>3. ASSUME NEW r \in Requests, Step(r) PROVE IInv'
    <2>1. ASSUME StoreFails(r) PROVE IInv'
      <3>1. Failed.code # 200
        BY DEF Failed
      <3>. QED
        BY <2>1, <3>1, Refusal DEF StoreFails
    <2>. QED
      BY <1>3, <2>1, QueryStoreStep, ReadCounterStep, WriteCounterStep, CheckLimitStep,
         SpinStep, FinishStep DEF Step
  <1>4. ASSUME NEW r \in Requests, HandleMetricsList(r) \/ HandleRangeQuery(r) PROVE IInv'
    BY <1>4, DashboardStep
  <1>5. ASSUME NEW m \in Arriving, Arrive(m) PROVE IInv'
    BY <1>5, ArriveStep
  <1>6. CASE UNCHANGED vars
    BY <1>6 DEF IInv, Shapes, Overlaps, Counting, Ended, Executing, vars, executor
  <1>. QED
    BY <1>1, <1>2, <1>3, <1>4, <1>5, <1>6 DEF Next

\* The counter a lone query is checked against is its own: no leftover of earlier
\* queries, none of its own samples missed, however many requests there are.
THEOREM LoneQueries == Spec => []LoneQueryIsLimited
  <1>1. IInv => LoneQueryIsLimited
    BY DEF IInv, Counting, Ended, LoneQueryIsLimited
  <1>. QED
    BY InvariantHolds, InvariantIsKept, <1>1, PTL DEF Spec

-----------------------------------------------------------------------------
(***************************************************************************)
(* Types.  What a request has found stays in the store, and what it is     *)
(* answered is what its kind promises.                                     *)
(***************************************************************************)
Found == \A r \in Requests : \A i \in DOMAIN founds[r] : founds[r][i] \subseteq store

OnePointEach(result) == \A s \in result : Cardinality(DOMAIN s.points) <= 1

Answers ==
    \A r \in Requests :
        /\ response[r].code \in {0, 1, 200, 400, 500}
        /\ response[r].code = 200 /\ workload[r].kind = "instant"
                => OnePointEach(response[r].data)

\* convertToPrometheusInstantFormat keeps at most the last point of each series.
LEMMA LastPointIsOne == ASSUME NEW s PROVE Cardinality(DOMAIN LastPoint(s).points) <= 1
  <1>1. CASE s.points = << >>
    <2>1. LastPoint(s) = s
      BY <1>1 DEF LastPoint
    <2>2. DOMAIN s.points = {}
      BY <1>1
    <2>3. Cardinality(DOMAIN LastPoint(s).points) = 0
      BY <2>1, <2>2, FS_EmptySet
    <2>. QED
      BY <2>3
  <1>2. CASE s.points # << >>
    <2>1. PICK last : last = Max(DOMAIN s.points)
      OBVIOUS
    <2>2. LastPoint(s) = Series(s.labels, [t \in {last} |-> s.points[t]])
      BY <1>2, <2>1 DEF LastPoint
    <2>3. DOMAIN LastPoint(s).points = {last}
      BY <2>2 DEF Series
    <2>4. Cardinality(DOMAIN LastPoint(s).points) = 1
      BY <2>3, FS_Singleton
    <2>. QED
      BY <2>4
  <1>. QED
    BY <1>1, <1>2

\* A handler that keeps its kind's promise keeps everyone's.
LEMMA Responding ==
    ASSUME Shapes, Answers, NEW r \in Requests, NEW resp, Respond(r, resp), workload' = workload,
           resp.code \in {0, 1, 200, 400, 500},
           resp.code = 200 /\ workload[r].kind = "instant" => OnePointEach(resp.data)
    PROVE  Answers'
  <1>1. \A q \in Requests : response'[q] = IF q = r THEN resp ELSE response[q]
    BY DEF Respond, Shapes
  <1>. QED
    BY <1>1 DEF Answers, OnePointEach

\* Each step keeps what was promised.
LEMMA AnswersStep == Shapes /\ Answers /\ [Next]_vars => Answers'
  <1>. SUFFICES ASSUME Shapes, Answers, [Next]_vars PROVE Answers'
    OBVIOUS
  <1>0. /\ Refused.code = 400 /\ Failed.code = 500
        /\ \A data : Answer(data).code = 200 /\ Answer(data).data = data
    BY DEF Refused, Failed, Answer
  <1>1. CASE UNCHANGED <<response, workload>>
    BY <1>1 DEF Answers, OnePointEach
  <1>2. ASSUME NEW r \in Requests, Respond(r, Refused) \/ Respond(r, Failed),
               workload' = workload
        PROVE  Answers'
    BY <1>0, <1>2, Responding
  <1>3. ASSUME NEW r \in Requests, HandleMetricsList(r) PROVE Answers'
    <2>1. workload[r].kind # "instant" /\ workload' = workload
      BY <1>3 DEF HandleMetricsList
    <2>2. ASSUME NEW data, Respond(r, Answer(data)) PROVE Answers'
      BY <1>0, <2>1, <2>2, Responding
    <2>. QED
      BY <1>2, <1>3, <2>1, <2>2 DEF HandleMetricsList
  <1>4. ASSUME NEW r \in Requests, HandleRangeQuery(r) PROVE Answers'
    <2>1. workload[r].kind # "instant" /\ workload' = workload
      BY <1>4 DEF HandleRangeQuery
    <2>2. ASSUME NEW data, Respond(r, Answer(data)) PROVE Answers'
      BY <1>0, <2>1, <2>2, Responding
    <2>3. ASSUME Respond(r, Aborted) PROVE Answers'
      <3>1. Aborted.code \in {0, 1, 400, 500}
        BY DEF Aborted
      <3>. QED
        BY <1>0, <2>1, <2>3, <3>1, Responding
    <2>. QED
      BY <1>2, <1>4, <2>1, <2>2, <2>3 DEF HandleRangeQuery, ChartAnswer
  <1>5. ASSUME NEW r \in Requests, Finish(r) PROVE Answers'
    <2>1. workload' = workload
      BY <1>5 DEF Finish
    <2>2. ASSUME NEW result, Respond(r, Answer(Converted(r, result))) PROVE Answers'
      <3>1. workload[r].kind = "instant" => OnePointEach(Converted(r, result))
        BY LastPointIsOne DEF Converted, OnePointEach
      <3>. QED
        BY <1>0, <2>1, <2>2, <3>1, Responding
    <2>. QED
      BY <1>2, <1>5, <2>1, <2>2 DEF Finish
  <1>6. ASSUME NEW r \in Requests, Refuse(r) \/ StoreFails(r) PROVE Answers'
    BY <1>2, <1>6 DEF Refuse, StoreFails
  <1>7. ASSUME NEW r \in Requests, CheckLimit(r) PROVE Answers'
    BY <1>1, <1>2, <1>7 DEF CheckLimit
  <1>8. ASSUME NEW r \in Requests,
               Execute(r) \/ QueryStore(r) \/ ReadCounter(r) \/ WriteCounter(r) \/ Spin(r)
        PROVE  Answers'
    BY <1>1, <1>8 DEF Execute, QueryStore, ReadCounter, WriteCounter, Spin
  <1>9. ASSUME NEW m \in Arriving, Arrive(m) PROVE Answers'
    BY <1>1, <1>9 DEF Arrive
  <1>10. CASE UNCHANGED vars
    BY <1>1, <1>10 DEF vars
  <1>. QED
    BY <1>3, <1>4, <1>5, <1>6, <1>7, <1>8, <1>9, <1>10 DEF Next, Step

\* A selector finds samples of the store, which only grows.
LEMMA FoundStep == Shapes /\ Found /\ [Next]_vars => Found'
  <1>. SUFFICES ASSUME Shapes, Found, [Next]_vars PROVE Found'
    OBVIOUS
  <1>1. CASE founds' = founds /\ store \subseteq store'
    BY <1>1 DEF Found
  <1>2. ASSUME NEW r \in Requests, QueryStore(r) PROVE Found'
    <2>. DEFINE found == Matching(store, Outcome(r).request)
    <2>1. /\ founds' = [founds EXCEPT ![r] = Append(founds[r], found)]
          /\ store' = store
      BY <1>2 DEF QueryStore
    <2>2. found \subseteq store
      BY MatchingSubset
    <2>3. founds \in [Requests -> Seq(SUBSET Samples)]
      BY DEF Shapes
    <2>. HIDE DEF found
    <2>4. \A i \in DOMAIN Append(founds[r], found) : Append(founds[r], found)[i] \subseteq store
      BY <2>2, <2>3 DEF Found
    <2>. QED
      BY <2>1, <2>3, <2>4 DEF Found
  <1>3. ASSUME NEW r \in Requests, HandleRangeQuery(r) PROVE Found'
    <2>. DEFINE found == Matching(store, Wanted(workload[r]))
    <2>1. founds' = [founds EXCEPT ![r] = <<found>>] /\ store' = store
      BY <1>3 DEF HandleRangeQuery
    <2>2. found \subseteq store
      BY MatchingSubset
    <2>3. founds \in [Requests -> Seq(SUBSET Samples)]
      BY DEF Shapes
    <2>. HIDE DEF found
    <2>. QED
      BY <2>1, <2>2, <2>3 DEF Found
  <1>4. ASSUME NEW r \in Requests, Refuse(r) \/ Execute(r) \/ HandleMetricsList(r) PROVE Found'
    <2>1. founds' = founds /\ store' = store
      BY <1>4 DEF Refuse, Execute, HandleMetricsList, executor
    <2>. QED
      BY <1>1, <2>1
  <1>5. ASSUME NEW r \in Requests, StoreFails(r) \/ Spin(r) \/ Finish(r) PROVE Found'
    <2>1. founds' = founds /\ store' = store
      BY <1>5 DEF StoreFails, Spin, Finish, executor
    <2>. QED
      BY <1>1, <2>1
  <1>6. ASSUME NEW r \in Requests, ReadCounter(r) \/ WriteCounter(r) \/ CheckLimit(r) PROVE Found'
    <2>1. founds' = founds /\ store' = store
      BY <1>6 DEF ReadCounter, WriteCounter, CheckLimit, executor
    <2>. QED
      BY <1>1, <2>1
  <1>7. ASSUME NEW m \in Arriving, Arrive(m) PROVE Found'
    BY <1>1, <1>7 DEF Arrive, executor
  <1>8. CASE UNCHANGED vars
    BY <1>1, <1>8 DEF vars, executor
  <1>. QED
    BY <1>2, <1>3, <1>4, <1>5, <1>6, <1>7, <1>8 DEF Next, Step

\* Every variable of the query server keeps its type: what a request has found
\* stays in the store, and an instant query answers with one point per series.
THEOREM QueryTypes == Spec => []TypeOK
  <1>1. Init => Found /\ Answers /\ workload \in Workloads
    BY DEF Init, Found, Answers, NoResponse
  <1>2. IInv => Shapes
    BY DEF IInv
  <1>3. workload \in Workloads /\ [Next]_vars => workload' \in Workloads
    BY DEF Next, Step, vars, Refuse, Execute, QueryStore, StoreFails, ReadCounter,
           WriteCounter, CheckLimit, Spin, Finish, HandleMetricsList, HandleRangeQuery, Arrive
  <1>4. workload \in Workloads /\ Shapes /\ Found /\ Answers => TypeOK
    BY DEF Shapes, Found, Answers, OnePointEach, TypeOK, Samples
  <1>. DEFINE Kept == IInv /\ Found /\ Answers /\ workload \in Workloads
  <1>5. Init => Kept
    BY <1>1, InvariantHolds
  <1>6. Kept /\ [Next]_vars => Kept'
    BY <1>2, <1>3, InvariantIsKept, AnswersStep, FoundStep
  <1>7. Kept => TypeOK
    BY <1>2, <1>4
  <1>. QED
    BY <1>5, <1>6, <1>7, PTL DEF Spec

-----------------------------------------------------------------------------
(***************************************************************************)
(* Answers.  A request that was answered was answered with what its        *)
(* expression evaluates to on what its selectors found, and what they      *)
(* found are samples of one name, as a growing store held them.            *)
(***************************************************************************)
\* What QueryExpressions closes the recursion of executeExpr with.
Evaluates == \A e, q, found : Evaluate(e, q, found) = executeExpr(Evaluate, e, q, found)

\* A selector less itself.
SelfDifference(e) == e.kind = "binary" /\ e.left = e.right /\ e.left.kind = "vector"

LeftRequest(r) == Selector(query[r].expr.left, query[r].start, query[r].end)

OneName(found) == \A m, n \in found : m.name = n.name

Queries ==
    /\ query = [r \in Requests |-> query[r]]
    /\ \A r \in Requests : pc[r] = "new" => query[r] = NoQuery /\ founds[r] = << >>

Reads ==
    \A r \in Requests :
        /\ \A i \in DOMAIN founds[r] : OneName(founds[r][i])
        /\ SelfDifference(query[r].expr) => \A i \in DOMAIN founds[r] :
                /\ founds[r][i] \subseteq Matching(store, LeftRequest(r))
                /\ \A j \in i .. Len(founds[r]) : founds[r][i] \subseteq founds[r][j]

Evaluated ==
    \A r \in Requests : Answered(r, ExecutorKinds) =>
        Outcome(r).kind = "value" /\ response[r].data = Converted(r, Outcome(r).result)

AInv == Queries /\ Reads /\ Evaluated

\* What a step may do to a request.
Stays(r) == query'[r] = query[r] /\ founds'[r] = founds[r] /\ (pc'[r] = "new" => pc[r] = "new")

Answers200(r) ==
    \/ response'[r] = response[r]
    \/ response'[r].code # 200
    \/ workload[r].kind \notin ExecutorKinds
    \/ Outcome(r).kind = "value" /\ response'[r] = Answer(Converted(r, Outcome(r).result))

Begins(r) == pc[r] = "new" /\ pc'[r] # "new" /\ founds'[r] = founds[r] /\ response'[r] = response[r]

ReadsMore(r) ==
    /\ pc[r] = "eval" /\ pc'[r] # "new"
    /\ Outcome(r).kind = "needs"
    /\ founds'[r] = Append(founds[r], Matching(store, Outcome(r).request))
    /\ query'[r] = query[r] /\ response'[r] = response[r] /\ store' = store

Charting(r) ==
    /\ pc[r] = "new" /\ pc'[r] # "new"
    /\ workload[r].kind = "chart"
    /\ \E request : founds'[r] = <<Matching(store, request)>>
    /\ query'[r] = query[r]

Effect(r) == (Stays(r) /\ Answers200(r)) \/ Begins(r) \/ ReadsMore(r) \/ Charting(r)

\* Every step leaves a request alone or moves it along.
LEMMA Effects ==
    ASSUME IInv, Queries, [Next]_vars
    PROVE  /\ workload' = workload
           /\ store \subseteq store'
           /\ query' = [r \in Requests |-> query'[r]]
           /\ \A r \in Requests : Effect(r)
  <1>. DEFINE All == /\ workload' = workload
                     /\ store \subseteq store'
                     /\ query' = [r \in Requests |-> query'[r]]
                     /\ \A r \in Requests : Effect(r)
  <1>. SUFFICES All
    OBVIOUS
  <1>0. /\ pc \in [Requests -> Steps] /\ founds \in [Requests -> Seq(SUBSET Samples)]
        /\ response = [r \in Requests |-> response[r]]
        /\ query = [r \in Requests |-> query[r]]
    BY DEF IInv, Shapes, Queries
  <1>c. Refused.code = 400 /\ Failed.code = 500
    BY DEF Refused, Failed
  <1>1. ASSUME NEW q \in Requests, Refuse(q) PROVE All
    BY <1>0, <1>1, <1>c DEF Refuse, Respond, Goto, executor, Effect, Stays, Answers200
  <1>2. ASSUME NEW q \in Requests, Execute(q) PROVE All
    BY <1>0, <1>2 DEF Execute, Goto, Effect, Stays, Answers200, Begins
  <1>3. ASSUME NEW q \in Requests, QueryStore(q) PROVE All
    <2>1. founds' = [founds EXCEPT ![q] = Append(founds[q], Matching(store, Outcome(q).request))]
      BY <1>3 DEF QueryStore
    <2>2. ReadsMore(q)
      BY <1>0, <1>3, <2>1 DEF QueryStore, Goto, ReadsMore
    <2>3. \A r \in Requests : r # q => Stays(r) /\ Answers200(r)
      BY <1>0, <1>3, <2>1 DEF QueryStore, Goto, Stays, Answers200
    <2>4. workload' = workload /\ store' = store /\ query' = query
      BY <1>3 DEF QueryStore
    <2>. QED
      BY <1>0, <2>2, <2>3, <2>4 DEF Effect
  <1>4. ASSUME NEW q \in Requests, StoreFails(q) PROVE All
    BY <1>0, <1>4, <1>c DEF StoreFails, Respond, Goto, executor, Effect, Stays, Answers200
  <1>5. ASSUME NEW q \in Requests, ReadCounter(q) \/ WriteCounter(q) PROVE All
    BY <1>0, <1>5 DEF ReadCounter, WriteCounter, Goto, executor, Effect, Stays, Answers200
  <1>6. ASSUME NEW q \in Requests, CheckLimit(q) PROVE All
    <2>1. Respond(q, Failed) \/ (Goto(q, "eval") /\ UNCHANGED response)
      BY <1>6 DEF CheckLimit
    <2>2. UNCHANGED <<workload, store, executor, shared>> /\ pc[q] = "check"
      BY <1>6 DEF CheckLimit
    <2>. QED
      BY <1>0, <1>c, <2>1, <2>2 DEF Respond, Goto, executor, Effect, Stays, Answers200
  <1>7. ASSUME NEW q \in Requests, Spin(q) PROVE All
    BY <1>0, <1>7 DEF Spin, Goto, executor, Effect, Stays, Answers200
  <1>8. ASSUME NEW q \in Requests, Finish(q) PROVE All
    <2>1. UNCHANGED <<workload, store, executor, shared>> /\ pc[q] = "eval"
      BY <1>8 DEF Finish
    <2>2. CASE Respond(q, Failed)
      BY <1>0, <1>c, <2>1, <2>2 DEF Respond, Goto, executor, Effect, Stays, Answers200
    <2>3. CASE Outcome(q).kind = "value" /\ Respond(q, Answer(Converted(q, Outcome(q).result)))
      <3>1. PICK resp : /\ resp = Answer(Converted(q, Outcome(q).result))
                        /\ Respond(q, resp)
        BY <2>3
      <3>2. \A r \in Requests : Stays(r)
        BY <1>0, <2>1, <3>1 DEF Respond, Goto, executor, Stays
      <3>3. response'[q] = resp /\ \A r \in Requests : r # q => response'[r] = response[r]
        BY <1>0, <3>1 DEF Respond
      <3>4. Answers200(q)
        BY <2>3, <3>1, <3>3 DEF Answers200
      <3>5. \A r \in Requests : r # q => Answers200(r)
        BY <3>3 DEF Answers200
      <3>. QED
        BY <1>0, <2>1, <3>2, <3>4, <3>5 DEF Effect, executor
    <2>. QED
      BY <1>8, <2>2, <2>3 DEF Finish
  <1>9. ASSUME NEW q \in Requests, HandleMetricsList(q) PROVE All
    <2>1. /\ UNCHANGED <<workload, store, executor, shared>>
          /\ workload[q].kind = "list"
          /\ \E resp : Respond(q, resp)
      BY <1>9 DEF HandleMetricsList
    <2>2. "list" \notin ExecutorKinds
      BY DEF ExecutorKinds
    <2>. QED
      BY <1>0, <2>1, <2>2 DEF Respond, Goto, executor, Effect, Stays, Answers200
  <1>10. ASSUME NEW q \in Requests, HandleRangeQuery(q) PROVE All
    <2>1. PICK found : /\ found = Matching(store, Wanted(workload[q]))
                       /\ founds' = [founds EXCEPT ![q] = <<found>>]
      BY <1>10 DEF HandleRangeQuery
    <2>2. /\ pc[q] = "new" /\ workload[q].kind = "chart"
          /\ \E resp : Respond(q, resp)
          /\ UNCHANGED <<workload, store, query>>
      BY <1>10 DEF HandleRangeQuery
    <2>3. Charting(q)
      BY <1>0, <2>1, <2>2 DEF Charting, Respond, Goto
    <2>4. \A r \in Requests : r # q => Stays(r) /\ Answers200(r)
      BY <1>0, <2>1, <2>2 DEF Stays, Answers200, Respond, Goto
    <2>. QED
      BY <1>0, <2>2, <2>3, <2>4 DEF Effect
  <1>11. ASSUME NEW m \in Arriving, Arrive(m) PROVE All
    BY <1>0, <1>11 DEF Arrive, executor, Effect, Stays, Answers200
  <1>12. CASE UNCHANGED vars
    BY <1>0, <1>12 DEF vars, executor, Effect, Stays, Answers200
  <1>. HIDE DEF All
  <1>13. ASSUME NEW q \in Requests, Step(q) PROVE All
    BY <1>3, <1>4, <1>5, <1>6, <1>7, <1>8, <1>13 DEF Step
  <1>. QED
    BY <1>1, <1>2, <1>9, <1>10, <1>11, <1>12, <1>13 DEF Next
-----------------------------------------------------------------------------
(***************************************************************************)
(* What executeExpr makes of the expressions the answers are about.        *)
(***************************************************************************)
\* A selector asks the store, or has the series of the first thing found.
LEMMA VectorOutcome ==
    ASSUME Evaluates, NEW e, NEW q, NEW f, e.kind = "vector"
    PROVE  Evaluate(e, q, f) =
              IF f = << >> THEN Needs(Selector(e, q.start, q.end)) ELSE Value(SeriesOf(Head(f)), Tail(f))
  <1>1. Evaluate(e, q, f) = executeExpr(Evaluate, e, q, f)
    BY DEF Evaluates
  <1>. QED
    BY <1>1 DEF executeExpr, Load

\* The two sides of m - m are one selector, evaluated on what is found first and second.
LEMMA DifferenceOutcome ==
    ASSUME Evaluates, NEW e, NEW q, NEW S, NEW f \in Seq(S), SelfDifference(e),
           NEW outcome, outcome = Evaluate(e, q, f)
    PROVE  /\ outcome.kind = "needs" =>
                Len(f) < 2 /\ outcome.request = Selector(e.left, q.start, q.end)
           /\ outcome.kind = "value" =>
                /\ Len(f) >= 2
                /\ CanApply(SeriesOf(f[1]), SeriesOf(f[2]))
                /\ outcome.result = applyBinaryOp(SeriesOf(f[1]), SeriesOf(f[2]), e.op)
  <1>0. e.kind = "binary" /\ e.left.kind = "vector" /\ e.right = e.left
    BY DEF SelfDifference
  <1>1. PICK request : request = Selector(e.left, q.start, q.end)
    OBVIOUS
  <1>2. PICK left : left = Evaluate(e.left, q, f)
    OBVIOUS
  <1>3. PICK right : right = Evaluate(e.left, q, left.rest)
    OBVIOUS
  <1>4. outcome =
            IF left.kind # "value" THEN left
            ELSE IF right.kind # "value" THEN right
            ELSE IF CanApply(left.result, right.result)
            THEN Value(applyBinaryOp(left.result, right.result, e.op), right.rest)
            ELSE Fails
    <2>1. Evaluate(e, q, f) = executeExpr(Evaluate, e, q, f)
      BY DEF Evaluates
    <2>. QED
      BY <1>0, <1>2, <1>3, <2>1 DEF executeExpr
  <1>5. CASE f = << >>
    <2>1. left = Needs(request)
      BY <1>0, <1>1, <1>2, <1>5, VectorOutcome
    <2>. QED
      BY <1>1, <1>4, <1>5, <2>1 DEF Needs
  <1>6. CASE f # << >>
    <2>1. left = Value(SeriesOf(Head(f)), Tail(f)) /\ Head(f) = f[1]
      BY <1>0, <1>2, <1>6, VectorOutcome
    <2>2. left.kind = "value" /\ left.rest = Tail(f) /\ left.result = SeriesOf(f[1])
      BY <2>1 DEF Value
    <2>3. right = IF Tail(f) = << >> THEN Needs(request)
                  ELSE Value(SeriesOf(Head(Tail(f))), Tail(Tail(f)))
      BY <1>0, <1>1, <1>3, <2>2, VectorOutcome
    <2>4. CASE Tail(f) = << >>
      <3>1. Len(f) = 1
        <4>1. Len(Tail(f)) = Len(f) - 1 /\ Len(f) \in Nat
          BY <1>6
        <4>2. Len(<< >>) = 0
          OBVIOUS
        <4>3. Len(Tail(f)) = 0
          BY <2>4, <4>2, Zenon
        <4>. QED
          BY <4>1, <4>3
      <3>2. right.kind # "value"
        BY <2>3, <2>4 DEF Needs
      <3>3. outcome = Needs(request)
        BY <1>4, <2>2, <2>3, <2>4, <3>2
      <3>. QED
        BY <1>1, <3>1, <3>3 DEF Needs
    <2>5. CASE Tail(f) # << >>
      <3>1. Len(f) >= 2 /\ Head(Tail(f)) = f[2]
        BY <1>6, <2>5
      <3>2. right.kind = "value" /\ right.result = SeriesOf(f[2])
        BY <2>3, <2>5, <3>1 DEF Value
      <3>3. CASE CanApply(left.result, right.result)
        BY <1>4, <2>2, <3>1, <3>2, <3>3 DEF Value
      <3>4. CASE ~ CanApply(left.result, right.result)
        BY <1>4, <2>2, <3>2, <3>4 DEF Fails
      <3>. QED
        BY <3>3, <3>4
    <2>. QED
      BY <2>4, <2>5
  <1>. QED
    BY <1>5, <1>6

\* An aggregation of a selector aggregates the series of the first thing found.
LEMMA AggregateOutcome ==
    ASSUME Evaluates, NEW e, NEW q, NEW f, e.kind = "aggregate", e.expr.kind = "vector",
           Evaluate(e, q, f).kind = "value"
    PROVE  /\ f # << >>
           /\ Evaluate(e, q, f).result = Aggregated(SeriesOf(Head(f)), e.op, e.grouping, e.without)
  <1>1. Evaluate(e, q, f) = executeExpr(Evaluate, e, q, f)
    BY DEF Evaluates
  <1>2. PICK inner : inner = Evaluate(e.expr, q, f)
    OBVIOUS
  <1>3. Evaluate(e, q, f) =
            IF inner.kind = "value"
            THEN Value(Aggregated(inner.result, e.op, e.grouping, e.without), inner.rest)
            ELSE inner
    BY <1>1, <1>2 DEF executeExpr, Then
  <1>4. inner = IF f = << >> THEN Needs(Selector(e.expr, q.start, q.end))
                ELSE Value(SeriesOf(Head(f)), Tail(f))
    BY <1>2, VectorOutcome
  <1>5. inner.kind = "value" /\ f # << >>
    BY <1>3, <1>4 DEF Needs, Value
  <1>6. inner.result = SeriesOf(Head(f))
    BY <1>4, <1>5 DEF Value
  <1>. QED
    BY <1>3, <1>5, <1>6 DEF Value

\* A rate, or an increase, is one of the series of the first thing found.
LEMMA CallOutcome ==
    ASSUME Evaluates, NEW e, NEW q, NEW f, e.kind = "call", Evaluate(e, q, f).kind = "value"
    PROVE  LET d == e.args[1].duration
           IN  /\ f # << >>
               /\ \/ e.name = "rate" /\ Evaluate(e, q, f).result = Rate(SeriesOf(Head(f)), d)
                  \/ e.name = "increase" /\ Evaluate(e, q, f).result = Increase(SeriesOf(Head(f)), d)
  <1>1. Evaluate(e, q, f) = executeExpr(Evaluate, e, q, f)
    BY DEF Evaluates
  <1>2. Evaluate(e, q, f) = EvalFunction(e, q, f)
    BY <1>1 DEF executeExpr
  <1>3. PICK load : load = LoadRange(e.args[1], q, f)
    OBVIOUS
  <1>4. e.name \in {"rate", "increase"}
    BY <1>2 DEF EvalFunction, Fails
  <1>5. Evaluate(e, q, f) =
            IF load.kind = "value"
            THEN Value(IF e.name = "rate" THEN Rate(load.result, e.args[1].duration)
                       ELSE Increase(load.result, e.args[1].duration), load.rest)
            ELSE load
    BY <1>2, <1>3 DEF EvalFunction, Then, Fails
  <1>6. load.kind = "value" /\ f # << >> /\ load.result = SeriesOf(Head(f))
    BY <1>3, <1>5 DEF LoadRange, Load, Needs, Value
  <1>. QED
    BY <1>4, <1>5, <1>6 DEF Value
-----------------------------------------------------------------------------
\* What matches a query goes on matching it.
LEMMA MatchingGrows ==
    ASSUME store \subseteq store', NEW request
    PROVE  Matching(store, request) \subseteq Matching(store', request)
  BY DEF Matching

\* What a query finds has one name.
LEMMA MatchingOneName ==
    ASSUME NEW request
    PROVE  OneName(Matching(store, request))
  BY DEF OneName, Matching

\* Each step keeps the order in which a selector's samples were found.
LEMMA ReadsStep ==
    ASSUME Evaluates, IInv, Queries, Reads, [Next]_vars
    PROVE  Reads'
  <1>. SUFFICES ASSUME NEW r \in Requests
                PROVE  /\ \A i \in DOMAIN founds'[r] : OneName(founds'[r][i])
                       /\ SelfDifference(query'[r].expr) => \A i \in DOMAIN founds'[r] :
                            /\ founds'[r][i] \subseteq Matching(store', LeftRequest(r)')
                            /\ \A j \in i .. Len(founds'[r]) : founds'[r][i] \subseteq founds'[r][j]
    BY DEF Reads, OneName
  <1>1. Effect(r) /\ store \subseteq store'
    BY Effects
  <1>2. founds[r] \in Seq(SUBSET Samples)
    BY DEF IInv, Shapes
  <1>3. CASE Stays(r)
    <2>1. LeftRequest(r)' = LeftRequest(r)
      BY <1>3 DEF Stays, LeftRequest
    <2>2. Matching(store, LeftRequest(r)) \subseteq Matching(store', LeftRequest(r))
      BY <1>1, MatchingGrows
    <2>. QED
      BY <1>3, <2>1, <2>2 DEF Stays, Reads
  <1>4. CASE Begins(r)
    <2>1. founds'[r] = << >>
      BY <1>4 DEF Begins, Queries
    <2>. QED
      BY <2>1
  <1>5. CASE ReadsMore(r)
    <2>1. PICK found : found = Matching(store, Outcome(r).request)
      OBVIOUS
    <2>2. founds'[r] = Append(founds[r], found) /\ query'[r] = query[r] /\ store' = store
      BY <1>5, <2>1 DEF ReadsMore
    <2>3. OneName(found)
      BY <2>1, MatchingOneName
    <2>4. DOMAIN founds'[r] = 1 .. Len(founds[r]) + 1 /\ Len(founds'[r]) = Len(founds[r]) + 1
      BY <1>2, <2>2
    <2>5. /\ \A i \in 1 .. Len(founds[r]) : founds'[r][i] = founds[r][i]
          /\ founds'[r][Len(founds[r]) + 1] = found
      BY <1>2, <2>2
    <2>6. \A i \in DOMAIN founds'[r] : OneName(founds'[r][i])
      BY <1>2, <2>3, <2>4, <2>5 DEF Reads
    <2>7. ASSUME SelfDifference(query[r].expr)
          PROVE  \A i \in DOMAIN founds'[r] :
                    /\ founds'[r][i] \subseteq Matching(store, LeftRequest(r))
                    /\ \A j \in i .. Len(founds'[r]) : founds'[r][i] \subseteq founds'[r][j]
      <3>1. Outcome(r).request = LeftRequest(r)
        BY <1>2, <1>5, <2>7, DifferenceOutcome DEF ReadsMore, Outcome, LeftRequest
      <3>2. found = Matching(store, LeftRequest(r))
        BY <2>1, <3>1
      <3>3. \A i \in 1 .. Len(founds[r]) :
                /\ founds[r][i] \subseteq found
                /\ \A j \in i .. Len(founds[r]) : founds[r][i] \subseteq founds[r][j]
        BY <1>2, <2>7, <3>2 DEF Reads
      <3>4. PICK n \in Nat : n = Len(founds[r])
        BY <1>2
      <3>5. ASSUME NEW i \in 1 .. n + 1
            PROVE  /\ founds'[r][i] \subseteq found
                   /\ \A j \in i .. n + 1 : founds'[r][i] \subseteq founds'[r][j]
        <4>1. CASE i = n + 1
          BY <2>5, <3>4, <4>1
        <4>2. CASE i \in 1 .. n
          <5>1. founds'[r][i] = founds[r][i] /\ founds[r][i] \subseteq found
            BY <2>5, <3>3, <3>4, <4>2
          <5>2. ASSUME NEW j \in i .. n PROVE founds'[r][i] \subseteq founds'[r][j]
            BY <2>5, <3>3, <3>4, <4>2, <5>2
          <5>. QED
            BY <2>5, <3>4, <5>1, <5>2
        <4>. QED
          BY <4>1, <4>2
      <3>. QED
        BY <2>4, <3>2, <3>4, <3>5
    <2>8. LeftRequest(r)' = LeftRequest(r)
      BY <2>2 DEF LeftRequest
    <2>. QED
      BY <2>2, <2>6, <2>7, <2>8
  <1>6. CASE Charting(r)
    <2>1. PICK found : OneName(found) /\ founds'[r] = <<found>>
      BY <1>6, MatchingOneName DEF Charting
    <2>2. query'[r] = NoQuery
      BY <1>6 DEF Charting, Queries
    <2>3. ~ SelfDifference(query'[r].expr)
      BY <2>2 DEF SelfDifference, NoQuery
    <2>. QED
      BY <2>1, <2>3
  <1>. QED
    BY <1>1, <1>3, <1>4, <1>5, <1>6 DEF Effect

\* Each step keeps what the answers were computed from.
LEMMA EvaluatedStep ==
    ASSUME IInv, Queries, Evaluated, [Next]_vars
    PROVE  Evaluated'
  <1>. SUFFICES ASSUME NEW r \in Requests, Answered(r, ExecutorKinds)'
                PROVE  /\ Outcome(r)'.kind = "value"
                       /\ response'[r].data = Converted(r, Outcome(r).result)'
    BY DEF Evaluated
  <1>1. Effect(r) /\ workload' = workload
    BY Effects
  <1>2. workload[r].kind \in ExecutorKinds /\ response'[r].code = 200
    BY <1>1 DEF Answered
  <1>3. response[r].code = 200 => pc[r] = "done"
    BY DEF IInv, Ended
  <1>4. CASE Stays(r) /\ Answers200(r)
    <2>1. PICK outcome : outcome = Outcome(r) /\ Outcome(r)' = outcome
      BY <1>4 DEF Stays, Outcome
    <2>2. Converted(r, outcome.result)' = Converted(r, outcome.result)
      BY <1>1 DEF Converted
    <2>3. Converted(r, Outcome(r).result)' = Converted(r, outcome.result)
      BY <2>1, <2>2 DEF Converted
    <2>4. CASE response'[r] = response[r]
      <3>1. Answered(r, ExecutorKinds)
        BY <1>2, <2>4 DEF Answered
      <3>. QED
        BY <2>1, <2>3, <2>4, <3>1 DEF Evaluated
    <2>5. CASE outcome.kind = "value" /\ response'[r] = Answer(Converted(r, outcome.result))
      BY <2>1, <2>3, <2>5 DEF Answer
    <2>. QED
      BY <1>2, <1>4, <2>1, <2>4, <2>5 DEF Answers200
  <1>5. CASE Begins(r) \/ ReadsMore(r)
    BY <1>2, <1>3, <1>5 DEF Begins, ReadsMore
  <1>6. CASE Charting(r)
    BY <1>2, <1>6 DEF Charting, ExecutorKinds
  <1>. QED
    BY <1>1, <1>4, <1>5, <1>6 DEF Effect

\* Nothing is answered at first, and each step keeps AInv.
LEMMA AnswersKept ==
    ASSUME Evaluates
    PROVE  /\ Init => AInv
           /\ IInv /\ AInv /\ [Next]_vars => AInv'
  <1>1. Init => AInv
    <2>. SUFFICES ASSUME Init PROVE AInv
      OBVIOUS
    <2>1. Queries
      BY DEF Init, Queries
    <2>2. Reads
      BY DEF Init, Reads
    <2>3. Evaluated
      BY DEF Init, Evaluated, Answered, NoResponse
    <2>. QED
      BY <2>1, <2>2, <2>3 DEF AInv
  <1>2. IInv /\ AInv /\ [Next]_vars => AInv'
    <2>. SUFFICES ASSUME IInv, AInv, [Next]_vars PROVE AInv'
      OBVIOUS
    <2>1. Queries'
      <3>1. query' = [r \in Requests |-> query'[r]] /\ \A r \in Requests : Effect(r)
        BY Effects DEF AInv
      <3>. QED
        BY <3>1 DEF Effect, Stays, Begins, ReadsMore, Charting, Queries, AInv
    <2>. QED
      BY <2>1, ReadsStep, EvaluatedStep DEF AInv
  <1>. QED
    BY <1>1, <1>2
-----------------------------------------------------------------------------
(***************************************************************************)
(* Series.                                                                 *)
(***************************************************************************)
SameKey(m, n) == seriesKey(m.labels) = seriesKey(n.labels)

\* No two samples of a series have one time.
OneEach(found) == \A m, n \in found : SameKey(m, n) /\ m.time = n.time => m = n

\* A series holds the samples of its key, one point each.
Holds(s, found) ==
    /\ \E m \in found : s.labels = m.labels
    /\ s.points = [t \in DOMAIN s.points |-> s.points[t]]
    /\ \A m \in found : SameKey(m, s) => m.time \in DOMAIN s.points /\ s.points[m.time] = m.value
    /\ \A t \in DOMAIN s.points : \E m \in found : SameKey(m, s) /\ m.time = t

\* One series for each key.
LEMMA SeriesFacts ==
    ASSUME NEW found, OneEach(found)
    PROVE  /\ \A s \in SeriesOf(found) : Holds(s, found)
           /\ \A m \in found : \E s \in SeriesOf(found) : SameKey(m, s)
           /\ \A s, t \in SeriesOf(found) : SameKey(s, t) => s = t
  <1>. DEFINE of(key) == {m \in found : seriesKey(m.labels) = key}
              any(ms) == CHOOSE m \in ms : TRUE
              points(ms) == [t \in {m.time : m \in ms} |-> any({m \in ms : m.time = t}).value]
              S(key) == Series(any(of(key)).labels, points(of(key)))
              keys == {seriesKey(m.labels) : m \in found}
  <1>1. SeriesOf(found) = {S(key) : key \in keys}
    BY DEF SeriesOf
  <1>2. \A ms : ms # {} => any(ms) \in ms
    OBVIOUS
  <1>3. ASSUME NEW key \in keys PROVE Holds(S(key), found) /\ seriesKey(S(key).labels) = key
    <2>1. PICK first : first = any(of(key)) /\ first \in of(key)
      BY <1>3, <1>2
    <2>2. PICK p : p = points(of(key))
      OBVIOUS
    <2>3. S(key).labels = first.labels /\ S(key).points = p
      BY <2>1, <2>2 DEF Series
    <2>4. DOMAIN p = {m.time : m \in of(key)} /\ p = [t \in DOMAIN p |-> p[t]]
      BY <2>2
    <2>5. ASSUME NEW m \in of(key) PROVE p[m.time] = m.value
      <3>1. p[m.time] = any({n \in of(key) : n.time = m.time}).value
        BY <2>2, <2>5
      <3>2. \A n \in {n \in of(key) : n.time = m.time} : n = m
        BY <2>5 DEF OneEach, SameKey
      <3>3. any({n \in of(key) : n.time = m.time}) \in {n \in of(key) : n.time = m.time}
        BY <1>2, <2>5
      <3>. QED
        BY <3>1, <3>2, <3>3
    <2>6. seriesKey(first.labels) = key
      BY <2>1
    <2>. HIDE DEF S
    <2>. QED
      BY <2>1, <2>3, <2>4, <2>5, <2>6 DEF Holds, SameKey
  <1>. HIDE DEF S
  <1>4. \A m \in found : seriesKey(m.labels) \in keys
    OBVIOUS
  <1>. HIDE DEF keys
  <1>. QED
    BY <1>1, <1>3, <1>4 DEF SameKey

\* Finitely many samples make finitely many series.
LEMMA SeriesFinite ==
    ASSUME NEW found, IsFiniteSet(found)
    PROVE  IsFiniteSet(SeriesOf(found)) /\ IsFiniteSet({m.time : m \in found})
  <1>. DEFINE of(key) == {m \in found : seriesKey(m.labels) = key}
              any(ms) == CHOOSE m \in ms : TRUE
              points(ms) == [t \in {m.time : m \in ms} |-> any({m \in ms : m.time = t}).value]
              S(key) == Series(any(of(key)).labels, points(of(key)))
              h == [m \in found |-> S(seriesKey(m.labels))]
              times == [m \in found |-> m.time]
  <1>1. SeriesOf(found) = {S(key) : key \in {seriesKey(m.labels) : m \in found}}
    BY DEF SeriesOf
  <1>. HIDE DEF S
  <1>2. SeriesOf(found) = {h[m] : m \in found}
    BY <1>1
  <1>3. {m.time : m \in found} = {times[m] : m \in found}
    OBVIOUS
  <1>4. IsFiniteSet({h[m] : m \in found}) /\ IsFiniteSet({times[m] : m \in found})
    <2>. HIDE DEF h, times
    <2>. QED
      BY FiniteImage
  <1>. HIDE DEF h, times
  <1>. QED
    BY <1>2, <1>3, <1>4

\* Of one name, the samples of the store make series as they should.
OneSampleEach ==
    \A m, n \in Samples : m.name = n.name /\ SameKey(m, n) /\ m.time = n.time => m = n

\* What one query found is such samples.
LEMMA FoundOneEach ==
    ASSUME OneSampleEach, NEW found \in SUBSET Samples, OneName(found)
    PROVE  OneEach(found)
  BY DEF OneSampleEach, OneEach, OneName

\* The integers' division of zero.
LEMMA ZeroOver ==
    ASSUME NEW d \in Int, d # 0
    PROVE  Fraction(0, d) = Zero
  <1>. DEFINE D == {k \in 1 .. Abs(d) : (0 * k) % Abs(d) = 0}
  <1>1. Abs(d) \in Nat \ {0}
    BY DEF Abs
  <1>2. \A k \in Int : 0 * k = 0 /\ 0 % Abs(d) = 0 /\ 0 \div Abs(d) = 0
    BY <1>1
  <1>3. D = 1 .. Abs(d)
    BY <1>1, <1>2
  <1>4. Min(D) = 1
    <2>1. 1 \in D /\ \A k \in D : k \in Int /\ 1 <= k
      BY <1>1, <1>3
    <2>2. \A k \in D : (\A l \in D : k <= l) => k = 1
      BY <2>1
    <2>. QED
      BY <2>1, <2>2 DEF Min
  <1>5. Fraction(0, d) = <<Sign(d) * ((0 * 1) \div Abs(d)), 1>>
    BY <1>4 DEF Fraction
  <1>6. Sign(d) \in Int
    BY DEF Sign
  <1>. QED
    BY <1>2, <1>5, <1>6 DEF Zero, Number
-----------------------------------------------------------------------------
(***************************************************************************)
(* m - m.                                                                  *)
(***************************************************************************)
\* A finite value less itself is zero.
LEMMA MinusItself ==
    ASSUME NEW v \in Int \X (Nat \ {0})
    PROVE  Minus(v, v) = Zero
  <1>1. PICK n \in Int, d \in Nat \ {0} : v = <<n, d>>
    OBVIOUS
  <1>2. n * d + (-n) * d = 0 /\ d * d \in Int /\ d * d # 0
    BY <1>1
  <1>3. Minus(v, v) = Fraction(n * d + (-n) * d, d * d)
    BY <1>1 DEF Minus, Plus, Negative
  <1>. QED
    BY <1>2, <1>3, ZeroOver

\* A finite set of one element is the set of its only member.
LEMMA OnlyMember ==
    ASSUME NEW S, IsFiniteSet(S), Cardinality(S) = 1
    PROVE  \E x : S = {x}
  BY FS_Singleton, Zenon

\* Points at one time are points of one sample, in two searches of which the first
\* found no more than the second.
LEMMA DifferenceOfSeries ==
    ASSUME NEW f \in SUBSET Samples, NEW g \in SUBSET Samples, f \subseteq g, OneEach(g),
           CanApply(SeriesOf(f), SeriesOf(g)),
           NEW s \in applyBinaryOp(SeriesOf(f), SeriesOf(g), "Minus")
    PROVE  /\ IsFiniteSet(DOMAIN s.points) /\ DOMAIN s.points \subseteq Int
           /\ s.points = [t \in DOMAIN s.points |-> s.points[t]]
           /\ \A t \in DOMAIN s.points : s.points[t] = Zero
  <1>1. OneEach(f)
    BY DEF OneEach
  <1>a. PICK left : SeriesOf(f) = {left}
    <2>1. IsFiniteSet(SeriesOf(f))
      BY SamplesFiniteSet, SeriesFinite
    <2>2. Cardinality(SeriesOf(f)) = 1
      BY DEF CanApply
    <2>. QED
      BY <2>1, <2>2, OnlyMember, Zenon
  <1>b. PICK right : SeriesOf(g) = {right}
    <2>1. IsFiniteSet(SeriesOf(g))
      BY SamplesFiniteSet, SeriesFinite
    <2>2. Cardinality(SeriesOf(g)) = 1
      BY DEF CanApply
    <2>. QED
      BY <2>1, <2>2, OnlyMember, Zenon
  <1>2. SeriesOf(f) = {left} /\ SeriesOf(g) = {right}
    BY <1>a, <1>b
  <1>3. TheSeries({left}) = left /\ TheSeries({right}) = right
    BY DEF TheSeries
  <1>4. PICK p : p = [t \in DOMAIN left.points \cap DOMAIN right.points |->
                        applyOp(left.points[t], right.points[t], "Minus")]
    OBVIOUS
  <1>5. s = Series(left.labels, p)
    BY <1>2, <1>3, <1>4 DEF applyBinaryOp
  <1>6. Holds(left, f) /\ Holds(right, g)
    BY <1>1, <1>2, SeriesFacts
  <1>7. \A m \in g : SameKey(m, right)
    BY <1>2, SeriesFacts
  <1>8. ASSUME NEW t \in DOMAIN p PROVE p[t] = Zero
    <2>1. t \in DOMAIN left.points /\ t \in DOMAIN right.points
      BY <1>4, <1>8
    <2>2. PICK m \in f : SameKey(m, left) /\ m.time = t
      BY <1>6, <2>1 DEF Holds
    <2>3. left.points[t] = m.value
      BY <1>6, <2>2 DEF Holds
    <2>4. right.points[t] = m.value
      BY <1>6, <1>7, <2>2 DEF Holds
    <2>5. m.value \in Int \X (Nat \ {0})
      BY SampleConstants DEF Samples
    <2>6. p[t] = Minus(m.value, m.value)
      BY <1>4, <1>8, <2>3, <2>4 DEF applyOp
    <2>. QED
      BY <2>5, <2>6, MinusItself
  <1>9. p = [t \in DOMAIN p |-> p[t]]
    BY <1>4
  <1>10. DOMAIN p \subseteq {m.time : m \in f}
    BY <1>4, <1>6 DEF Holds
  <1>11. IsFiniteSet({m.time : m \in f}) /\ {m.time : m \in f} \subseteq Int
    <2>1. IsFiniteSet(f)
      BY SamplesFiniteSet
    <2>2. IsFiniteSet({m.time : m \in f})
      BY <2>1, SeriesFinite
    <2>. QED
      BY <2>2, SampleConstants DEF Samples
  <1>12. IsFiniteSet(DOMAIN p)
    BY <1>10, <1>11, FS_Subset
  <1>. QED
    BY <1>5, <1>8, <1>9, <1>10, <1>11, <1>12 DEF Series

\* The last point of a series is one of its points.
LEMMA LastPointKept ==
    ASSUME NEW s, IsFiniteSet(DOMAIN s.points), DOMAIN s.points \subseteq Int,
           s.points = [t \in DOMAIN s.points |-> s.points[t]],
           \A t \in DOMAIN s.points : s.points[t] = Zero
    PROVE  \A t \in DOMAIN LastPoint(s).points : LastPoint(s).points[t] = Zero
  <1>1. CASE s.points = << >>
    BY <1>1 DEF LastPoint
  <1>2. CASE s.points # << >>
    <2>1. DOMAIN s.points # {}
      BY <1>2
    <2>2. PICK last : last = Max(DOMAIN s.points) /\ last \in DOMAIN s.points
      BY <2>1, LeastAndGreatest
    <2>3. LastPoint(s).points = [t \in {last} |-> s.points[t]]
      BY <1>2, <2>2 DEF LastPoint, Series
    <2>. QED
      BY <2>2, <2>3
  <1>. QED
    BY <1>1, <1>2

\* A selector less itself is zero everywhere, in every state: the samples that arrive
\* between its two searches, however late, are matched with nothing else.
THEOREM SelfDifferences ==
    ASSUME Evaluates, OneSampleEach
    PROVE  Spec => []SelfDifferenceIsZero
  <1>1. IInv /\ AInv => SelfDifferenceIsZero
    <2>. SUFFICES ASSUME IInv, AInv, NEW r \in Requests, Answered(r, ExecutorKinds),
                         query[r].expr.kind = "binary",
                         query[r].expr.op = "Minus", query[r].expr.left = query[r].expr.right,
                         query[r].expr.left.kind = "vector",
                         NEW s \in response[r].data, NEW t \in DOMAIN s.points
                  PROVE  s.points[t] = Zero
      BY DEF SelfDifferenceIsZero
    <2>1. PICK e, f : e = query[r].expr /\ f = founds[r]
      OBVIOUS
    <2>2. SelfDifference(e) /\ e.op = "Minus"
      BY <2>1 DEF SelfDifference
    <2>3. f \in Seq(SUBSET Samples)
      BY <2>1 DEF IInv, Shapes
    <2>4. PICK outcome : outcome = Evaluate(e, query[r], f) /\ outcome = Outcome(r)
      BY <2>1 DEF Outcome
    <2>5. outcome.kind = "value" /\ response[r].data = Converted(r, outcome.result)
      BY <2>4 DEF AInv, Evaluated
    <2>6. /\ Len(f) >= 2
          /\ CanApply(SeriesOf(f[1]), SeriesOf(f[2]))
          /\ outcome.result = applyBinaryOp(SeriesOf(f[1]), SeriesOf(f[2]), e.op)
      <3>1. outcome = Evaluate(e, query[r], f) /\ outcome.kind = "value"
        BY <2>4, <2>5
      <3>. QED
        BY <2>2, <2>3, <3>1, DifferenceOutcome
    <2>7. f[1] \in SUBSET Samples /\ f[2] \in SUBSET Samples
      BY <2>3, <2>6
    <2>8. f[1] \subseteq f[2] /\ OneName(f[2])
      <3>1. 1 \in DOMAIN f /\ 2 \in DOMAIN f /\ 2 \in 1 .. Len(f)
        BY <2>3, <2>6
      <3>. QED
        BY <2>1, <2>2, <3>1 DEF AInv, Reads
    <2>9. OneEach(f[2])
      BY <2>7, <2>8, FoundOneEach
    <2>10. ASSUME NEW u \in outcome.result
           PROVE  /\ IsFiniteSet(DOMAIN u.points) /\ DOMAIN u.points \subseteq Int
                  /\ u.points = [x \in DOMAIN u.points |-> u.points[x]]
                  /\ \A x \in DOMAIN u.points : u.points[x] = Zero
      BY <2>2, <2>6, <2>7, <2>8, <2>9, DifferenceOfSeries
    <2>11. CASE s \in outcome.result
      BY <2>10, <2>11
    <2>12. CASE \E u \in outcome.result : s = LastPoint(u)
      <3>1. PICK u \in outcome.result : s = LastPoint(u)
        BY <2>12
      <3>2. \A x \in DOMAIN LastPoint(u).points : LastPoint(u).points[x] = Zero
        BY <2>10, LastPointKept
      <3>. QED
        BY <3>1, <3>2
    <2>. QED
      BY <2>5, <2>11, <2>12 DEF Converted
  <1>. QED
    BY <1>1, InvariantHolds, InvariantIsKept, AnswersKept, PTL DEF Spec
-----------------------------------------------------------------------------
(***************************************************************************)
(* Keys.  A key can be read back, as long as no value holds a comma.       *)
(***************************************************************************)
LEMMA EmptySequence == ASSUME NEW T, NEW s \in Seq(T), Len(s) = 0 PROVE s = << >>
  OBVIOUS

\* FlattenSeq joins the sequences one after the other.
LEMMA Flattened ==
    ASSUME NEW S, NEW seqs \in Seq(Seq(S))
    PROVE  \E flat \in [0 .. Len(seqs) -> Seq(S)] :
              /\ flat[0] = << >>
              /\ \A i \in 1 .. Len(seqs) : flat[i] = flat[i - 1] \o seqs[i]
              /\ FlattenSeq(seqs) = flat[Len(seqs)]
  <1>1. PICK n \in Nat : n = Len(seqs)
    OBVIOUS
  <1>2. CASE n = 0
    <2>1. PICK flat : flat = [i \in 0 .. 0 |-> << >>]
      OBVIOUS
    <2>2. seqs = << >>
      BY <1>1, <1>2, EmptySequence
    <2>7. FlattenSeq(seqs) = seqs
      BY <1>1, <1>2 DEF FlattenSeq
    <2>3. flat \in [0 .. n -> Seq(S)] /\ flat[0] = << >>
      BY <1>2, <2>1
    <2>4. Len(seqs) = 0
      BY <1>1, <1>2
    <2>5. \A i \in 1 .. Len(seqs) : FALSE
      BY <2>4
    <2>6. FlattenSeq(seqs) = flat[Len(seqs)]
      BY <2>2, <2>3, <2>4, <2>7
    <2>. QED
      BY <1>1, <2>3, <2>5, <2>6
  <1>3. CASE n # 0
    <2>. DEFINE Joins(g) == g = [i \in 1 .. n |-> IF i = 1 THEN seqs[i] ELSE g[i - 1] \o seqs[i]]
                step == [x \in (1 .. n) \X Seq(S) |-> x[2] \o seqs[x[1]]]
    <2>1. \A i \in 1 .. n : seqs[i] \in Seq(S)
      BY <1>1
    <2>2. step \in [(1 .. n) \X Seq(S) -> Seq(S)]
      BY <2>1
    <2>3. ASSUME NEW i \in 1 .. n, NEW c \in Seq(S) PROVE step[<<i, c>>] = c \o seqs[i]
      <3>1. PICK x : x = <<i, c>>
        OBVIOUS
      <3>2. x \in (1 .. n) \X Seq(S) /\ x[1] = i /\ x[2] = c
        BY <3>1
      <3>3. step[x] = x[2] \o seqs[x[1]]
        BY <3>2
      <3>. QED
        BY <3>1, <3>2, <3>3
    <2>4. seqs[1] \in Seq(S)
      BY <1>3, <2>1
    <2>. HIDE DEF step
    <2>5. PICK g \in [1 .. n -> Seq(S)] :
              \A i \in 1 .. n : g[i] = IF i = 1 THEN seqs[1] ELSE step[<<i, g[i - 1]>>]
      <3>1. \E g \in [1 .. n -> Seq(S)] : Recurs(g, n, seqs[1], step)
        BY <2>2, <2>4, PositionsRecursion
      <3>. QED
        BY <3>1 DEF Recurs
    <2>6. \A i \in 1 .. n : i # 1 => g[i - 1] \in Seq(S)
      OBVIOUS
    <2>7. \A i \in 1 .. n : g[i] = IF i = 1 THEN seqs[i] ELSE g[i - 1] \o seqs[i]
      BY <2>3, <2>5, <2>6
    <2>8. Joins(g)
      <3>1. g = [i \in 1 .. n |-> g[i]]
        OBVIOUS
      <3>. QED
        BY <2>7, <3>1
    <2>9. PICK f : f = CHOOSE it : Joins(it)
      OBVIOUS
    <2>10. Joins(f)
      BY <2>8, <2>9
    <2>11. FlattenSeq(seqs) = f[n]
      <3>1. Len(seqs) # 0
        BY <1>1, <1>3
      <3>. QED
        BY <1>1, <2>9, <3>1 DEF FlattenSeq
    <2>12. \A i \in 1 .. n : f[i] = IF i = 1 THEN seqs[i] ELSE f[i - 1] \o seqs[i]
      BY <2>10
    <2>13. \A i \in 1 .. n : f[i] \in Seq(S)
      <3>. DEFINE T == {i \in Nat : i \in 1 .. n => f[i] \in Seq(S)}
      <3>1. 0 \in T
        OBVIOUS
      <3>2. ASSUME NEW i \in Nat, i \in T PROVE i + 1 \in T
        <4>. SUFFICES ASSUME i + 1 \in 1 .. n PROVE f[i + 1] \in Seq(S)
          OBVIOUS
        <4>1. f[i + 1] = IF i + 1 = 1 THEN seqs[i + 1] ELSE f[i] \o seqs[i + 1]
          BY <2>12
        <4>2. i # 0 => f[i] \in Seq(S)
          BY <3>2
        <4>. QED
          BY <2>1, <4>1, <4>2
      <3>3. Nat \subseteq T
        <4>. HIDE DEF T
        <4>. QED
          BY <3>1, <3>2, SetInduction
      <3>. QED
        BY <3>3
    <2>. DEFINE flat == [i \in 0 .. n |-> IF i = 0 THEN << >> ELSE f[i]]
    <2>14. flat \in [0 .. n -> Seq(S)] /\ flat[0] = << >> /\ flat[n] = f[n]
      BY <1>3, <2>13
    <2>15. \A i \in 1 .. n : flat[i] = flat[i - 1] \o seqs[i]
      <3>. SUFFICES ASSUME NEW i \in 1 .. n PROVE flat[i] = flat[i - 1] \o seqs[i]
        OBVIOUS
      <3>1. flat[i] = f[i] /\ (i # 1 => flat[i - 1] = f[i - 1]) /\ (i = 1 => flat[i - 1] = << >>)
        OBVIOUS
      <3>2. << >> \o seqs[i] = seqs[i]
        BY <2>1
      <3>. HIDE DEF flat
      <3>. QED
        BY <2>12, <3>1, <3>2
    <2>. HIDE DEF flat
    <2>. QED
      BY <1>1, <2>11, <2>14, <2>15
  <1>. QED
    BY <1>2, <1>3

\* The text between two commas, from p to q, that names k and gives it v.
EntryAt(s, p, q, k, v) ==
    /\ p = 1 \/ s[p - 1] = Comma
    /\ p + 2 <= q /\ s[p] = k /\ s[q] = Comma
    /\ \A j \in p .. q - 1 : s[j] # Comma
    /\ v = [j \in 1 .. q - p - 2 |-> s[p + 1 + j]]

Entry(s, k, v) == \E p \in 1 .. Len(s), q \in 1 .. Len(s) : EntryAt(s, p, q, k, v)

\* The text is over: nothing is open.
Closed(s) == Len(s) = 0 \/ s[Len(s)] = Comma

\* k=v,
Pair(k, v) == <<k, "=">> \o v \o <<Comma>>

NoComma(v) == \A i \in 1 .. Len(v) : v[i] # Comma

\* The comma is not the equals sign.
LEMMA CommaIsOther == Comma # "="
  BY Zenon DEF Comma

\* z is s, then t.
Follows(z, s, t) ==
    /\ Len(z) = Len(s) + Len(t)
    /\ \A i \in 1 .. Len(s) : z[i] = s[i]
    /\ \A i \in 1 .. Len(t) : z[Len(s) + i] = t[i]

\* A concatenation is one sequence, followed by the other.
LEMMA Concatenated ==
    ASSUME NEW S, NEW s \in Seq(S), NEW t \in Seq(S)
    PROVE  s \o t \in Seq(S) /\ Follows(s \o t, s, t)
  BY DEF Follows

\* A pair, place by place.
LEMMA PairPlaces ==
    ASSUME NEW S, Comma \in S, "=" \in S, NEW s \in Seq(S), NEW k \in S, NEW v \in Seq(S)
    PROVE  /\ s \o Pair(k, v) \in Seq(S)
           /\ Len(s \o Pair(k, v)) = Len(s) + Len(v) + 3
           /\ \A i \in 1 .. Len(s) : (s \o Pair(k, v))[i] = s[i]
           /\ (s \o Pair(k, v))[Len(s) + 1] = k
           /\ (s \o Pair(k, v))[Len(s) + 2] = "="
           /\ \A i \in 1 .. Len(v) : (s \o Pair(k, v))[Len(s) + 2 + i] = v[i]
           /\ (s \o Pair(k, v))[Len(s) + Len(v) + 3] = Comma
  <1>1. PICK h : h = <<k, "=">>
    OBVIOUS
  <1>2. h \in Seq(S) /\ Len(h) = 2 /\ h[1] = k /\ h[2] = "="
    BY <1>1
  <1>3. PICK hv : hv = h \o v
    OBVIOUS
  <1>4. /\ hv \in Seq(S) /\ Len(hv) = 2 + Len(v)
        /\ hv[1] = k /\ hv[2] = "="
        /\ \A i \in 1 .. Len(v) : hv[2 + i] = v[i]
    <2>1. /\ hv \in Seq(S) /\ Len(hv) = Len(h) + Len(v)
          /\ \A i \in 1 .. Len(h) : hv[i] = h[i]
          /\ \A i \in 1 .. Len(v) : hv[Len(h) + i] = v[i]
      <3>1. hv \in Seq(S) /\ Follows(hv, h, v)
        BY <1>2, <1>3, Concatenated
      <3>. QED
        BY <3>1 DEF Follows
    <2>2. 1 \in 1 .. Len(h) /\ 2 \in 1 .. Len(h)
      BY <1>2
    <2>. QED
      BY <1>2, <2>1, <2>2
  <1>5. PICK c : c = <<Comma>>
    OBVIOUS
  <1>6. c \in Seq(S) /\ Len(c) = 1 /\ c[1] = Comma
    BY <1>5
  <1>7. PICK b : b = hv \o c
    OBVIOUS
  <1>8. /\ b \in Seq(S) /\ Len(b) = 3 + Len(v)
        /\ b[1] = k /\ b[2] = "="
        /\ \A i \in 1 .. Len(v) : b[2 + i] = v[i]
        /\ b[Len(v) + 3] = Comma
    <2>1. /\ b \in Seq(S) /\ Len(b) = Len(hv) + Len(c)
          /\ \A i \in 1 .. Len(hv) : b[i] = hv[i]
          /\ \A i \in 1 .. Len(c) : b[Len(hv) + i] = c[i]
      <3>1. b \in Seq(S) /\ Follows(b, hv, c)
        BY <1>4, <1>6, <1>7, Concatenated
      <3>. QED
        BY <3>1 DEF Follows
    <2>2. /\ 1 \in 1 .. Len(hv) /\ 2 \in 1 .. Len(hv)
          /\ \A i \in 1 .. Len(v) : 2 + i \in 1 .. Len(hv)
      BY <1>4
    <2>3. 1 \in 1 .. Len(c) /\ Len(hv) + 1 = Len(v) + 3 /\ Len(hv) + Len(c) = 3 + Len(v)
      BY <1>4, <1>6
    <2>4. b[Len(v) + 3] = c[1]
      BY <2>1, <2>3
    <2>5. b[1] = hv[1] /\ b[2] = hv[2] /\ \A i \in 1 .. Len(v) : b[2 + i] = hv[2 + i]
      BY <2>1, <2>2
    <2>. QED
      BY <1>4, <1>6, <2>1, <2>3, <2>4, <2>5
  <1>9. Pair(k, v) = b
    BY <1>1, <1>3, <1>5, <1>7 DEF Pair
  <1>10. /\ s \o b \in Seq(S) /\ Len(s \o b) = Len(s) + Len(b)
         /\ \A i \in 1 .. Len(s) : (s \o b)[i] = s[i]
         /\ \A i \in 1 .. Len(b) : (s \o b)[Len(s) + i] = b[i]
    <2>1. s \o b \in Seq(S) /\ Follows(s \o b, s, b)
      BY <1>8, Concatenated
    <2>. QED
      BY <2>1 DEF Follows
  <1>11. \A i \in 1 .. Len(v) : (s \o b)[Len(s) + 2 + i] = v[i]
    <2>1. \A i \in 1 .. Len(v) : 2 + i \in 1 .. Len(b) /\ Len(s) + (2 + i) = Len(s) + 2 + i
      BY <1>8
    <2>. QED
      BY <1>8, <1>10, <2>1
  <1>12. 1 \in 1 .. Len(b) /\ 2 \in 1 .. Len(b) /\ Len(v) + 3 \in 1 .. Len(b)
         /\ Len(s) + (Len(v) + 3) = Len(s) + Len(v) + 3
    BY <1>8
  <1>. QED
    BY <1>8, <1>9, <1>10, <1>11, <1>12

\* A pair adds one entry to a text, and changes no other.
LEMMA EntryAppend ==
    ASSUME NEW S, Comma \in S, "=" \in S, NEW s \in Seq(S), Closed(s), NEW k \in S, k # Comma,
           NEW v \in Seq(S), NoComma(v)
    PROVE  /\ Closed(s \o Pair(k, v))
           /\ \A l, w : Entry(s \o Pair(k, v), l, w) <=> Entry(s, l, w) \/ (l = k /\ w = v)
  <1>1. PICK z : z = s \o Pair(k, v)
    OBVIOUS
  <1>2. PICK n \in Nat, m \in Nat : n = Len(s) /\ m = Len(v)
    OBVIOUS
  <1>3. /\ z \in Seq(S) /\ Len(z) = n + m + 3
        /\ \A i \in 1 .. n : z[i] = s[i]
        /\ z[n + 1] = k /\ z[n + 2] = "="
        /\ \A i \in 1 .. m : z[n + 2 + i] = v[i]
        /\ z[n + m + 3] = Comma
    <2>1. /\ z \in Seq(S) /\ Len(z) = Len(s) + Len(v) + 3
          /\ \A i \in 1 .. Len(s) : z[i] = s[i]
          /\ z[Len(s) + 1] = k /\ z[Len(s) + 2] = "="
          /\ \A i \in 1 .. Len(v) : z[Len(s) + 2 + i] = v[i]
          /\ z[Len(s) + Len(v) + 3] = Comma
      BY <1>1, PairPlaces
    <2>. QED
      BY <1>2, <2>1
  <1>4. \A i \in 1 .. Len(z) : i > n /\ z[i] = Comma => i = n + m + 3
    <2>. SUFFICES ASSUME NEW i \in 1 .. Len(z), i > n, i # n + m + 3 PROVE z[i] # Comma
      OBVIOUS
    <2>1. CASE i = n + 1
      BY <1>3, <2>1
    <2>2. CASE i = n + 2
      BY <1>3, <2>2, CommaIsOther
    <2>3. CASE i > n + 2
      <3>1. i - n - 2 \in 1 .. m /\ n + 2 + (i - n - 2) = i
        BY <1>3, <2>3
      <3>2. z[i] = v[i - n - 2]
        BY <1>3, <3>1
      <3>. QED
        BY <1>2, <3>1, <3>2 DEF NoComma
    <2>. QED
      BY <2>1, <2>2, <2>3
  <1>5. n = 0 \/ z[n] = Comma
    BY <1>2, <1>3 DEF Closed
  <1>6. v = [j \in 1 .. m |-> z[n + 2 + j]]
    <2>1. v = [j \in 1 .. m |-> v[j]]
      BY <1>2
    <2>. QED
      BY <1>3, <2>1
  <1>7. ASSUME NEW l, NEW w, Entry(s, l, w) PROVE Entry(z, l, w)
    <2>1. PICK p \in 1 .. n, q \in 1 .. n : EntryAt(s, p, q, l, w)
      BY <1>2, <1>7 DEF Entry
    <2>2. EntryAt(z, p, q, l, w)
      <3>1. p = 1 \/ z[p - 1] = Comma
        BY <1>3, <2>1 DEF EntryAt
      <3>2. p + 2 <= q /\ z[p] = l /\ z[q] = Comma
        BY <1>3, <2>1 DEF EntryAt
      <3>3. \A j \in p .. q - 1 : z[j] # Comma
        BY <1>3, <2>1 DEF EntryAt
      <3>4. \A j \in 1 .. q - p - 2 : z[p + 1 + j] = s[p + 1 + j]
        BY <1>3
      <3>5. w = [j \in 1 .. q - p - 2 |-> s[p + 1 + j]]
        BY <2>1 DEF EntryAt
      <3>6. w = [j \in 1 .. q - p - 2 |-> z[p + 1 + j]]
        BY <3>4, <3>5
      <3>. QED
        BY <3>1, <3>2, <3>3, <3>6 DEF EntryAt
    <2>. QED
      BY <1>3, <2>2 DEF Entry
  <1>8. Entry(z, k, v)
    <2>1. EntryAt(z, n + 1, n + m + 3, k, v)
      <3>1. n + 1 = 1 \/ z[(n + 1) - 1] = Comma
        BY <1>5
      <3>2. \A j \in n + 1 .. (n + m + 3) - 1 : z[j] # Comma
        BY <1>3, <1>4
      <3>3. (n + m + 3) - (n + 1) - 2 = m /\ (n + 1) + 2 <= n + m + 3
        OBVIOUS
      <3>4. \A j \in 1 .. m : (n + 1) + 1 + j = n + 2 + j
        OBVIOUS
      <3>5. v = [j \in 1 .. (n + m + 3) - (n + 1) - 2 |-> z[(n + 1) + 1 + j]]
        BY <1>6, <3>3, <3>4
      <3>. QED
        BY <1>3, <3>1, <3>2, <3>3, <3>5 DEF EntryAt
    <2>. QED
      BY <1>3, <2>1 DEF Entry
  <1>9. ASSUME NEW l, NEW w, Entry(z, l, w) PROVE Entry(s, l, w) \/ (l = k /\ w = v)
    <2>1. PICK p \in 1 .. Len(z), q \in 1 .. Len(z) : EntryAt(z, p, q, l, w)
      BY <1>9 DEF Entry
    <2>2. CASE q <= n
      <3>1. p = 1 \/ s[p - 1] = Comma
        BY <1>3, <2>1, <2>2 DEF EntryAt
      <3>2. p + 2 <= q /\ s[p] = l /\ s[q] = Comma
        BY <1>3, <2>1, <2>2 DEF EntryAt
      <3>3. \A j \in p .. q - 1 : s[j] # Comma
        BY <1>3, <2>1, <2>2 DEF EntryAt
      <3>4. \A j \in 1 .. q - p - 2 : z[p + 1 + j] = s[p + 1 + j]
        BY <1>3, <2>2
      <3>5. w = [j \in 1 .. q - p - 2 |-> z[p + 1 + j]]
        BY <2>1 DEF EntryAt
      <3>6. w = [j \in 1 .. q - p - 2 |-> s[p + 1 + j]]
        BY <3>4, <3>5
      <3>7. EntryAt(s, p, q, l, w)
        BY <3>1, <3>2, <3>3, <3>6 DEF EntryAt
      <3>8. p \in 1 .. n /\ q \in 1 .. n
        BY <2>2, <3>2
      <3>. QED
        BY <1>2, <3>7, <3>8 DEF Entry
    <2>3. CASE q > n
      <3>1. q = n + m + 3
        BY <1>4, <2>1, <2>3 DEF EntryAt
      <3>2. \A j \in p .. q - 1 : z[j] # Comma
        BY <2>1 DEF EntryAt
      <3>3. p > n
        <4>. SUFFICES ASSUME p <= n PROVE FALSE
          OBVIOUS
        <4>1. n \in p .. q - 1 /\ z[n] = Comma
          BY <1>5, <3>1
        <4>. QED
          BY <3>2, <4>1
      <3>4. p + 2 <= q /\ z[p] = l /\ (p = 1 \/ z[p - 1] = Comma)
        BY <2>1 DEF EntryAt
      <3>5. p = n + 1
        <4>. SUFFICES ASSUME p # n + 1 PROVE FALSE
          OBVIOUS
        <4>1. p - 1 \in 1 .. Len(z) /\ p - 1 > n /\ z[p - 1] = Comma
          BY <3>3, <3>4
        <4>2. p - 1 = n + m + 3
          BY <1>4, <4>1
        <4>. QED
          BY <3>1, <3>4, <4>2
      <3>6. w = [j \in 1 .. q - p - 2 |-> z[p + 1 + j]]
        BY <2>1 DEF EntryAt
      <3>7. q - p - 2 = m /\ \A j \in 1 .. m : p + 1 + j = n + 2 + j
        BY <3>1, <3>5
      <3>8. w = v
        BY <1>6, <3>6, <3>7
      <3>. QED
        BY <1>3, <3>4, <3>5, <3>8
    <2>. QED
      BY <2>2, <2>3
  <1>10. Closed(z)
    BY <1>3 DEF Closed
  <1>. QED
    BY <1>1, <1>7, <1>8, <1>9, <1>10

\* The numbers up to the next one.
LEMMA OneMore ==
    ASSUME NEW i \in Nat
    PROVE  \A j : j \in 1 .. i + 1 <=> j \in 1 .. i \/ j = i + 1
  OBVIOUS

\* A key has an entry for each label it is made of, and no other.
LEMMA KeyEntries ==
    ASSUME NEW names, NEW D, NEW labels \in [D -> Seq(STRING)],
           \A k \in D : NoComma(labels[k])
    PROVE  \A k, v : Entry(Joined(labels, names), k, v)
                        <=> k \in Range(LabelNames) /\ k \in names /\ k \in D /\ v = labels[k]
  <1>. DEFINE blocks == [i \in DOMAIN LabelNames |->
                  IF LabelNames[i] \in names \cap DOMAIN labels
                  THEN Pair(LabelNames[i], labels[LabelNames[i]]) ELSE << >>]
  <1>1. PICK S : S = STRING \cup {Comma, "="}
    OBVIOUS
  <1>2. PICK n \in Nat : n = Len(LabelNames) /\ DOMAIN LabelNames = 1 .. n
    BY LabelConstants
  <1>3. \A i \in 1 .. n : LabelNames[i] \in S /\ LabelNames[i] # Comma
    <2>1. \A i \in 1 .. n : LabelNames[i] \in STRING /\ LabelNames[i] \in Range(LabelNames)
      BY <1>2, LabelConstants DEF Range
    <2>. QED
      BY <1>1, <2>1, LabelConstants
  <1>4. Comma \in S /\ "=" \in S
    BY <1>1
  <1>5. \A k \in D : labels[k] \in Seq(S) /\ NoComma(labels[k])
    BY <1>1
  <1>6. Joined(labels, names) = FlattenSeq(blocks)
    BY DEF Joined, Pair
  <1>7. ASSUME NEW i \in 1 .. n PROVE blocks[i] \in Seq(S)
    <2>1. CASE LabelNames[i] \in names \cap D
      <3>1. PICK k, v : k = LabelNames[i] /\ v = labels[LabelNames[i]]
        OBVIOUS
      <3>2. k \in S /\ v \in Seq(S)
        BY <1>3, <1>5, <2>1, <3>1
      <3>3. Pair(k, v) \in Seq(S)
        <4>1. <<k, "=">> \in Seq(S) /\ <<Comma>> \in Seq(S)
          BY <1>4, <3>2
        <4>2. <<k, "=">> \o v \in Seq(S)
          BY <3>2, <4>1, Concatenated
        <4>3. (<<k, "=">> \o v) \o <<Comma>> \in Seq(S)
          BY <4>1, <4>2, Concatenated
        <4>. QED
          BY <4>3 DEF Pair
      <3>. QED
        BY <1>2, <2>1, <3>1, <3>3
    <2>2. CASE LabelNames[i] \notin names \cap D
      BY <1>2, <2>2
    <2>. QED
      BY <2>1, <2>2
  <1>8. PICK b : b = blocks
    OBVIOUS
  <1>9. ASSUME NEW i \in 1 .. n
        PROVE  b[i] = IF LabelNames[i] \in names \cap D
                      THEN Pair(LabelNames[i], labels[LabelNames[i]]) ELSE << >>
    BY <1>2, <1>8
  <1>10. b \in Seq(Seq(S)) /\ Len(b) = n
    <2>1. b = [i \in 1 .. n |-> b[i]]
      BY <1>2, <1>8
    <2>2. \A i \in 1 .. n : b[i] \in Seq(S)
      BY <1>7, <1>8
    <2>. HIDE DEF blocks
    <2>. QED
      BY <2>1, <2>2
  <1>. HIDE DEF blocks
  <1>11. PICK flat \in [0 .. n -> Seq(S)] :
            /\ flat[0] = << >>
            /\ \A i \in 1 .. n : flat[i] = flat[i - 1] \o b[i]
            /\ FlattenSeq(b) = flat[n]
    BY <1>10, Flattened
  <1>. DEFINE Named(i, k) == \E j \in 1 .. i : LabelNames[j] = k
              Read(i) == Closed(flat[i]) /\ \A k, v :
                  Entry(flat[i], k, v) <=> Named(i, k) /\ k \in names /\ k \in D /\ v = labels[k]
              T == {i \in Nat : i <= n => Read(i)}
  <1>12. 0 \in T
    <2>1. Len(<< >>) = 0
      OBVIOUS
    <2>2. Len(flat[0]) = 0
      BY <1>11, <2>1, Zenon
    <2>3. \A k, v : ~ Entry(flat[0], k, v)
      BY <2>2 DEF Entry
    <2>4. \A k : ~ Named(0, k)
      OBVIOUS
    <2>5. Closed(flat[0])
      BY <2>2 DEF Closed
    <2>. HIDE DEF Named
    <2>. QED
      BY <2>3, <2>4, <2>5
  <1>13. ASSUME NEW i \in Nat, i \in T PROVE i + 1 \in T
    <2>. SUFFICES ASSUME i + 1 <= n PROVE Read(i + 1)
      OBVIOUS
    <2>1. Read(i)
      BY <1>13
    <2>2. PICK s \in Seq(S) : s = flat[i]
      BY <1>11
    <2>3. flat[i + 1] = s \o b[i + 1]
      <3>1. i + 1 \in 1 .. n /\ (i + 1) - 1 = i
        OBVIOUS
      <3>2. flat[i + 1] = flat[(i + 1) - 1] \o b[i + 1]
        BY <1>11, <3>1
      <3>. QED
        BY <2>2, <3>1, <3>2
    <2>4. PICK l, w : l = LabelNames[i + 1] /\ w = labels[l]
      OBVIOUS
    <2>5. ASSUME NEW k PROVE Named(i + 1, k) <=> Named(i, k) \/ k = l
      <3>1. \A j : j \in 1 .. i + 1 <=> j \in 1 .. i \/ j = i + 1
        BY OneMore, Zenon
      <3>2. Named(i + 1, k) <=> Named(i, k) \/ LabelNames[i + 1] = k
        BY <3>1, Zenon
      <3>. QED
        BY <2>4, <3>2
    <2>. HIDE DEF Named
    <2>6. CASE l \in names \cap D
      <3>0. i + 1 \in 1 .. n
        OBVIOUS
      <3>1. flat[i + 1] = s \o Pair(l, w)
        BY <1>9, <2>3, <2>4, <2>6, <3>0
      <3>2. l \in S /\ l # Comma /\ w \in Seq(S) /\ NoComma(w) /\ Closed(s)
        BY <1>3, <1>5, <2>1, <2>2, <2>4, <2>6
      <3>3. /\ Closed(flat[i + 1])
            /\ \A k, v : Entry(flat[i + 1], k, v) <=> Entry(s, k, v) \/ (k = l /\ v = w)
        BY <1>4, <3>1, <3>2, EntryAppend
      <3>. QED
        BY <2>1, <2>2, <2>4, <2>5, <2>6, <3>3
    <2>7. CASE l \notin names \cap D
      <3>1. b[i + 1] = << >>
        BY <1>9, <2>4, <2>7
      <3>2. flat[i + 1] = s
        BY <2>3, <3>1
      <3>. QED
        BY <2>1, <2>2, <2>5, <2>7, <3>2
    <2>. QED
      BY <2>6, <2>7
  <1>14. Read(n)
    <2>1. n \in T
      <3>. HIDE DEF T
      <3>. QED
        BY <1>12, <1>13, SetInduction
    <2>. QED
      BY <2>1
  <1>15. \A k : Named(n, k) <=> k \in Range(LabelNames)
    BY <1>2 DEF Range
  <1>. HIDE DEF Named
  <1>. QED
    BY <1>6, <1>8, <1>11, <1>14, <1>15

\* The values of a label set hold no comma.
PlainLabels(labels) == \A k \in DOMAIN labels : NoComma(labels[k])

\* The label sets of samples.
IsLabels(labels) == \E D \in SUBSET Range(LabelNames) : labels \in [D -> Seq(STRING)]

\* Label sets without commas that have one key are one label set.
LEMMA KeyIsLabels ==
    ASSUME NEW l, NEW m, IsLabels(l), IsLabels(m), PlainLabels(l), PlainLabels(m),
           seriesKey(l) = seriesKey(m)
    PROVE  l = m
  <1>1. ASSUME NEW x, IsLabels(x), PlainLabels(x)
        PROVE  \A k, v : Entry(seriesKey(x), k, v) <=> k \in DOMAIN x /\ v = x[k]
    <2>1. PICK D \in SUBSET Range(LabelNames) : x \in [D -> Seq(STRING)]
      BY <1>1 DEF IsLabels
    <2>2. D = DOMAIN x /\ \A k \in D : NoComma(x[k])
      BY <1>1, <2>1 DEF PlainLabels
    <2>3. \A k, v : Entry(Joined(x, D), k, v)
                        <=> k \in Range(LabelNames) /\ k \in D /\ k \in D /\ v = x[k]
      BY <2>1, <2>2, KeyEntries
    <2>. QED
      BY <2>1, <2>2, <2>3 DEF seriesKey
  <1>2. \A k, v : (k \in DOMAIN l /\ v = l[k]) <=> (k \in DOMAIN m /\ v = m[k])
    <2>1. PICK key : key = seriesKey(l) /\ key = seriesKey(m)
      OBVIOUS
    <2>2. \A k, v : Entry(key, k, v) <=> k \in DOMAIN l /\ v = l[k]
      BY <1>1, <2>1
    <2>3. \A k, v : Entry(key, k, v) <=> k \in DOMAIN m /\ v = m[k]
      BY <1>1, <2>1
    <2>. QED
      BY <2>2, <2>3
  <1>3. DOMAIN l = DOMAIN m /\ \A k \in DOMAIN l : l[k] = m[k]
    BY <1>2
  <1>4. l = [k \in DOMAIN l |-> l[k]] /\ m = [k \in DOMAIN m |-> m[k]]
    BY DEF IsLabels
  <1>. QED
    BY <1>3, <1>4
-----------------------------------------------------------------------------
(***************************************************************************)
(* Series apart.                                                           *)
(***************************************************************************)
\* Found samples whose values hold no comma are of one series when their labels are
\* the same; of a series, no two have one time.
LEMMA PlainSamples ==
    ASSUME NEW found \in SUBSET Samples, OneName(found), Plain(found)
    PROVE  /\ \A m, n \in found : SameKey(m, n) <=> m.labels = n.labels
           /\ OneEach(found)
  <1>1. ASSUME NEW m \in found PROVE IsLabels(m.labels) /\ PlainLabels(m.labels)
    <2>1. IsLabels(m.labels)
      BY SampleConstants DEF Samples, IsLabels
    <2>2. \A k \in DOMAIN m.labels : NoComma(m.labels[k])
      BY DEF Plain, Contains, NoComma
    <2>. QED
      BY <2>1, <2>2 DEF PlainLabels
  <1>2. ASSUME NEW m \in found, NEW n \in found, SameKey(m, n) PROVE m.labels = n.labels
    BY <1>1, <1>2, KeyIsLabels DEF SameKey
  <1>3. \A m, n \in found : m.labels = n.labels => SameKey(m, n)
    BY DEF SameKey
  <1>4. OneEach(found)
    <2>. SUFFICES ASSUME NEW m \in found, NEW n \in found, SameKey(m, n), m.time = n.time
                  PROVE  m = n
      BY DEF OneEach
    <2>1. m.labels = n.labels /\ m.name = n.name
      BY <1>2 DEF OneName
    <2>. QED
      BY <2>1, SampleConstants DEF Samples
  <1>. QED
    BY <1>2, <1>3, <1>4

\* Such samples make one series for each label set, with a point for each sample.
LEMMA PlainSeries ==
    ASSUME NEW found \in SUBSET Samples, OneName(found), Plain(found)
    PROVE  /\ {s.labels : s \in SeriesOf(found)} = {m.labels : m \in found}
           /\ \A s \in SeriesOf(found) :
                /\ DOMAIN s.points = {m.time : m \in {n \in found : n.labels = s.labels}}
                /\ \A m \in found : m.labels = s.labels => s.points[m.time] = m.value
                /\ s.points = [t \in DOMAIN s.points |-> s.points[t]]
  <1>1. \A m, n \in found : SameKey(m, n) <=> m.labels = n.labels
    BY PlainSamples
  <1>2. /\ \A s \in SeriesOf(found) : Holds(s, found)
        /\ \A m \in found : \E s \in SeriesOf(found) : SameKey(m, s)
    BY PlainSamples, SeriesFacts
  <1>3. ASSUME NEW s \in SeriesOf(found), NEW m \in found
        PROVE  SameKey(m, s) <=> m.labels = s.labels
    <2>1. PICK n \in found : s.labels = n.labels
      BY <1>2 DEF Holds
    <2>2. SameKey(m, s) <=> SameKey(m, n)
      BY <2>1 DEF SameKey
    <2>. QED
      BY <1>1, <2>1, <2>2
  <1>4. {s.labels : s \in SeriesOf(found)} = {m.labels : m \in found}
    <2>1. \A s \in SeriesOf(found) : \E m \in found : s.labels = m.labels
      BY <1>2 DEF Holds
    <2>2. \A m \in found : \E s \in SeriesOf(found) : s.labels = m.labels
      BY <1>2, <1>3
    <2>. QED
      BY <2>1, <2>2
  <1>5. ASSUME NEW s \in SeriesOf(found)
        PROVE  /\ DOMAIN s.points = {m.time : m \in {n \in found : n.labels = s.labels}}
               /\ \A m \in found : m.labels = s.labels => s.points[m.time] = m.value
               /\ s.points = [t \in DOMAIN s.points |-> s.points[t]]
    <2>1. /\ s.points = [t \in DOMAIN s.points |-> s.points[t]]
          /\ \A m \in found : SameKey(m, s) => m.time \in DOMAIN s.points /\ s.points[m.time] = m.value
          /\ \A t \in DOMAIN s.points : \E m \in found : SameKey(m, s) /\ m.time = t
      BY <1>2 DEF Holds
    <2>. QED
      BY <1>3, <2>1
  <1>. QED
    BY <1>4, <1>5

\* What an answer of the execute and the range endpoint is made of.
LEMMA AnswerOf ==
    ASSUME IInv, AInv, NEW r \in Requests, Answered(r, {"execute", "range"})
    PROVE  /\ Outcome(r).kind = "value" /\ response[r].data = Outcome(r).result
           /\ founds[r] \in Seq(SUBSET Samples)
           /\ founds[r] # << >> => /\ Head(founds[r]) = founds[r][1]
                                   /\ founds[r][1] \in SUBSET Samples
                                   /\ OneName(founds[r][1])
  <1>1. Answered(r, ExecutorKinds) /\ workload[r].kind # "instant"
    BY DEF Answered, ExecutorKinds
  <1>2. Outcome(r).kind = "value" /\ response[r].data = Outcome(r).result
    BY <1>1 DEF AInv, Evaluated, Converted
  <1>3. founds[r] \in Seq(SUBSET Samples)
    BY DEF IInv, Shapes
  <1>4. ASSUME founds[r] # << >>
        PROVE  /\ Head(founds[r]) = founds[r][1]
               /\ founds[r][1] \in SUBSET Samples
               /\ OneName(founds[r][1])
    <2>1. 1 \in DOMAIN founds[r]
      BY <1>3, <1>4
    <2>. QED
      BY <1>3, <1>4, <2>1 DEF AInv, Reads
  <1>. QED
    BY <1>2, <1>3, <1>4

\* What SeriesStayApart says of the answer.
Apart(found, data) ==
    /\ {s.labels : s \in data} = {m.labels : m \in found}
    /\ \A s \in data :
            s.points = [t \in {m.time : m \in {n \in found : n.labels = s.labels}} |->
                (CHOOSE m \in found : m.labels = s.labels /\ m.time = t).value]

\* In every state, an answered selector has one series for each label set that was
\* found, and in it every sample with those labels and no other, as long as no value
\* holds a comma: labels can be read back from the key they were joined into.
THEOREM SeriesApart ==
    ASSUME Evaluates
    PROVE  Spec => []SeriesStayApart
  <1>1. IInv /\ AInv => SeriesStayApart
    <2>. SUFFICES ASSUME IInv, AInv, NEW r \in Requests, Answered(r, {"execute", "range"}),
                         query[r].expr.kind = "vector", Plain(founds[r][1])
                  PROVE  Apart(founds[r][1], response[r].data)
      BY DEF SeriesStayApart, Apart
    <2>1. PICK f, found : f = founds[r] /\ found = founds[r][1]
      OBVIOUS
    <2>2. /\ Outcome(r).kind = "value" /\ response[r].data = Outcome(r).result
          /\ f # << >> => Head(f) = found /\ found \in SUBSET Samples /\ OneName(found)
      BY <2>1, AnswerOf
    <2>3. Outcome(r) = IF f = << >> THEN Needs(Selector(query[r].expr, query[r].start, query[r].end))
                       ELSE Value(SeriesOf(Head(f)), Tail(f))
      BY <2>1, VectorOutcome DEF Outcome
    <2>4. f # << >> /\ Outcome(r).result = SeriesOf(Head(f))
      BY <2>2, <2>3 DEF Needs, Value
    <2>5. found \in SUBSET Samples /\ OneName(found) /\ Plain(found)
          /\ response[r].data = SeriesOf(found)
      BY <2>1, <2>2, <2>4
    <2>6. {s.labels : s \in response[r].data} = {m.labels : m \in found}
      BY <2>5, PlainSeries
    <2>7. ASSUME NEW s \in response[r].data
          PROVE  s.points = [t \in {m.time : m \in {n \in found : n.labels = s.labels}} |->
                                (CHOOSE m \in found : m.labels = s.labels /\ m.time = t).value]
      <3>1. /\ DOMAIN s.points = {m.time : m \in {n \in found : n.labels = s.labels}}
            /\ \A m \in found : m.labels = s.labels => s.points[m.time] = m.value
            /\ s.points = [t \in DOMAIN s.points |-> s.points[t]]
        BY <2>5, <2>7, PlainSeries
      <3>2. ASSUME NEW t \in DOMAIN s.points
            PROVE  s.points[t] = (CHOOSE m \in found : m.labels = s.labels /\ m.time = t).value
        <4>1. \E m \in found : m.labels = s.labels /\ m.time = t
          BY <3>1
        <4>2. PICK m \in found : /\ m = CHOOSE n \in found : n.labels = s.labels /\ n.time = t
                                 /\ m.labels = s.labels /\ m.time = t
          BY <4>1
        <4>. QED
          BY <3>1, <4>2
      <3>. QED
        BY <3>1, <3>2
    <2>8. Apart(found, response[r].data)
      BY <2>6, <2>7 DEF Apart
    <2>. QED
      BY <2>1, <2>8
  <1>. QED
    BY <1>1, InvariantHolds, InvariantIsKept, AnswersKept, PTL DEF Spec
-----------------------------------------------------------------------------
(***************************************************************************)
(* Counting.                                                               *)
(***************************************************************************)
LEMMA WholeNumber == ASSUME NEW n \in Int PROVE Fraction(n, 1) = Number(n)
  <1>1. Abs(1) = 1 /\ Sign(1) = 1
    BY DEF Abs, Sign
  <1>2. n % 1 = 0 /\ n \div 1 = n /\ n * 1 = n /\ 1 * n = n
    OBVIOUS
  <1>3. {k \in 1 .. 1 : (n * k) % 1 = 0} = {1}
    BY <1>2
  <1>4. Min({1}) = 1
    BY DEF Min
  <1>5. PICK D : D = {k \in 1 .. 1 : (n * k) % 1 = 0}
    OBVIOUS
  <1>6. Fraction(n, 1) = <<Sign(1) * ((n * Min(D)) \div Abs(1)), Min(D)>>
    <2>1. D = {k \in 1 .. Abs(1) : (n * k) % Abs(1) = 0} /\ 1 # 0
      BY <1>1, <1>5
    <2>2. Fraction(n, 1) =
            LET least == Min({k \in 1 .. Abs(1) : (n * k) % Abs(1) = 0})
            IN  <<Sign(1) * ((n * least) \div Abs(1)), least>>
      BY <2>1, Zenon DEF Fraction
    <2>. QED
      BY <2>1, <2>2, Zenon
  <1>. QED
    BY <1>1, <1>2, <1>3, <1>4, <1>5, <1>6 DEF Number

\* Whole numbers add up as numbers do.
LEMMA PlusWhole ==
    ASSUME NEW a \in Int, NEW b \in Int
    PROVE  Plus(Number(a), Number(b)) = Number(a + b)
  <1>1. Plus(Number(a), Number(b)) = Fraction(a * 1 + b * 1, 1 * 1)
    BY DEF Plus, Number
  <1>2. a * 1 + b * 1 = a + b /\ 1 * 1 = 1
    OBVIOUS
  <1>. QED
    BY <1>1, <1>2, WholeNumber

\* The recursion of Sum, as an equation of a function.
Adds(it, t, S) ==
    it = [s \in SUBSET S |->
            IF s = {} THEN Zero ELSE Plus(it[s \ {First(s)}], First(s).points[t])]

\* The sum of a group, with its recursion named.
LEMMA SumIsFold ==
    ASSUME NEW S, NEW t
    PROVE  Sum(S, t) = (CHOOSE it : Adds(it, t, S))[S]
  BY DEF Sum, FoldSet, MapThenFoldSet, Adds, First

\* Points that are whole numbers add up as such.
LEMMA SumOfNumbers ==
    ASSUME NEW S, IsFiniteSet(S), NEW t, NEW f,
           \A s \in S : f[s] \in Nat /\ s.points[t] = Number(f[s])
    PROVE  Sum(S, t) = Number(SumFunctionOnSet(f, S))
  <1>1. PICK it : /\ SumFunctionOnSet(f, S) = it[S]
                  /\ it[{}] = 0
                  /\ \A s \in SUBSET S : s # {} => it[s] = f[First(s)] + it[s \ {First(s)}]
    <2>1. PICK it : SumFunctionOnSet(f, S) = it[S] /\ SumsUp(it, f, S)
      BY SumLoopNamed, Zenon
    <2>. QED
      BY <2>1, Zenon DEF SumsUp
  <1>2. ASSUME NEW s \in SUBSET S, s # {}
        PROVE  First(s) \in s /\ s \ {First(s)} \in SUBSET S
    BY <1>2, FirstIn
  <1>3. \A s \in SUBSET S : it[s] \in Nat
    <2>. DEFINE P == {s \in SUBSET S : it[s] \in Nat}
    <2>1. {} \in P
      BY <1>1
    <2>2. ASSUME NEW s \in SUBSET S, s # {}, \A x \in s : s \ {x} \in P PROVE s \in P
      <3>1. it[s] = f[First(s)] + it[s \ {First(s)}]
        BY <1>1, <2>2
      <3>2. f[First(s)] \in Nat /\ it[s \ {First(s)}] \in Nat
        BY <1>2, <2>2
      <3>. QED
        BY <3>1, <3>2
    <2>3. SUBSET S \subseteq P
      <3>. HIDE DEF P
      <3>. QED
        BY <2>1, <2>2, FiniteInduction
    <2>. QED
      BY <2>3
  <1>4. ASSUME NEW s \in SUBSET S, s # {}
        PROVE  Plus(Number(it[s \ {First(s)}]), First(s).points[t]) = Number(it[s])
    <2>1. PICK a \in Nat, b \in Nat : a = it[s \ {First(s)}] /\ b = f[First(s)]
      BY <1>2, <1>3, <1>4
    <2>2. First(s).points[t] = Number(b)
      BY <1>2, <1>4, <2>1
    <2>3. it[s] = a + b
      <3>1. it[s] = f[First(s)] + it[s \ {First(s)}]
        BY <1>1, <1>4
      <3>. QED
        BY <2>1, <3>1
    <2>4. Plus(Number(a), Number(b)) = Number(a + b)
      BY PlusWhole
    <2>. QED
      BY <2>1, <2>2, <2>3, <2>4
  <1>. DEFINE jt == [s \in SUBSET S |-> Number(it[s])]
  <1>5. Adds(jt, t, S)
    <2>1. ASSUME NEW s \in SUBSET S
          PROVE  jt[s] = IF s = {} THEN Zero ELSE Plus(jt[s \ {First(s)}], First(s).points[t])
      BY <1>1, <1>2, <1>4 DEF Zero
    <2>2. jt = [s \in SUBSET S |-> jt[s]]
      OBVIOUS
    <2>. HIDE DEF jt
    <2>. QED
      BY <2>1, <2>2 DEF Adds
  <1>6. PICK kt : kt = CHOOSE fold : Adds(fold, t, S)
    OBVIOUS
  <1>7. Adds(kt, t, S)
    <2>. HIDE DEF jt
    <2>. QED
      BY <1>5, <1>6
  <1>8. \A s \in SUBSET S : kt[s] = Number(it[s])
    <2>. DEFINE P == {s \in SUBSET S : kt[s] = Number(it[s])}
    <2>0. \A s \in SUBSET S : kt[s] =
              IF s = {} THEN Zero ELSE Plus(kt[s \ {First(s)}], First(s).points[t])
      BY <1>7 DEF Adds
    <2>1. {} \in P
      BY <1>1, <2>0 DEF Zero
    <2>2. ASSUME NEW s \in SUBSET S, s # {}, \A x \in s : s \ {x} \in P PROVE s \in P
      <3>1. kt[s \ {First(s)}] = Number(it[s \ {First(s)}])
        BY <1>2, <2>2
      <3>2. kt[s] = Plus(kt[s \ {First(s)}], First(s).points[t])
        BY <2>0, <2>2
      <3>. QED
        BY <1>4, <2>2, <3>1, <3>2
    <2>3. SUBSET S \subseteq P
      <3>. HIDE DEF P
      <3>. QED
        BY <2>1, <2>2, FiniteInduction
    <2>. QED
      BY <2>3
  <1>9. Sum(S, t) = kt[S]
    BY <1>6, SumIsFold
  <1>. QED
    BY <1>1, <1>8, <1>9

\* A group's key is the key of its labels.
LEMMA GroupKeyIsKey ==
    ASSUME NEW labels, NEW grouping, NEW without
    PROVE  buildGroupKey(labels, grouping, without)
              = seriesKey(extractGroupLabels(labels, grouping, without))
  <1>1. PICK names : names = GroupNames(labels, grouping, without) /\ names \subseteq DOMAIN labels
    BY DEF GroupNames
  <1>2. PICK R : R = Restrict(labels, names)
    OBVIOUS
  <1>3. DOMAIN R = names /\ \A k \in names : R[k] = labels[k]
    BY <1>2 DEF Restrict
  <1>. DEFINE block(l, n, i) == IF LabelNames[i] \in n \cap DOMAIN l
                                THEN Pair(LabelNames[i], l[LabelNames[i]]) ELSE << >>
  <1>4. \A i : block(labels, names, i) = block(R, names, i)
    BY <1>1, <1>3
  <1>5. Joined(labels, names) = FlattenSeq([i \in DOMAIN LabelNames |-> block(labels, names, i)])
    BY DEF Joined, Pair
  <1>6. Joined(R, names) = FlattenSeq([i \in DOMAIN LabelNames |-> block(R, names, i)])
    BY DEF Joined, Pair
  <1>. HIDE DEF block
  <1>7. Joined(labels, names) = Joined(R, names)
    BY <1>4, <1>5, <1>6
  <1>. QED
    BY <1>1, <1>2, <1>3, <1>7 DEF buildGroupKey, extractGroupLabels, seriesKey

\* The series of the group that an aggregate is of.
GroupOf(o, result, grouping, without) ==
    {s \in result : buildGroupKey(s.labels, grouping, without) = seriesKey(o.labels)}

\* Each series is in the group of one aggregate.
LEMMA GroupFacts ==
    ASSUME NEW result, NEW op, NEW grouping, NEW without
    PROVE  LET data == Aggregated(result, op, grouping, without)
           IN  /\ \A o \in data : o.points = aggregate(GroupOf(o, result, grouping, without), op)
               /\ \A s \in result : \E o \in data : s \in GroupOf(o, result, grouping, without)
               /\ \A o, p \in data : seriesKey(o.labels) = seriesKey(p.labels) => o = p
  <1>. DEFINE keyOf(s) == buildGroupKey(s.labels, grouping, without)
              of(key) == {s \in result : keyOf(s) = key}
              keys == {keyOf(s) : s \in result}
              group(key) == [labels |-> extractGroupLabels(TheSeries(of(key)).labels, grouping, without),
                             series |-> of(key)]
              O(key) == Series(group(key).labels, aggregate(of(key), op))
  <1>1. groupSeries(result, grouping, without) = {group(key) : key \in keys}
    BY DEF groupSeries
  <1>2. \A key : group(key).series = of(key)
    OBVIOUS
  <1>3. Aggregated(result, op, grouping, without) = {O(key) : key \in keys}
    <2>. HIDE DEF group, of, keys
    <2>. QED
      BY <1>1, <1>2 DEF Aggregated
  <1>4. ASSUME NEW key \in keys PROVE seriesKey(O(key).labels) = key /\ O(key).points = aggregate(of(key), op)
    <2>1. of(key) # {}
      OBVIOUS
    <2>2. PICK first : first = TheSeries(of(key)) /\ first \in of(key)
      BY <2>1 DEF TheSeries
    <2>3. keyOf(first) = key
      BY <2>2
    <2>4. O(key).labels = extractGroupLabels(first.labels, grouping, without)
      BY <2>2 DEF Series
    <2>5. O(key).points = aggregate(of(key), op)
      BY DEF Series
    <2>. HIDE DEF O
    <2>. QED
      BY <2>3, <2>4, <2>5, GroupKeyIsKey
  <1>5. \A o : of(seriesKey(o.labels)) = GroupOf(o, result, grouping, without)
    BY DEF GroupOf
  <1>6. \A s \in result : keyOf(s) \in keys /\ s \in of(keyOf(s))
    OBVIOUS
  <1>7. ASSUME NEW o \in Aggregated(result, op, grouping, without)
        PROVE  \E key \in keys : o = O(key) /\ seriesKey(o.labels) = key /\ o.points = aggregate(of(key), op)
    BY <1>3, <1>4
  <1>. HIDE DEF O, of, keys, keyOf, group
  <1>8. \A o \in Aggregated(result, op, grouping, without) :
            o = O(seriesKey(o.labels)) /\ o.points = aggregate(of(seriesKey(o.labels)), op)
    BY <1>7
  <1>9. ASSUME NEW s \in result
        PROVE  \E o \in Aggregated(result, op, grouping, without) : s \in of(seriesKey(o.labels))
    <2>1. O(keyOf(s)) \in Aggregated(result, op, grouping, without)
      BY <1>3, <1>6
    <2>2. seriesKey(O(keyOf(s)).labels) = keyOf(s)
      BY <1>4, <1>6
    <2>. QED
      BY <1>6, <2>1, <2>2
  <1>10. \A o, p \in Aggregated(result, op, grouping, without) :
            seriesKey(o.labels) = seriesKey(p.labels) => o = p
    BY <1>8
  <1>. QED
    BY <1>5, <1>8, <1>9, <1>10

\* A count at a time is that of the series with a point at the time.
LEMMA CountPoints ==
    ASSUME NEW series
    PROVE  /\ DOMAIN aggregate(series, "count") = UNION {DOMAIN s.points : s \in series}
           /\ \A t \in DOMAIN aggregate(series, "count") :
                aggregate(series, "count")[t] = Number(Cardinality({s \in series : t \in DOMAIN s.points}))
  BY DEF aggregate

\* As many series have a point at a time as there are samples of that time.
LEMMA SeriesAtTime ==
    ASSUME NEW found, IsFiniteSet(found), OneEach(found), NEW t
    PROVE  /\ IsFiniteSet({s \in SeriesOf(found) : t \in DOMAIN s.points})
           /\ Cardinality({s \in SeriesOf(found) : t \in DOMAIN s.points})
                  = Cardinality({n \in found : n.time = t})
  <1>. DEFINE A == {n \in found : n.time = t}
              B == {s \in SeriesOf(found) : t \in DOMAIN s.points}
              h == [n \in A |-> CHOOSE s \in SeriesOf(found) : SameKey(n, s)]
  <1>1. /\ \A s \in SeriesOf(found) : Holds(s, found)
        /\ \A m \in found : \E s \in SeriesOf(found) : SameKey(m, s)
        /\ \A r, s \in SeriesOf(found) : SameKey(r, s) => r = s
    BY SeriesFacts
  <1>2. ASSUME NEW n \in A PROVE h[n] \in B /\ SameKey(n, h[n])
    <2>1. h[n] \in SeriesOf(found) /\ SameKey(n, h[n])
      BY <1>1, <1>2
    <2>2. t \in DOMAIN h[n].points
      <3>1. n \in found /\ n.time = t
        BY <1>2
      <3>. HIDE DEF h
      <3>. QED
        BY <1>1, <2>1, <3>1 DEF Holds
    <2>. HIDE DEF h
    <2>. QED
      BY <2>1, <2>2
  <1>3. \A m, n \in A : h[m] = h[n] => m = n
    <2>. HIDE DEF h
    <2>. QED
      BY <1>2 DEF SameKey, OneEach
  <1>4. ASSUME NEW s \in B PROVE \E n \in A : h[n] = s
    <2>1. PICK n \in A : SameKey(n, s)
      BY <1>1, <1>4 DEF Holds
    <2>2. SameKey(h[n], s) /\ h[n] \in SeriesOf(found)
      BY <1>2, <2>1 DEF SameKey
    <2>3. h[n] = s
      <3>. HIDE DEF h
      <3>. QED
        BY <1>1, <1>4, <2>2
    <2>. QED
      BY <2>1, <2>3
  <1>5. h \in Bijection(A, B)
    <2>1. h = [n \in A |-> h[n]]
      OBVIOUS
    <2>. HIDE DEF h, A, B
    <2>2. h \in [A -> B]
      BY <1>2, <2>1
    <2>. QED
      BY <1>3, <1>4, <2>2 DEF Bijection, Injection, Surjection, IsInjective
  <1>6. IsFiniteSet(A)
    BY FS_Subset
  <1>7. ExistsBijection(A, B)
    <2>. HIDE DEF h, A, B
    <2>. QED
      BY <1>5 DEF ExistsBijection
  <1>. HIDE DEF A, B
  <1>8. IsFiniteSet(B) /\ Cardinality(B) = Cardinality(A)
    BY <1>6, <1>7, FS_Bijection
  <1>. QED
    BY <1>8 DEF A, B

\* The counts of all groups at a time add up to the samples of that time.
LEMMA CountsAddUp ==
    ASSUME NEW found, IsFiniteSet(found), OneEach(found), NEW grouping, NEW without, NEW t,
           NEW data, data = Aggregated(SeriesOf(found), "count", grouping, without)
    PROVE  Sum({o \in data : t \in DOMAIN o.points}, t)
              = Number(Cardinality({n \in found : n.time = t}))
  <1>1. PICK U : U = {s \in SeriesOf(found) : t \in DOMAIN s.points}
    OBVIOUS
  <1>2. IsFiniteSet(U) /\ Cardinality(U) = Cardinality({n \in found : n.time = t})
    <2>1. /\ IsFiniteSet({s \in SeriesOf(found) : t \in DOMAIN s.points})
          /\ Cardinality({s \in SeriesOf(found) : t \in DOMAIN s.points})
                = Cardinality({n \in found : n.time = t})
      BY SeriesAtTime, Zenon
    <2>. QED
      BY <1>1, <2>1, Zenon
  <1>3. PICK counting : counting = {o \in data : t \in DOMAIN o.points}
    OBVIOUS
  <1>. DEFINE group(o) == GroupOf(o, SeriesOf(found), grouping, without)
  <1>4. /\ \A o \in data : o.points = aggregate(group(o), "count")
        /\ \A s \in SeriesOf(found) : \E o \in data : s \in group(o)
        /\ \A o, p \in data : seriesKey(o.labels) = seriesKey(p.labels) => o = p
    BY GroupFacts
  <1>5. PICK K : K = [o \in counting |-> group(o) \cap U]
    OBVIOUS
  <1>6. PICK f : f = [o \in counting |-> Cardinality(K[o])]
    OBVIOUS
  <1>7. ASSUME NEW o \in data
        PROVE  /\ t \in DOMAIN o.points <=> group(o) \cap U # {}
               /\ t \in DOMAIN o.points => o.points[t] = Number(Cardinality(group(o) \cap U))
    <2>1. PICK series : series = group(o) /\ series \subseteq SeriesOf(found)
      BY DEF GroupOf
    <2>2. o.points = aggregate(series, "count")
      BY <1>4, <2>1
    <2>3. {s \in series : t \in DOMAIN s.points} = series \cap U
      BY <1>1, <2>1
    <2>4. /\ DOMAIN o.points = UNION {DOMAIN s.points : s \in series}
          /\ \A u \in DOMAIN o.points :
                o.points[u] = Number(Cardinality({s \in series : u \in DOMAIN s.points}))
      BY <2>2, CountPoints
    <2>5. t \in DOMAIN o.points <=> series \cap U # {}
      BY <2>3, <2>4
    <2>. QED
      BY <2>1, <2>3, <2>4, <2>5
  <1>8. \A o, p \in counting : o # p => K[o] \cap K[p] = {}
    BY <1>3, <1>4, <1>5 DEF GroupOf
  <1>9. \A s : s \in U <=> \E o \in counting : s \in K[o]
    <2>1. ASSUME NEW s \in U PROVE \E o \in counting : s \in K[o]
      <3>1. PICK o \in data : s \in group(o)
        BY <1>1, <1>4, <2>1
      <3>. HIDE DEF group
      <3>2. o \in counting
        BY <1>3, <1>7, <2>1, <3>1
      <3>. QED
        BY <1>5, <2>1, <3>1, <3>2
    <2>2. ASSUME NEW o \in counting, NEW s \in K[o] PROVE s \in U
      BY <1>5, <2>2
    <2>. QED
      BY <2>1, <2>2
  <1>. HIDE DEF group
  <1>10. \A o \in counting : K[o] # {} /\ K[o] \subseteq U
    BY <1>3, <1>5, <1>7
  <1>11. \A o \in counting : IsFiniteSet(K[o]) /\ f[o] = Cardinality(K[o]) /\ f[o] \in Nat
    BY <1>2, <1>6, <1>10, FS_Subset, FS_CardinalityType
  <1>12. IsFiniteSet(counting)
    <2>. DEFINE owner == [s \in U |-> CHOOSE o \in counting : s \in K[o]]
    <2>1. \A s \in U : owner[s] \in counting /\ s \in K[owner[s]]
      BY <1>9
    <2>. HIDE DEF owner
    <2>2. counting = {owner[s] : s \in U}
      <3>1. ASSUME NEW o \in counting PROVE \E s \in U : owner[s] = o
        <4>1. PICK s \in K[o] : s \in U
          BY <1>10, <3>1
        <4>2. s \in K[owner[s]] /\ owner[s] \in counting
          BY <2>1, <4>1
        <4>. QED
          BY <1>8, <4>1, <4>2
      <3>. QED
        BY <2>1, <3>1
    <2>. QED
      BY <1>2, <2>2, FiniteImage
  <1>13. Cardinality(U) = SumFunctionOnSet(f, counting)
    BY <1>8, <1>9, <1>11, <1>12, UnionCount
  <1>14. \A o \in counting : f[o] \in Nat /\ o.points[t] = Number(f[o])
    BY <1>3, <1>5, <1>6, <1>7, <1>11
  <1>15. Sum(counting, t) = Number(SumFunctionOnSet(f, counting))
    BY <1>12, <1>14, SumOfNumbers
  <1>. QED
    BY <1>2, <1>3, <1>13, <1>15

\* In every state, the counts that an aggregation answers with, added up over its
\* groups, are the number of samples found at each time: none is lost, and none is
\* counted twice, however the series are grouped.
THEOREM CountsOfGroups ==
    ASSUME Evaluates, OneSampleEach
    PROVE  Spec => []CountsEverySample
  <1>1. IInv /\ AInv => CountsEverySample
    <2>. SUFFICES ASSUME IInv, AInv, NEW r \in Requests, Answered(r, {"execute", "range"}),
                         query[r].expr.kind = "aggregate", query[r].expr.op = "count",
                         query[r].expr.expr.kind = "vector", NEW m \in founds[r][1]
                  PROVE  Sum({s \in response[r].data : m.time \in DOMAIN s.points}, m.time)
                            = Number(Cardinality({n \in founds[r][1] : n.time = m.time}))
      BY DEF CountsEverySample
    <2>1. PICK f, found, e : f = founds[r] /\ found = founds[r][1] /\ e = query[r].expr
      OBVIOUS
    <2>2. /\ Outcome(r).kind = "value" /\ response[r].data = Outcome(r).result
          /\ f # << >> => Head(f) = found /\ found \in SUBSET Samples /\ OneName(found)
      BY <2>1, AnswerOf
    <2>3. Outcome(r) = Evaluate(e, query[r], f)
      BY <2>1 DEF Outcome
    <2>4. /\ f # << >>
          /\ Outcome(r).result = Aggregated(SeriesOf(Head(f)), "count", e.grouping, e.without)
      BY <2>1, <2>2, <2>3, AggregateOutcome
    <2>5. /\ found \in SUBSET Samples /\ OneEach(found) /\ IsFiniteSet(found)
          /\ response[r].data = Aggregated(SeriesOf(found), "count", e.grouping, e.without)
      BY <2>2, <2>4, FoundOneEach, SamplesFiniteSet
    <2>6. Sum({s \in response[r].data : m.time \in DOMAIN s.points}, m.time)
              = Number(Cardinality({n \in found : n.time = m.time}))
      BY <2>5, CountsAddUp
    <2>. QED
      BY <2>1, <2>6
  <1>. QED
    BY <1>1, InvariantHolds, InvariantIsKept, AnswersKept, PTL DEF Spec
-----------------------------------------------------------------------------
(***************************************************************************)
(* Fractions.                                                              *)
(***************************************************************************)
\* Division of integers.
LEMMA Parts ==
    ASSUME NEW x \in Int, NEW d \in Nat \ {0}
    PROVE  x \div d \in Int /\ x % d \in Int /\ x = d * (x \div d) + (x % d) /\ 0 <= x % d /\ x % d < d
  BY SMT

\* A multiple has no remainder.
LEMMA Multiple ==
    ASSUME NEW z \in Int, NEW d \in Nat \ {0}
    PROVE  (z * d) % d = 0 /\ (z * d) \div d = z
  BY SMT

\* A common factor can be cancelled.
LEMMA Cancelled ==
    ASSUME NEW a \in Int, NEW b \in Int, NEW c \in Int, c # 0, a * c = b * c
    PROVE  a = b
  BY SMT

\* A denominator of a number is one however the number is written.
LEMMA OtherForm ==
    ASSUME NEW n \in Int, NEW m \in Int, NEW d \in Nat \ {0}, NEW e \in Nat \ {0}, n * e = m * d,
           NEW k \in Int, NEW z \in Int, n * k = z * d
    PROVE  m * k = z * e
  <1>1. (m * k) * d = (n * k) * e
    BY SMT
  <1>2. (m * k) * d = (z * e) * d
    BY <1>1, SMT
  <1>3. m * k \in Int /\ z * e \in Int
    BY SMT
  <1>. QED
    BY <1>2, <1>3, Cancelled

\* A fraction is in its lowest terms.
LEMMA FractionIs ==
    ASSUME NEW n \in Int, NEW d \in Nat \ {0}
    PROVE  \E p \in Int, q \in Nat \ {0} :
              /\ Fraction(n, d) = <<p, q>>
              /\ p * d = n * q
              /\ \A k \in Nat \ {0}, z \in Int : n * k = z * d => q <= k
  <1>1. Abs(d) = d /\ Sign(d) = 1 /\ d # 0
    BY DEF Abs, Sign
  <1>2. PICK D : D = {k \in 1 .. d : (n * k) % d = 0}
    OBVIOUS
  <1>3. d \in D
    BY <1>2, Multiple
  <1>4. IsFiniteSet(D) /\ D \subseteq Int
    <2>1. IsFiniteSet(1 .. d)
      BY FS_Interval
    <2>. QED
      BY <1>2, <2>1, FS_Subset
  <1>5. PICK q : q = Min(D) /\ q \in D /\ \A k \in D : q <= k
    BY <1>3, <1>4, LeastAndGreatest
  <1>6. q \in 1 .. d /\ (n * q) % d = 0
    BY <1>2, <1>5
  <1>7. PICK p \in Int : p = (n * q) \div d
    BY <1>6, Parts
  <1>8. Fraction(n, d) = <<p, q>>
    <2>1. Fraction(n, d) =
            LET least == Min({k \in 1 .. Abs(d) : (n * k) % Abs(d) = 0})
            IN  <<Sign(d) * ((n * least) \div Abs(d)), least>>
      BY <1>1, Zenon DEF Fraction
    <2>2. Fraction(n, d) = <<1 * ((n * Min(D)) \div d), Min(D)>>
      BY <1>1, <1>2, <2>1, Zenon
    <2>. QED
      BY <1>5, <1>7, <2>2
  <1>9. p * d = n * q
    <2>1. PICK x \in Int : x = n * q
      BY <1>6
    <2>2. x = d * (x \div d) + (x % d)
      BY <2>1, Parts
    <2>. QED
      BY <1>6, <1>7, <2>1, <2>2
  <1>10. ASSUME NEW k \in Nat \ {0}, NEW z \in Int, n * k = z * d PROVE q <= k
    <2>1. CASE k <= d
      <3>1. (n * k) % d = 0
        BY <1>10, Multiple
      <3>. QED
        BY <1>2, <1>5, <2>1, <3>1
    <2>2. CASE k > d
      BY <1>6, <2>2
    <2>. QED
      BY <2>1, <2>2
  <1>. QED
    BY <1>6, <1>8, <1>9, <1>10

\* The value is kept.
LEMMA FractionTerms ==
    ASSUME NEW n \in Int, NEW d \in Nat \ {0}
    PROVE  \E p \in Int, q \in Nat \ {0} : Fraction(n, d) = <<p, q>> /\ p * d = n * q
  <1>1. PICK p \in Int, q \in Nat \ {0} :
            /\ Fraction(n, d) = <<p, q>>
            /\ p * d = n * q
            /\ \A k \in Nat \ {0}, z \in Int : n * k = z * d => q <= k
    BY FractionIs
  <1>. QED
    BY <1>1

\* A number has one fraction.
LEMMA SameFraction ==
    ASSUME NEW n \in Int, NEW m \in Int, NEW d \in Nat \ {0}, NEW e \in Nat \ {0}, n * e = m * d
    PROVE  Fraction(n, d) = Fraction(m, e)
  <1>1. PICK p \in Int, q \in Nat \ {0} :
            /\ Fraction(n, d) = <<p, q>>
            /\ p * d = n * q
            /\ \A k \in Nat \ {0}, z \in Int : n * k = z * d => q <= k
    BY FractionIs
  <1>2. PICK u \in Int, v \in Nat \ {0} :
            /\ Fraction(m, e) = <<u, v>>
            /\ u * e = m * v
            /\ \A k \in Nat \ {0}, z \in Int : m * k = z * e => v <= k
    BY FractionIs
  <1>3. m * q = p * e
    BY <1>1, OtherForm
  <1>4. n * v = u * d
    BY <1>2, OtherForm
  <1>5. q = v
    BY <1>1, <1>2, <1>3, <1>4
  <1>6. p * d = u * d
    BY <1>1, <1>4, <1>5
  <1>7. p = u
    BY <1>6, Cancelled
  <1>. QED
    BY <1>1, <1>2, <1>5, <1>7

\* A fraction's sign is its numerator's.
LEMMA SignKept ==
    ASSUME NEW n \in Int, NEW d \in Nat \ {0}, NEW p \in Int, NEW q \in Nat \ {0}, p * d = n * q
    PROVE  p < 0 <=> n < 0
  <1>1. p < 0 <=> p * d < 0
    BY SMT
  <1>2. n < 0 <=> n * q < 0
    BY SMT
  <1>. QED
    BY <1>1, <1>2

\* The difference of two finite values.
LEMMA MinusIs ==
    ASSUME NEW x \in Int \X (Nat \ {0}), NEW y \in Int \X (Nat \ {0})
    PROVE  \E n \in Int, d \in Nat \ {0} :
              /\ Minus(x, y) = Fraction(n, d)
              /\ Less(x, y) <=> n < 0
  <1>1. PICK a \in Int, b \in Nat \ {0} : x = <<a, b>>
    OBVIOUS
  <1>2. PICK e \in Int, f \in Nat \ {0} : y = <<e, f>>
    OBVIOUS
  <1>3. a * f + (-e) * b \in Int /\ b * f \in Nat \ {0}
    BY SMT
  <1>4. Minus(x, y) = Fraction(a * f + (-e) * b, b * f)
    <2>1. PICK z : z = Negative(y)
      OBVIOUS
    <2>2. z[1] = -e /\ z[2] = f
      BY <1>2, <2>1 DEF Negative
    <2>3. x[1] = a /\ x[2] = b /\ b # 0
      BY <1>1
    <2>4. Plus(x, z) = Fraction(x[1] * z[2] + z[1] * x[2], x[2] * z[2])
      BY <2>3, Zenon DEF Plus
    <2>. QED
      BY <2>1, <2>2, <2>3, <2>4, Zenon DEF Minus
  <1>5. x # NaN /\ y # NaN
    BY <1>1, <1>2 DEF NaN
  <1>6. Less(x, y) <=> a * f < e * b
    <2>1. x[1] = a /\ x[2] = b /\ b # 0 /\ y[1] = e /\ y[2] = f
      BY <1>1, <1>2
    <2>2. Less(x, y) <=> x[1] * y[2] < y[1] * x[2]
      BY <1>5, <2>1, Zenon DEF Less
    <2>. QED
      BY <2>1, <2>2, Zenon
  <1>7. a * f < e * b <=> a * f + (-e) * b < 0
    BY SMT
  <1>. QED
    BY <1>3, <1>4, <1>6, <1>7

\* A rate per second, times the seconds, is the rise, or zero for a counter that fell.
LEMMA RateTimes ==
    ASSUME NEW from \in Int \X (Nat \ {0}), NEW to \in Int \X (Nat \ {0}), NEW s \in Nat \ {0}
    PROVE  Times(RatePerSecond(from, to, s), Number(s))
              = IF Less(to, from) THEN Zero ELSE Minus(to, from)
  <1>1. PICK n \in Int, d \in Nat \ {0} : Minus(to, from) = Fraction(n, d) /\ (Less(to, from) <=> n < 0)
    BY MinusIs
  <1>2. PICK p \in Int, q \in Nat \ {0} : Fraction(n, d) = <<p, q>> /\ p * d = n * q
    BY FractionTerms
  <1>3. PICK w \in Nat \ {0} : w = q * s
    BY SMT
  <1>4. PICK u \in Int, v \in Nat \ {0} : Fraction(p, w) = <<u, v>> /\ u * w = p * v
    BY FractionTerms
  <1>5. RatePerSecond(from, to, s) = IF Less(<<u, v>>, Zero) THEN Zero ELSE <<u, v>>
    BY <1>1, <1>2, <1>3, <1>4 DEF RatePerSecond
  <1>6. Less(<<u, v>>, Zero) <=> u < 0
    BY DEF Less, Zero, Number, NaN
  <1>7. u < 0 <=> n < 0
    BY <1>2, <1>3, <1>4, SignKept
  <1>8. CASE n < 0
    <2>1. RatePerSecond(from, to, s) = Zero
      BY <1>5, <1>6, <1>7, <1>8
    <2>2. Times(Zero, Number(s)) = Fraction(0 * s, 1 * 1)
      BY DEF Times, Zero, Number
    <2>3. Times(Zero, Number(s)) = Zero
      BY <2>2, WholeNumber DEF Zero
    <2>. QED
      BY <1>1, <1>8, <2>1, <2>3
  <1>9. CASE ~ (n < 0)
    <2>1. RatePerSecond(from, to, s) = <<u, v>>
      BY <1>5, <1>6, <1>7, <1>9
    <2>2. Times(<<u, v>>, Number(s)) = Fraction(u * s, v * 1)
      BY DEF Times, Number
    <2>3. u * s \in Int /\ v * 1 = v
      BY SMT
    <2>4. (u * s) * d = n * v
      <3>1. ((u * s) * d) * q = (u * (q * s)) * d
        BY SMT
      <3>2. (u * (q * s)) * d = (p * v) * d
        BY <1>3, <1>4
      <3>3. (p * v) * d = (p * d) * v
        BY SMT
      <3>4. (p * d) * v = (n * q) * v
        BY <1>2
      <3>5. (n * q) * v = (n * v) * q
        BY SMT
      <3>6. ((u * s) * d) * q = (n * v) * q
        BY <3>1, <3>2, <3>3, <3>4, <3>5
      <3>7. (u * s) * d \in Int /\ n * v \in Int
        BY SMT
      <3>. QED
        BY <3>6, <3>7, Cancelled
    <2>5. Fraction(u * s, v) = Fraction(n, d)
      BY <2>3, <2>4, SameFraction
    <2>. QED
      BY <1>1, <1>9, <2>1, <2>2, <2>3, <2>5
  <1>. QED
    BY <1>8, <1>9
-----------------------------------------------------------------------------
(***************************************************************************)
(* Rates.                                                                  *)
(***************************************************************************)
\* The first n places of times hold D, in order.
InOrder(times, n, D) ==
    /\ DOMAIN times = 1 .. n
    /\ \A i \in 1 .. n : times[i] \in D
    /\ \A t \in D : \E i \in 1 .. n : times[i] = t
    /\ \A i, j \in 1 .. n : i < j => times[i] < times[j]

\* Times take their rank's place.
LEMMA TimesInOrder ==
    ASSUME NEW points, NEW D, D = DOMAIN points, IsFiniteSet(D), D \subseteq Int
    PROVE  Cardinality(D) \in Nat /\ InOrder(SortedTimes(points), Cardinality(D), D)
  <1>1. PICK n \in Nat : n = Cardinality(D)
    BY FS_CardinalityType
  <1>. DEFINE upto(t) == {u \in D : u <= t}
              rank == [t \in D |-> Cardinality(upto(t))]
  <1>2. ASSUME NEW t \in D PROVE IsFiniteSet(upto(t)) /\ rank[t] \in 1 .. n
    <2>1. IsFiniteSet(upto(t)) /\ Cardinality(upto(t)) <= n
      BY <1>1, FS_Subset
    <2>2. t \in upto(t)
      OBVIOUS
    <2>3. Cardinality(upto(t)) \in Nat /\ Cardinality(upto(t)) # 0
      <3>. HIDE DEF upto
      <3>. QED
        BY <2>1, <2>2, FS_CardinalityType, FS_EmptySet
    <2>. HIDE DEF upto
    <2>. QED
      BY <2>1, <2>3
  <1>3. ASSUME NEW t \in D, NEW u \in D, t < u PROVE rank[t] < rank[u]
    <2>1. upto(t) \subseteq upto(u) /\ u \in upto(u) /\ u \notin upto(t)
      BY <1>3
    <2>2. IsFiniteSet(upto(u)) /\ rank[t] \in 1 .. n /\ rank[u] \in 1 .. n
      BY <1>2
    <2>3. rank[t] = Cardinality(upto(t)) /\ rank[u] = Cardinality(upto(u))
      OBVIOUS
    <2>. HIDE DEF upto, rank
    <2>4. Cardinality(upto(t)) <= Cardinality(upto(u)) /\ Cardinality(upto(u)) # Cardinality(upto(t))
      BY <2>1, <2>2, FS_Subset
    <2>. QED
      BY <2>2, <2>3, <2>4
  <1>4. \A t, u \in D : rank[t] = rank[u] => t = u
    <2>1. \A t, u \in D : rank[t] \in Int /\ rank[u] \in Int
      BY <1>2
    <2>. HIDE DEF rank
    <2>. QED
      BY <1>3, <2>1
  <1>5. \A i \in 1 .. n : \E t \in D : rank[t] = i
    <2>1. rank \in [D -> 1 .. n]
      BY <1>2
    <2>. HIDE DEF rank
    <2>2. rank \in Injection(D, 1 .. n)
      BY <1>4, <2>1 DEF Injection, IsInjective
    <2>3. IsFiniteSet(1 .. n) /\ Cardinality(1 .. n) = n
      BY FS_Interval
    <2>4. rank \in Surjection(D, 1 .. n)
      BY <1>1, <2>2, <2>3, FS_Injection
    <2>. QED
      BY <2>4 DEF Surjection
  <1>6. PICK times : times = SortedTimes(points)
    OBVIOUS
  <1>7. times = [i \in 1 .. n |-> CHOOSE t \in D : Cardinality(upto(t)) = i]
    BY <1>1, <1>6 DEF SortedTimes
  <1>8. ASSUME NEW i \in 1 .. n PROVE times[i] \in D /\ rank[times[i]] = i
    <2>1. times[i] = CHOOSE t \in D : Cardinality(upto(t)) = i
      BY <1>7
    <2>2. \E t \in D : Cardinality(upto(t)) = i
      BY <1>5
    <2>3. times[i] \in D /\ Cardinality(upto(times[i])) = i
      <3>. HIDE DEF upto
      <3>. QED
        BY <2>1, <2>2
    <2>. QED
      BY <2>3
  <1>11. DOMAIN times = 1 .. n
    BY <1>7
  <1>. HIDE DEF rank, upto
  <1>9. \A t \in D : \E i \in 1 .. n : times[i] = t
    BY <1>2, <1>4, <1>8
  <1>10. ASSUME NEW i \in 1 .. n, NEW j \in 1 .. n, i < j PROVE times[i] < times[j]
    <2>1. PICK t \in D, u \in D : t = times[i] /\ u = times[j] /\ rank[t] = i /\ rank[u] = j
      BY <1>8
    <2>2. ~ (u < t) /\ u # t
      BY <1>3, <1>10, <2>1
    <2>3. t \in Int /\ u \in Int
      OBVIOUS
    <2>. QED
      BY <2>1, <2>2, <2>3
  <1>. QED
    BY <1>1, <1>6, <1>8, <1>9, <1>10, <1>11 DEF InOrder

\* From a place, the start moves past every time before the window.
LEMMA AdvanceIs ==
    ASSUME NEW n \in Nat, NEW D \in SUBSET Int, NEW times, InOrder(times, n, D),
           NEW i \in 1 .. n, NEW from \in 1 .. i, NEW duration \in Nat \ {0}
    PROVE  /\ Advance(times, from, i, duration) \in from .. i
           /\ \A j \in from .. Advance(times, from, i, duration) - 1 : times[j + 1] < times[i] - duration
           /\ Advance(times, from, i, duration) < i =>
                times[Advance(times, from, i, duration) + 1] >= times[i] - duration
  <1>. DEFINE Fits(k) == /\ \A j \in from .. k - 1 : times[j + 1] < times[i] - duration
                         /\ k < i => times[k + 1] >= times[i] - duration
  <1>1. PICK C : C = {k \in from .. i : k = i \/ times[k + 1] >= times[i] - duration}
    OBVIOUS
  <1>2. i \in C /\ C \subseteq Int
    BY <1>1
  <1>3. IsFiniteSet(C)
    <2>1. IsFiniteSet(from .. i)
      BY FS_Interval
    <2>. QED
      BY <1>1, <2>1, FS_Subset
  <1>4. PICK k : k \in C /\ \A l \in C : k <= l
    BY <1>2, <1>3, LeastAndGreatest
  <1>5. k \in from .. i /\ (k < i => times[k + 1] >= times[i] - duration)
    BY <1>1, <1>4
  <1>6. ASSUME NEW j \in from .. k - 1 PROVE times[j + 1] < times[i] - duration
    <2>1. j \notin C /\ j \in from .. i /\ j # i
      BY <1>4, <1>5
    <2>2. ~ (times[j + 1] >= times[i] - duration)
      BY <1>1, <2>1
    <2>3. j + 1 \in 1 .. n
      BY <2>1
    <2>4. times[j + 1] \in Int /\ times[i] \in Int
      BY <2>3 DEF InOrder
    <2>. QED
      BY <2>2, <2>4
  <1>7. k \in from .. i /\ Fits(k)
    BY <1>5, <1>6
  <1>8. Advance(times, from, i, duration) = CHOOSE l \in from .. i : Fits(l)
    BY DEF Advance
  <1>. HIDE DEF Fits
  <1>9. PICK a : a = Advance(times, from, i, duration) /\ a \in from .. i /\ Fits(a)
    BY <1>7, <1>8
  <1>10. /\ a \in from .. i
         /\ \A j \in from .. a - 1 : times[j + 1] < times[i] - duration
         /\ a < i => times[a + 1] >= times[i] - duration
    BY <1>9 DEF Fits
  <1>. QED
    BY <1>9, <1>10

\* The two pointers, as an equation of a function.
Starts(g, times, duration) ==
    g = [i \in DOMAIN times |-> Advance(times, IF i = 1 THEN 1 ELSE g[i - 1], i, duration)]

\* The window's starts exist: the recursion over positions has a solution.
LEMMA StartsExist ==
    ASSUME NEW n \in Nat, NEW D \in SUBSET Int, NEW times, InOrder(times, n, D),
           NEW duration \in Nat \ {0}
    PROVE  Starts(startIdx(times, duration), times, duration)
  <1>1. PICK step : step = [x \in (1 .. n) \X Nat |->
            IF x[2] \in 1 .. x[1] THEN Advance(times, x[2], x[1], duration) ELSE 1]
    OBVIOUS
  <1>2. ASSUME NEW i \in 1 .. n, NEW from \in Nat
        PROVE  /\ step[<<i, from>>] \in Nat
               /\ from \in 1 .. i => /\ step[<<i, from>>] = Advance(times, from, i, duration)
                                     /\ step[<<i, from>>] \in from .. i
    <2>1. PICK x : x = <<i, from>>
      OBVIOUS
    <2>2. x \in (1 .. n) \X Nat /\ x[1] = i /\ x[2] = from
      BY <2>1
    <2>3. step[x] = IF x[2] \in 1 .. x[1] THEN Advance(times, x[2], x[1], duration) ELSE 1
      BY <1>1, <2>2
    <2>4. from \in 1 .. i => Advance(times, from, i, duration) \in from .. i
      BY AdvanceIs
    <2>. QED
      BY <2>1, <2>2, <2>3, <2>4
  <1>3. step \in [(1 .. n) \X Nat -> Nat]
    <2>1. \A x \in (1 .. n) \X Nat : step[x] \in Nat
      BY <1>2
    <2>. QED
      BY <1>1, <2>1
  <1>4. PICK g \in [1 .. n -> Nat] : Recurs(g, n, 1, step)
    BY <1>3, PositionsRecursion
  <1>5. \A i \in 1 .. n : g[i] = IF i = 1 THEN 1 ELSE step[<<i, g[i - 1]>>]
    BY <1>4 DEF Recurs
  <1>10. ASSUME NEW i \in 1 .. n, i = 1 PROVE g[i] = 1
    BY <1>5, <1>10
  <1>6. \A i \in 1 .. n : g[i] \in 1 .. i
    <2>. DEFINE T == {i \in Nat : i \in 1 .. n => g[i] \in 1 .. i}
    <2>1. 0 \in T
      OBVIOUS
    <2>2. ASSUME NEW i \in Nat, i \in T PROVE i + 1 \in T
      <3>. SUFFICES ASSUME i + 1 \in 1 .. n PROVE g[i + 1] \in 1 .. i + 1
        OBVIOUS
      <3>0. PICK m \in 1 .. n : m = i + 1
        OBVIOUS
      <3>1. CASE i = 0
        <4>1. m = 1 /\ g[m] = 1
          BY <1>10, <3>0, <3>1
        <4>. QED
          BY <3>0, <3>1, <4>1
      <3>2. CASE i # 0
        <4>1. PICK c \in 1 .. i : c = g[i]
          BY <2>2, <3>2
        <4>2. g[m] = step[<<m, c>>]
          BY <1>5, <3>0, <3>2, <4>1
        <4>3. c \in 1 .. m /\ c \in Nat
          BY <3>0
        <4>4. step[<<m, c>>] \in c .. m
          BY <1>2, <4>3
        <4>. QED
          BY <3>0, <4>2, <4>4
      <3>. QED
        BY <3>1, <3>2
    <2>3. Nat \subseteq T
      <3>. HIDE DEF T
      <3>. QED
        BY <2>1, <2>2, SetInduction
    <2>. QED
      BY <2>3
  <1>7. ASSUME NEW i \in 1 .. n
        PROVE  g[i] = Advance(times, IF i = 1 THEN 1 ELSE g[i - 1], i, duration)
    <2>1. CASE i = 1
      <3>1. Advance(times, 1, 1, duration) \in 1 .. 1
        <4>1. 1 \in 1 .. n /\ 1 \in 1 .. 1
          BY <2>1
        <4>2. step[<<1, 1>>] = Advance(times, 1, 1, duration) /\ step[<<1, 1>>] \in 1 .. 1
          BY <1>2, <4>1
        <4>. QED
          BY <4>2
      <3>2. g[i] = 1
        BY <1>10, <2>1
      <3>3. Advance(times, 1, 1, duration) = 1
        BY <3>1
      <3>4. Advance(times, IF i = 1 THEN 1 ELSE g[i - 1], i, duration) = Advance(times, 1, 1, duration)
        BY <2>1
      <3>. QED
        BY <3>2, <3>3, <3>4
    <2>2. CASE i # 1
      <3>1. i - 1 \in 1 .. n
        BY <2>2
      <3>2. PICK c \in 1 .. i : c = g[i - 1]
        BY <1>6, <3>1
      <3>3. step[<<i, c>>] = Advance(times, c, i, duration)
        BY <1>2
      <3>. QED
        BY <1>5, <2>2, <3>2, <3>3
    <2>. QED
      BY <2>1, <2>2
  <1>8. Starts(g, times, duration)
    <2>1. g = [i \in 1 .. n |-> g[i]]
      OBVIOUS
    <2>2. DOMAIN times = 1 .. n
      BY DEF InOrder
    <2>. QED
      BY <1>7, <2>1, <2>2 DEF Starts
  <1>9. startIdx(times, duration) = CHOOSE h : Starts(h, times, duration)
    BY DEF startIdx, Starts
  <1>. QED
    BY <1>8, <1>9

\* The window's start is the last time before the window, or the first time of all.
LEMMA StartsAre ==
    ASSUME NEW n \in Nat, NEW D \in SUBSET Int, NEW times, InOrder(times, n, D),
           NEW duration \in Nat \ {0}, NEW start, start = startIdx(times, duration)
    PROVE  \A i \in 1 .. n :
              /\ start[i] \in 1 .. i
              /\ start[i] < i => times[start[i] + 1] >= times[i] - duration
              /\ start[i] = 1 \/ times[start[i]] < times[i] - duration
  <1>. DEFINE Fits(i) == /\ start[i] \in 1 .. i
                         /\ start[i] < i => times[start[i] + 1] >= times[i] - duration
                         /\ start[i] = 1 \/ times[start[i]] < times[i] - duration
              T == {i \in Nat : i \in 1 .. n => Fits(i)}
  <1>1. DOMAIN times = 1 .. n /\ \A i \in 1 .. n : times[i] \in Int
    BY DEF InOrder
  <1>2. \A i \in 1 .. n : start[i] = Advance(times, IF i = 1 THEN 1 ELSE start[i - 1], i, duration)
    BY <1>1, StartsExist DEF Starts
  <1>3. 0 \in T
    OBVIOUS
  <1>4. ASSUME NEW m \in Nat, m \in T PROVE m + 1 \in T
    <2>. SUFFICES ASSUME m + 1 \in 1 .. n PROVE Fits(m + 1)
      OBVIOUS
    <2>1. PICK i \in 1 .. n : i = m + 1
      OBVIOUS
    <2>2. PICK from \in 1 .. i : /\ from = IF i = 1 THEN 1 ELSE start[i - 1]
                                 /\ from = 1 \/ times[from] < times[i] - duration
      <3>1. CASE m = 0
        BY <2>1, <3>1
      <3>2. CASE m # 0
        <4>1. Fits(m) /\ m \in 1 .. n /\ i - 1 = m
          BY <1>4, <2>1, <3>2
        <4>2. times[m] < times[i]
          BY <2>1, <4>1 DEF InOrder
        <4>3. PICK c \in 1 .. m : c = start[m] /\ (c = 1 \/ times[c] < times[m] - duration)
          BY <4>1
        <4>4. c \in 1 .. n /\ times[c] \in Int /\ times[m] \in Int /\ times[i] \in Int
          BY <1>1, <4>1
        <4>5. c = 1 \/ times[c] < times[i] - duration
          BY <4>2, <4>3, <4>4
        <4>6. c \in 1 .. i /\ i # 1
          BY <2>1, <3>2
        <4>. QED
          BY <4>1, <4>3, <4>5, <4>6
      <3>. QED
        BY <3>1, <3>2
    <2>3. PICK k : k = start[i] /\ k = Advance(times, from, i, duration)
      BY <1>2, <2>2
    <2>4. /\ k \in from .. i
          /\ \A j \in from .. k - 1 : times[j + 1] < times[i] - duration
          /\ k < i => times[k + 1] >= times[i] - duration
      BY <2>3, AdvanceIs
    <2>5. k = 1 \/ times[k] < times[i] - duration
      <3>1. CASE k = from
        BY <2>2, <3>1
      <3>2. CASE k # from
        <4>1. k - 1 \in from .. k - 1 /\ (k - 1) + 1 = k
          BY <2>4, <3>2
        <4>. QED
          BY <2>4, <4>1
      <3>. QED
        BY <3>1, <3>2
    <2>. QED
      BY <2>1, <2>3, <2>4, <2>5
  <1>5. Nat \subseteq T
    <2>. HIDE DEF T
    <2>. QED
      BY <1>3, <1>4, SetInduction
  <1>. QED
    BY <1>5

\* The time b is the last of D before the window that ends at t or, when there is none,
\* the window's start.
Spans(D, t, b, duration) ==
    /\ b <= t - duration
    /\ \A u \in D : u < t - duration => u <= b /\ b < t - duration

\* A rate has a point where there is a time before the window or at its start, and it is
\* taken from the last time before it.
LEMMA RatedPoints ==
    ASSUME NEW points, NEW D \in SUBSET Int, D = DOMAIN points, IsFiniteSet(D),
           NEW duration \in Nat \ {0}, NEW r, r = RatePoints(points, duration)
    PROVE  /\ \A t : t \in DOMAIN r <=> t \in D /\ \E b \in D : Spans(D, t, b, duration)
           /\ \A t \in DOMAIN r : \E b \in D :
                Spans(D, t, b, duration) /\ r[t] = RatePerSecond(points[b], points[t], duration)
  <1>1. PICK n, times : n = Cardinality(D) /\ times = SortedTimes(points)
    OBVIOUS
  <1>2. n \in Nat /\ InOrder(times, n, D)
    BY <1>1, TimesInOrder
  <1>3. PICK start : start = startIdx(times, duration)
    OBVIOUS
  <1>4. \A i \in 1 .. n :
            /\ start[i] \in 1 .. i
            /\ start[i] < i => times[start[i] + 1] >= times[i] - duration
            /\ start[i] = 1 \/ times[start[i]] < times[i] - duration
    BY <1>2, <1>3, StartsAre
  <1>5. /\ DOMAIN times = 1 .. n
        /\ \A i \in 1 .. n : times[i] \in D /\ times[i] \in Int
        /\ \A t \in D : \E i \in 1 .. n : times[i] = t
        /\ \A i, j \in 1 .. n : i < j => times[i] < times[j]
    BY <1>2 DEF InOrder
  <1>6. PICK rated : rated = {i \in 1 .. n : start[i] < i /\ times[start[i]] <= times[i] - duration}
    OBVIOUS
  <1>. DEFINE index(t) == CHOOSE i \in rated : times[i] = t
  <1>7. r = [t \in {times[i] : i \in rated} |->
                RatePerSecond(points[times[start[index(t)]]], points[t], duration)]
    BY <1>1, <1>3, <1>5, <1>6 DEF RatePoints
  <1>8. \A i, j \in 1 .. n : times[i] = times[j] => i = j
    <2>. SUFFICES ASSUME NEW i \in 1 .. n, NEW j \in 1 .. n, times[i] = times[j], i # j PROVE FALSE
      OBVIOUS
    <2>1. i < j \/ j < i
      OBVIOUS
    <2>2. times[i] < times[j] \/ times[j] < times[i]
      BY <1>5, <2>1
    <2>. QED
      BY <1>5, <2>2
  <1>9. ASSUME NEW i \in rated
        PROVE  /\ i \in 1 .. n /\ start[i] \in 1 .. n
               /\ Spans(D, times[i], times[start[i]], duration)
               /\ index(times[i]) = i
    <2>2. i \in 1 .. n
      BY <1>6
    <2>1. PICK k \in 1 .. n : k = start[i] /\ k < i /\ times[k] <= times[i] - duration
                              /\ times[k + 1] >= times[i] - duration
      <3>1. start[i] < i /\ times[start[i]] <= times[i] - duration
        BY <1>6
      <3>2. start[i] \in 1 .. i /\ times[start[i] + 1] >= times[i] - duration
        BY <1>4, <2>2, <3>1
      <3>. QED
        BY <1>2, <2>2, <3>1, <3>2
    <2>6. ASSUME NEW u \in D, times[k] < u, u < times[i] - duration PROVE FALSE
      <3>1. PICK j \in 1 .. n : times[j] = u
        BY <1>5
      <3>2. ~ (j < k) /\ j # k
        <4>1. times[j] \in Int /\ times[k] \in Int /\ (j < k => times[j] < times[k])
          BY <1>5, <3>1
        <4>2. times[k] < times[j]
          BY <2>6, <3>1
        <4>. QED
          BY <4>1, <4>2
      <3>3. k + 1 \in 1 .. n /\ (k + 1 = j \/ k + 1 < j)
        BY <1>2, <2>1, <2>2, <3>2
      <3>4. times[k + 1] <= times[j]
        BY <1>5, <3>3
      <3>5. times[k + 1] \in Int /\ times[j] \in Int /\ times[i] \in Int
        BY <1>5, <2>2, <3>3
      <3>. QED
        BY <2>1, <2>6, <3>1, <3>4, <3>5
    <2>3. ASSUME NEW u \in D, u < times[i] - duration
          PROVE  u <= times[k] /\ times[k] < times[i] - duration
      <3>1. u \in Int /\ times[k] \in Int /\ times[i] \in Int
        BY <1>5, <2>2
      <3>2. u <= times[k]
        BY <2>3, <2>6, <3>1
      <3>3. times[k] < times[i] - duration
        <4>1. CASE k = 1
          <5>1. PICK j \in 1 .. n : times[j] = u
            BY <1>5
          <5>2. 1 \in 1 .. n /\ (j = 1 \/ 1 < j)
            BY <1>2
          <5>3. times[1] <= u
            BY <1>5, <3>1, <4>1, <5>1, <5>2
          <5>. QED
            BY <2>3, <3>1, <4>1, <5>3
        <4>2. CASE k # 1
          BY <1>4, <2>1, <2>2, <4>2
        <4>. QED
          BY <4>1, <4>2
      <3>. QED
        BY <3>2, <3>3
    <2>4. Spans(D, times[i], times[k], duration)
      BY <2>1, <2>3 DEF Spans
    <2>5. index(times[i]) = i
      <3>1. \E j \in rated : times[j] = times[i]
        OBVIOUS
      <3>2. index(times[i]) \in rated /\ times[index(times[i])] = times[i]
        BY <3>1
      <3>. HIDE DEF index
      <3>. QED
        BY <1>6, <1>8, <2>2, <3>2
    <2>. QED
      BY <2>1, <2>2, <2>4, <2>5
  <1>10. ASSUME NEW t \in D, NEW b \in D, Spans(D, t, b, duration) PROVE \E i \in rated : times[i] = t
    <2>1. PICK i \in 1 .. n, j \in 1 .. n : times[i] = t /\ times[j] = b
      BY <1>5
    <2>2. times[j] <= times[i] - duration /\ times[i] \in Int /\ times[j] \in Int
      BY <1>5, <1>10, <2>1 DEF Spans
    <2>3. times[j] < times[i]
      BY <2>2
    <2>4. j < i
      <3>. SUFFICES ASSUME ~ (j < i) PROVE FALSE
        OBVIOUS
      <3>1. i = j \/ i < j
        OBVIOUS
      <3>2. times[i] = times[j] \/ times[i] < times[j]
        BY <1>5, <3>1
      <3>. QED
        BY <2>2, <2>3, <3>2
    <2>5. PICK k \in 1 .. i : k = start[i] /\ (k = 1 \/ times[k] < times[i] - duration)
      BY <1>4
    <2>6. k < i /\ times[k] <= times[i] - duration
      <3>1. CASE k = 1
        <4>1. 1 \in 1 .. n /\ (1 = j \/ 1 < j)
          BY <1>2
        <4>2. times[1] <= times[j] /\ times[1] \in Int
          BY <1>5, <2>2, <4>1
        <4>. QED
          BY <2>2, <2>4, <3>1, <4>2
      <3>2. CASE times[k] < times[i] - duration
        <4>0. k \in 1 .. n
          BY <1>2
        <4>1. k \in 1 .. n /\ times[k] \in Int
          BY <1>5, <4>0
        <4>2. times[k] < times[i]
          BY <2>2, <3>2, <4>1
        <4>3. k # i
          BY <2>2, <4>2
        <4>. QED
          BY <2>2, <3>2, <4>1, <4>3
      <3>. QED
        BY <2>5, <3>1, <3>2
    <2>. QED
      BY <1>6, <2>1, <2>5, <2>6
  <1>. HIDE DEF index
  <1>11. DOMAIN r = {times[i] : i \in rated}
    BY <1>7
  <1>12. ASSUME NEW t PROVE t \in DOMAIN r <=> t \in D /\ \E b \in D : Spans(D, t, b, duration)
    <2>1. ASSUME t \in DOMAIN r PROVE t \in D /\ \E b \in D : Spans(D, t, b, duration)
      <3>1. PICK i \in rated : t = times[i]
        BY <1>11, <2>1
      <3>2. times[start[i]] \in D /\ times[i] \in D /\ Spans(D, times[i], times[start[i]], duration)
        BY <1>5, <1>9
      <3>. QED
        BY <3>1, <3>2
    <2>. QED
      BY <1>10, <1>11, <2>1
  <1>13. ASSUME NEW t \in DOMAIN r
         PROVE  \E b \in D : Spans(D, t, b, duration) /\ r[t] = RatePerSecond(points[b], points[t], duration)
    <2>1. PICK i \in rated : t = times[i]
      BY <1>11
    <2>2. times[start[i]] \in D /\ Spans(D, times[i], times[start[i]], duration) /\ index(times[i]) = i
      BY <1>5, <1>9
    <2>3. r[t] = RatePerSecond(points[times[start[index(t)]]], points[t], duration)
      BY <1>7, <1>11
    <2>. QED
      BY <2>1, <2>2, <2>3
  <1>. QED
    BY <1>12, <1>13

\* The same of samples.
SpansSamples(ms, m, b, duration) ==
    /\ b.time <= m.time - duration
    /\ \A n \in ms : n.time < m.time - duration =>
            n.time <= b.time /\ b.time < m.time - duration

\* What RatesSpanTheWindow says of the points of an answer, when they, or they times the
\* seconds, are the rises of the samples.
RisesOver(ms, duration, r, perSecond) ==
    /\ DOMAIN r = {m.time : m \in {n \in ms : \E b \in ms : SpansSamples(ms, n, b, duration)}}
    /\ \A m \in ms : m.time \in DOMAIN r => \E b \in ms :
        /\ SpansSamples(ms, m, b, duration)
        /\ (IF perSecond THEN Times(r[m.time], Number(duration)) ELSE r[m.time])
                = IF Less(m.value, b.value) THEN Zero ELSE Minus(m.value, b.value)

\* A rate of a series compares its samples, and has the rise between them per second.
LEMMA RatesOfSamples ==
    ASSUME NEW found \in SUBSET Samples, OneName(found), Plain(found),
           NEW duration \in Nat \ {0}, NEW s \in SeriesOf(found),
           NEW ms, ms = {m \in found : m.labels = s.labels},
           NEW r, r = RatePoints(s.points, duration)
    PROVE  RisesOver(ms, duration, r, TRUE)
  <1>1. PICK D : D = {m.time : m \in ms}
    OBVIOUS
  <1>2. /\ DOMAIN s.points = D
        /\ \A m \in ms : s.points[m.time] = m.value
    BY <1>1, PlainSeries
  <1>3. \A m \in ms : m.time \in Int /\ m.value \in Int \X (Nat \ {0})
    BY SampleConstants DEF Samples
  <1>4. IsFiniteSet(D) /\ D \in SUBSET Int
    <2>1. IsFiniteSet(ms)
      <3>1. IsFiniteSet(found)
        BY SamplesFiniteSet
      <3>. QED
        BY <3>1, FS_Subset
    <2>2. IsFiniteSet(D)
      BY <1>1, <2>1, SeriesFinite
    <2>. QED
      BY <1>1, <1>3, <2>2
  <1>5. /\ \A t : t \in DOMAIN r <=> t \in D /\ \E b \in D : Spans(D, t, b, duration)
        /\ \A t \in DOMAIN r : \E b \in D :
              Spans(D, t, b, duration) /\ r[t] = RatePerSecond(s.points[b], s.points[t], duration)
    BY <1>2, <1>4, RatedPoints
  <1>6. \A m, b \in ms : Spans(D, m.time, b.time, duration) <=> SpansSamples(ms, m, b, duration)
    BY <1>1 DEF Spans, SpansSamples
  <1>7. ASSUME NEW t
        PROVE  t \in DOMAIN r <=> \E m \in ms : m.time = t /\ \E b \in ms : SpansSamples(ms, m, b, duration)
    <2>1. ASSUME t \in DOMAIN r
          PROVE  \E m \in ms : m.time = t /\ \E b \in ms : SpansSamples(ms, m, b, duration)
      <3>1. t \in D /\ \E x \in D : Spans(D, t, x, duration)
        BY <1>5, <2>1
      <3>2. PICK m \in ms, b \in ms : m.time = t /\ Spans(D, t, b.time, duration)
        BY <1>1, <3>1
      <3>. QED
        BY <1>6, <3>2
    <2>2. ASSUME NEW m \in ms, NEW b \in ms, m.time = t, SpansSamples(ms, m, b, duration)
          PROVE  t \in DOMAIN r
      <3>1. t \in D /\ b.time \in D /\ Spans(D, t, b.time, duration)
        BY <1>1, <1>6, <2>2
      <3>. QED
        BY <1>5, <3>1
    <2>. QED
      BY <2>1, <2>2
  <1>8. ASSUME NEW m \in ms, m.time \in DOMAIN r
        PROVE  \E b \in ms :
                  /\ SpansSamples(ms, m, b, duration)
                  /\ Times(r[m.time], Number(duration))
                        = IF Less(m.value, b.value) THEN Zero ELSE Minus(m.value, b.value)
    <2>1. PICK x \in D : /\ Spans(D, m.time, x, duration)
                         /\ r[m.time] = RatePerSecond(s.points[x], s.points[m.time], duration)
      BY <1>5, <1>8
    <2>2. PICK b \in ms : b.time = x
      BY <1>1
    <2>3. r[m.time] = RatePerSecond(b.value, m.value, duration)
      BY <1>2, <2>1, <2>2
    <2>4. SpansSamples(ms, m, b, duration)
      BY <1>6, <2>1, <2>2
    <2>5. Times(RatePerSecond(b.value, m.value, duration), Number(duration))
              = IF Less(m.value, b.value) THEN Zero ELSE Minus(m.value, b.value)
      BY <1>3, RateTimes
    <2>. QED
      BY <2>3, <2>4, <2>5
  <1>9. DOMAIN r = {m.time : m \in {n \in ms : \E b \in ms : SpansSamples(ms, n, b, duration)}}
    BY <1>7
  <1>. QED
    BY <1>8, <1>9 DEF RisesOver

\* The same of a series of an answer.
SpansTheWindow(found, s, duration, perSecond) ==
    RisesOver({m \in found : m.labels = s.labels}, duration, s.points, perSecond)

\* An increase is the rate times the seconds.
LEMMA RatesTimesSeconds ==
    ASSUME NEW ms, NEW duration, NEW r, RisesOver(ms, duration, r, TRUE),
           NEW p, p = [t \in DOMAIN r |-> Times(r[t], Number(duration))]
    PROVE  RisesOver(ms, duration, p, FALSE)
  <1>1. DOMAIN p = {m.time : m \in {n \in ms : \E b \in ms : SpansSamples(ms, n, b, duration)}}
    <2>1. DOMAIN p = DOMAIN r
      OBVIOUS
    <2>2. DOMAIN r = {m.time : m \in {n \in ms : \E b \in ms : SpansSamples(ms, n, b, duration)}}
      BY DEF RisesOver
    <2>. QED
      BY <2>1, <2>2
  <1>2. ASSUME NEW m \in ms, m.time \in DOMAIN p
        PROVE  \E b \in ms :
                  /\ SpansSamples(ms, m, b, duration)
                  /\ p[m.time] = IF Less(m.value, b.value) THEN Zero ELSE Minus(m.value, b.value)
    <2>1. PICK b \in ms :
              /\ SpansSamples(ms, m, b, duration)
              /\ Times(r[m.time], Number(duration))
                      = IF Less(m.value, b.value) THEN Zero ELSE Minus(m.value, b.value)
      BY <1>2 DEF RisesOver
    <2>2. p[m.time] = Times(r[m.time], Number(duration))
      BY <1>2
    <2>. QED
      BY <2>1, <2>2
  <1>. QED
    BY <1>1, <1>2 DEF RisesOver

\* Rates and increases span the window.
LEMMA RateAnswers ==
    ASSUME NEW found \in SUBSET Samples, OneName(found), Plain(found), NEW duration \in Nat \ {0}
    PROVE  /\ \A s \in Rate(SeriesOf(found), duration) : SpansTheWindow(found, s, duration, TRUE)
           /\ \A s \in Increase(SeriesOf(found), duration) : SpansTheWindow(found, s, duration, FALSE)
  <1>1. ASSUME NEW s \in SeriesOf(found), NEW o, o = Series(s.labels, RatePoints(s.points, duration))
        PROVE  SpansTheWindow(found, o, duration, TRUE)
    <2>1. PICK ms : ms = {m \in found : m.labels = s.labels}
      OBVIOUS
    <2>2. PICK r : r = RatePoints(s.points, duration)
      OBVIOUS
    <2>3. RisesOver(ms, duration, r, TRUE)
      BY <2>1, <2>2, RatesOfSamples
    <2>4. o.labels = s.labels /\ o.points = r
      BY <1>1, <2>2 DEF Series
    <2>5. {m \in found : m.labels = o.labels} = ms
      BY <2>1, <2>4
    <2>. QED
      BY <2>3, <2>4, <2>5 DEF SpansTheWindow
  <1>2. ASSUME NEW o \in Rate(SeriesOf(found), duration) PROVE SpansTheWindow(found, o, duration, TRUE)
    <2>1. PICK s \in SeriesOf(found) : o = Series(s.labels, RatePoints(s.points, duration))
      BY <1>2 DEF Rate
    <2>. QED
      BY <1>1, <2>1
  <1>3. ASSUME NEW p \in Increase(SeriesOf(found), duration)
        PROVE  SpansTheWindow(found, p, duration, FALSE)
    <2>1. PICK o \in Rate(SeriesOf(found), duration) :
              p = Series(o.labels, [t \in DOMAIN o.points |-> Times(o.points[t], Number(duration))])
      BY <1>3 DEF Increase, EachPoint
    <2>2. p.labels = o.labels
      BY <2>1 DEF Series
    <2>3. p.points = [t \in DOMAIN o.points |-> Times(o.points[t], Number(duration))]
      BY <2>1 DEF Series
    <2>4. RisesOver({m \in found : m.labels = o.labels}, duration, o.points, TRUE)
      BY <1>2 DEF SpansTheWindow
    <2>5. RisesOver({m \in found : m.labels = o.labels}, duration, p.points, FALSE)
      BY <2>3, <2>4, RatesTimesSeconds
    <2>. QED
      BY <2>2, <2>5 DEF SpansTheWindow
  <1>. QED
    BY <1>2, <1>3

\* In every state, an answered rate or increase has a point exactly where some sample is
\* the whole duration older, takes the rise from the last sample before the window or,
\* when there is none, from the one at its start, and does not take a counter that was
\* reset for one that went on.
THEOREM RatesSpan ==
    ASSUME Evaluates
    PROVE  Spec => []RatesSpanTheWindow
  <1>1. IInv /\ AInv => RatesSpanTheWindow
    <2>. SUFFICES ASSUME IInv, AInv, NEW r \in Requests, Answered(r, {"execute", "range"}),
                         query[r].expr.kind = "call",
                         query[r].expr.args[1].duration \in Nat \ {0}, Plain(founds[r][1]),
                         NEW s \in response[r].data
                  PROVE  SpansTheWindow(founds[r][1], s, query[r].expr.args[1].duration,
                                        query[r].expr.name = "rate")
      BY DEF RatesSpanTheWindow, RateAnswered, Seconds, Behind, IsRise, SpansTheWindow,
             RisesOver, SpansSamples
    <2>1. PICK f, found, e : f = founds[r] /\ found = founds[r][1] /\ e = query[r].expr
      OBVIOUS
    <2>2. PICK d : d = e.args[1].duration
      OBVIOUS
    <2>3. /\ Outcome(r).kind = "value" /\ response[r].data = Outcome(r).result
          /\ f # << >> => Head(f) = found /\ found \in SUBSET Samples /\ OneName(found)
      BY <2>1, AnswerOf
    <2>4. Outcome(r) = Evaluate(e, query[r], f)
      BY <2>1 DEF Outcome
    <2>5. /\ f # << >>
          /\ \/ e.name = "rate" /\ Outcome(r).result = Rate(SeriesOf(Head(f)), d)
             \/ e.name = "increase" /\ Outcome(r).result = Increase(SeriesOf(Head(f)), d)
      BY <2>1, <2>2, <2>3, <2>4, CallOutcome
    <2>6. found \in SUBSET Samples /\ OneName(found) /\ Plain(found) /\ d \in Nat \ {0}
      BY <2>1, <2>2, <2>3, <2>5
    <2>7. CASE e.name = "rate"
      <3>1. s \in Rate(SeriesOf(found), d)
        BY <2>3, <2>5, <2>7
      <3>2. SpansTheWindow(found, s, d, TRUE)
        BY <2>6, <3>1, RateAnswers
      <3>. QED
        BY <2>1, <2>2, <2>7, <3>2
    <2>8. CASE e.name = "increase"
      <3>1. s \in Increase(SeriesOf(found), d)
        BY <2>3, <2>5, <2>8
      <3>2. SpansTheWindow(found, s, d, FALSE)
        BY <2>6, <3>1, RateAnswers
      <3>. QED
        BY <2>1, <2>2, <2>8, <3>2
    <2>. QED
      BY <2>5, <2>7, <2>8
  <1>. QED
    BY <1>1, InvariantHolds, InvariantIsKept, AnswersKept, PTL DEF Spec
-----------------------------------------------------------------------------
(***************************************************************************)
(* Totals.  Adding finite values in any order gives the same.              *)
(***************************************************************************)
FiniteValues == Int \X (Nat \ {0})

Lowest(x) == x \in FiniteValues /\ x = Fraction(x[1], x[2])

\* A fraction in its lowest terms is its own.
LEMMA FractionLowest ==
    ASSUME NEW n \in Int, NEW d \in Nat \ {0}
    PROVE  Lowest(Fraction(n, d))
  <1>1. PICK p \in Int, q \in Nat \ {0} : Fraction(n, d) = <<p, q>> /\ p * d = n * q
    BY FractionTerms
  <1>2. Fraction(p, q) = Fraction(n, d)
    BY <1>1, SameFraction
  <1>3. PICK x : x = Fraction(n, d)
    OBVIOUS
  <1>4. x = <<p, q>> /\ x[1] = p /\ x[2] = q /\ Fraction(p, q) = x
    BY <1>1, <1>2, <1>3
  <1>5. x \in FiniteValues
    BY <1>4 DEF FiniteValues
  <1>. QED
    BY <1>3, <1>4, <1>5 DEF Lowest

\* The sum of two finite values, as a fraction.
LEMMA PlusIs ==
    ASSUME NEW a \in Int, NEW b \in Nat \ {0}, NEW e \in Int, NEW f \in Nat \ {0}
    PROVE  /\ Plus(<<a, b>>, <<e, f>>) = Fraction(a * f + e * b, b * f)
           /\ a * f + e * b \in Int /\ b * f \in Nat \ {0}
  <1>1. a * f + e * b \in Int /\ b * f \in Nat \ {0}
    BY SMT
  <1>2. PICK x, y : x = <<a, b>> /\ y = <<e, f>>
    OBVIOUS
  <1>3. x[1] = a /\ x[2] = b /\ y[1] = e /\ y[2] = f /\ b # 0
    BY <1>2
  <1>4. Plus(x, y) = Fraction(x[1] * y[2] + y[1] * x[2], x[2] * y[2])
    BY <1>3, Zenon DEF Plus
  <1>. QED
    BY <1>1, <1>2, <1>3, <1>4, Zenon

\* A sum is finite, and in its lowest terms.
LEMMA PlusLowest ==
    ASSUME NEW x \in FiniteValues, NEW y \in FiniteValues
    PROVE  Lowest(Plus(x, y)) /\ Plus(x, y) \in FiniteValues
  <1>1. PICK a \in Int, b \in Nat \ {0}, e \in Int, f \in Nat \ {0} : x = <<a, b>> /\ y = <<e, f>>
    BY DEF FiniteValues
  <1>2. Lowest(Plus(x, y))
    BY <1>1, PlusIs, FractionLowest
  <1>. QED
    BY <1>2 DEF Lowest

\* The sum of three values.
LEMMA PlusThree ==
    ASSUME NEW a \in Int, NEW b \in Nat \ {0}, NEW c \in Int, NEW d \in Nat \ {0},
           NEW e \in Int, NEW f \in Nat \ {0}
    PROVE  Plus(Plus(<<a, b>>, <<c, d>>), <<e, f>>)
              = Fraction((a * d + c * b) * f + e * (b * d), (b * d) * f)
  <1>1. PICK n \in Int, m \in Nat \ {0} : n = a * d + c * b /\ m = b * d
    BY PlusIs
  <1>2. Plus(<<a, b>>, <<c, d>>) = Fraction(n, m)
    BY <1>1, PlusIs
  <1>3. PICK p \in Int, q \in Nat \ {0} : Fraction(n, m) = <<p, q>> /\ p * m = n * q
    BY FractionTerms
  <1>4. /\ Plus(<<p, q>>, <<e, f>>) = Fraction(p * f + e * q, q * f)
        /\ p * f + e * q \in Int /\ q * f \in Nat \ {0}
    BY PlusIs
  <1>5. n * f + e * m \in Int /\ m * f \in Nat \ {0}
    BY PlusIs
  <1>6. (p * f + e * q) * (m * f) = (n * f + e * m) * (q * f)
    <2>1. (p * f + e * q) * (m * f) = (p * m) * (f * f) + (e * q) * (m * f)
      BY SMT
    <2>2. (n * f + e * m) * (q * f) = (n * q) * (f * f) + (e * q) * (m * f)
      BY SMT
    <2>. QED
      BY <1>3, <2>1, <2>2
  <1>7. Fraction(p * f + e * q, q * f) = Fraction(n * f + e * m, m * f)
    BY <1>4, <1>5, <1>6, SameFraction
  <1>. QED
    BY <1>1, <1>2, <1>3, <1>4, <1>7

\* Of two values, either can be added first.
LEMMA PlusEither ==
    ASSUME NEW x \in FiniteValues, NEW y \in FiniteValues, NEW z \in FiniteValues
    PROVE  Plus(Plus(x, y), z) = Plus(Plus(x, z), y)
  <1>1. PICK a \in Int, b \in Nat \ {0}, c \in Int, d \in Nat \ {0}, e \in Int, f \in Nat \ {0} :
            x = <<a, b>> /\ y = <<c, d>> /\ z = <<e, f>>
    BY DEF FiniteValues
  <1>2. (a * d + c * b) * f + e * (b * d) = (a * f + e * b) * d + c * (b * f)
    BY SMT
  <1>3. (b * d) * f = (b * f) * d
    BY SMT
  <1>. QED
    BY <1>1, <1>2, <1>3, PlusThree

\* Nothing and a value make the value.
LEMMA ZeroPlus ==
    ASSUME NEW x, Lowest(x)
    PROVE  Plus(Zero, x) = x
  <1>1. PICK a \in Int, b \in Nat \ {0} : x = <<a, b>> /\ x = Fraction(a, b)
    BY DEF Lowest, FiniteValues
  <1>2. Plus(<<0, 1>>, <<a, b>>) = Fraction(0 * b + a * 1, 1 * b)
    BY PlusIs
  <1>3. 0 * b + a * 1 = a /\ 1 * b = b
    BY SMT
  <1>. QED
    BY <1>1, <1>2, <1>3 DEF Zero, Number

\* An average, times the number of values, is their total.
LEMMA OverTimes ==
    ASSUME NEW x, Lowest(x), NEW n \in Nat \ {0}
    PROVE  Times(Over(x, Number(n)), Number(n)) = x
  <1>1. PICK p \in Int, q \in Nat \ {0} : x = <<p, q>> /\ x = Fraction(p, q)
    BY DEF Lowest, FiniteValues
  <1>2. PICK w \in Nat \ {0} : w = q * n
    BY SMT
  <1>3. PICK u \in Int, v \in Nat \ {0} : Fraction(p, w) = <<u, v>> /\ u * w = p * v
    BY FractionTerms
  <1>4. Over(<<p, q>>, <<n, 1>>) = Fraction(p * 1 * Sign(n), q * Abs(n))
    BY DEF Over
  <1>5. Sign(n) = 1 /\ Abs(n) = n
    BY DEF Sign, Abs
  <1>6. p * 1 * 1 = p
    BY SMT
  <1>7. Over(x, Number(n)) = <<u, v>>
    BY <1>1, <1>2, <1>3, <1>4, <1>5, <1>6 DEF Number
  <1>8. Times(<<u, v>>, Number(n)) = Fraction(u * n, v * 1)
    BY DEF Times, Number
  <1>9. u * n \in Int /\ v * 1 = v
    BY SMT
  <1>10. (u * n) * q = p * v
    <2>1. (u * n) * q = u * (q * n)
      BY SMT
    <2>. QED
      BY <1>2, <1>3, <2>1
  <1>11. Fraction(u * n, v) = Fraction(p, q)
    BY <1>9, <1>10, SameFraction
  <1>. QED
    BY <1>1, <1>7, <1>8, <1>9, <1>11

\* it totals the values over the subsets of S, adding last the one c chooses.
Accumulates(it, S, c, value) ==
    \A s \in SUBSET S : it[s] = IF s = {} THEN Zero ELSE Plus(it[s \ {c[s]}], value[c[s]])

FiniteOn(value, S) == \A x \in S : value[x] \in FiniteValues

\* The fold begins with a finite value.
LEMMA ZeroIsFinite == Zero \in FiniteValues
  BY DEF Zero, Number, FiniteValues

\* There is such a function.
LEMMA TotalExists ==
    ASSUME NEW S, IsFiniteSet(S), NEW c, Chooses(c, S), NEW value, FiniteOn(value, S)
    PROVE  \E it \in [SUBSET S -> FiniteValues] : Accumulates(it, S, c, value)
  <1>. DEFINE g == [p \in S \X FiniteValues |-> Plus(p[2], value[p[1]])]
  <1>1. g \in [S \X FiniteValues -> FiniteValues]
    BY PlusLowest DEF FiniteOn
  <1>2. \A x \in S, v \in FiniteValues : g[<<x, v>>] = Plus(v, value[x])
    OBVIOUS
  <1>. HIDE DEF g
  <1>3. PICK it \in [SUBSET S -> FiniteValues] : FoldsOver(it, S, c, g, Zero)
    BY <1>1, ZeroIsFinite, FoldExists
  <1>4. ASSUME NEW s \in SUBSET S
        PROVE  it[s] = IF s = {} THEN Zero ELSE Plus(it[s \ {c[s]}], value[c[s]])
    <2>1. it[s] = IF s = {} THEN Zero ELSE g[<<c[s], it[s \ {c[s]}]>>]
      BY <1>3 DEF FoldsOver
    <2>2. ASSUME s # {} PROVE g[<<c[s], it[s \ {c[s]}]>>] = Plus(it[s \ {c[s]}], value[c[s]])
      <3>1. c[s] \in S
        BY <2>2 DEF Chooses
      <3>2. it[s \ {c[s]}] \in FiniteValues
        BY <1>3
      <3>. QED
        BY <1>2, <3>1, <3>2
    <2>. QED
      BY <2>1, <2>2
  <1>. QED
    BY <1>3, <1>4 DEF Accumulates

\* Totals are finite values.
LEMMA TotalTypes ==
    ASSUME NEW S, IsFiniteSet(S), NEW c, Chooses(c, S), NEW value, FiniteOn(value, S),
           NEW it, Accumulates(it, S, c, value)
    PROVE  \A s \in SUBSET S : it[s] \in FiniteValues
  <1>. DEFINE P == {s \in SUBSET S : it[s] \in FiniteValues}
  <1>1. {} \in P
    BY ZeroIsFinite DEF Accumulates
  <1>2. ASSUME NEW s \in SUBSET S, s # {}, \A x \in s : s \ {x} \in P PROVE s \in P
    <2>1. PICK y \in s : y = c[s]
      BY <1>2 DEF Chooses
    <2>2. it[s] = Plus(it[s \ {y}], value[y])
      BY <1>2, <2>1 DEF Accumulates
    <2>3. it[s \ {y}] \in FiniteValues /\ value[y] \in FiniteValues
      BY <1>2 DEF FiniteOn
    <2>. QED
      BY <2>2, <2>3, PlusLowest
  <1>3. SUBSET S \subseteq P
    <2>. HIDE DEF P
    <2>. QED
      BY <1>1, <1>2, FiniteInduction
  <1>. QED
    BY <1>3

\* The last one added can be any.
AddsAny(it, s, value) == \A x \in s : it[s] = Plus(it[s \ {x}], value[x])

\* Whichever element is taken out last, the total is the same.
LEMMA AnyIsLast ==
    ASSUME NEW S, IsFiniteSet(S), NEW c, Chooses(c, S), NEW value, FiniteOn(value, S),
           NEW it, Accumulates(it, S, c, value)
    PROVE  /\ it[{}] = Zero
           /\ \A s \in SUBSET S : it[s] \in FiniteValues /\ AddsAny(it, s, value)
  <1>. DEFINE P == {s \in SUBSET S : it[s] \in FiniteValues /\ AddsAny(it, s, value)}
  <1>0. it[{}] = Zero
    BY DEF Accumulates
  <1>1. {} \in P
    BY <1>0, ZeroIsFinite DEF AddsAny
  <1>2. ASSUME NEW s \in SUBSET S, s # {}, \A x \in s : s \ {x} \in P PROVE s \in P
    <2>1. PICK y \in s : y = c[s]
      BY <1>2 DEF Chooses
    <2>2. it[s] = Plus(it[s \ {y}], value[y])
      BY <1>2, <2>1 DEF Accumulates
    <2>3. \A x \in s : it[s \ {x}] \in FiniteValues /\ value[x] \in FiniteValues
      BY <1>2 DEF FiniteOn
    <2>4. it[s] \in FiniteValues
      BY <2>2, <2>3, PlusLowest
    <2>5. ASSUME NEW x \in s, x # y PROVE it[s] = Plus(it[s \ {x}], value[x])
      <3>1. PICK u : u = it[(s \ {x}) \ {y}]
        OBVIOUS
      <3>2. (s \ {x}) \ {y} = (s \ {y}) \ {x}
        OBVIOUS
      <3>3. it[s \ {x}] = Plus(u, value[y])
        <4>1. AddsAny(it, s \ {x}, value) /\ y \in s \ {x}
          BY <1>2, <2>5
        <4>. QED
          BY <3>1, <4>1 DEF AddsAny
      <3>4. it[s \ {y}] = Plus(u, value[x])
        <4>1. AddsAny(it, s \ {y}, value) /\ x \in s \ {y}
          BY <1>2, <2>5
        <4>. QED
          BY <3>1, <3>2, <4>1 DEF AddsAny
      <3>5. u \in FiniteValues
        BY <3>1, TotalTypes
      <3>. QED
        BY <2>2, <2>3, <3>3, <3>4, <3>5, PlusEither
    <2>6. AddsAny(it, s, value)
      BY <2>2, <2>5 DEF AddsAny
    <2>. QED
      BY <2>4, <2>6
  <1>3. SUBSET S \subseteq P
    <2>. HIDE DEF P
    <2>. QED
      BY <1>1, <1>2, FiniteInduction
  <1>. QED
    BY <1>0, <1>3

\* h takes the elements of T to elements of S with the same values.
Corresponds(h, T, S, other, value) ==
    /\ h \in [T -> S] /\ \A x, y \in T : h[x] = h[y] => x = y
    /\ \A x \in T : other[x] = value[h[x]]

SameOn(jt, it, h, T) == \A s \in SUBSET T : jt[s] = it[{h[x] : x \in s}]

\* Values that correspond have one total.
LEMMA SameTotals ==
    ASSUME NEW S, IsFiniteSet(S), NEW c, Chooses(c, S), NEW value, FiniteOn(value, S),
           NEW it, Accumulates(it, S, c, value),
           NEW T, IsFiniteSet(T), NEW d, Chooses(d, T), NEW other,
           NEW jt, Accumulates(jt, T, d, other),
           NEW h, Corresponds(h, T, S, other, value)
    PROVE  SameOn(jt, it, h, T)
  <1>0. /\ h \in [T -> S] /\ \A x, y \in T : h[x] = h[y] => x = y
        /\ \A x \in T : other[x] = value[h[x]]
    BY DEF Corresponds
  <1>. DEFINE P == {s \in SUBSET T : jt[s] = it[{h[x] : x \in s}]}
  <1>1. {} \in P
    <2>1. {h[x] : x \in {}} = {}
      OBVIOUS
    <2>2. jt[{}] = Zero /\ it[{}] = Zero
      BY DEF Accumulates
    <2>. QED
      BY <2>1, <2>2
  <1>2. ASSUME NEW s \in SUBSET T, s # {}, \A x \in s : s \ {x} \in P PROVE s \in P
    <2>1. PICK y \in s : y = d[s]
      BY <1>2 DEF Chooses
    <2>2. jt[s] = Plus(jt[s \ {y}], other[y])
      BY <1>2, <2>1 DEF Accumulates
    <2>3. PICK t, u : t = {h[x] : x \in s} /\ u = {h[x] : x \in s \ {y}}
      OBVIOUS
    <2>4. jt[s \ {y}] = it[u]
      BY <1>2, <2>3
    <2>5. t \in SUBSET S /\ h[y] \in t /\ u = t \ {h[y]}
      BY <1>0, <2>3
    <2>6. it[t] = Plus(it[u], value[h[y]])
      <3>1. AddsAny(it, t, value)
        BY <2>5, AnyIsLast
      <3>. QED
        BY <2>5, <3>1 DEF AddsAny
    <2>7. other[y] = value[h[y]]
      BY <1>0
    <2>. QED
      BY <2>2, <2>3, <2>4, <2>6, <2>7
  <1>3. SUBSET T \subseteq P
    <2>. HIDE DEF P
    <2>. QED
      BY <1>1, <1>2, FiniteInduction
  <1>. QED
    BY <1>3 DEF SameOn

\* The total of samples, as ChartKeepsAverages takes it.
Total(ms) == FoldSet(LAMBDA m, sum : Plus(sum, m.value), Zero, ms)

AddsUp(it, ms) ==
    it = [s \in SUBSET ms |->
            IF s = {} THEN Zero ELSE Plus(it[s \ {First(s)}], First(s).value)]

\* Total, with its recursion named.
LEMMA TotalIsFold ==
    ASSUME NEW ms
    PROVE  Total(ms) = (CHOOSE it : AddsUp(it, ms))[ms]
  BY DEF Total, FoldSet, MapThenFoldSet, AddsUp, First

FirstOf(S) == [s \in SUBSET S |-> First(s)]

ValuesOf(S) == [m \in S |-> m.value]

\* The total of finitely many samples accumulates their values.
LEMMA TotalOfSet ==
    ASSUME NEW ms, IsFiniteSet(ms), \A m \in ms : m.value \in FiniteValues
    PROVE  /\ Chooses(FirstOf(ms), ms) /\ FiniteOn(ValuesOf(ms), ms)
           /\ \E it : Total(ms) = it[ms] /\ Accumulates(it, ms, FirstOf(ms), ValuesOf(ms))
  <1>1. Chooses(FirstOf(ms), ms)
    BY FirstIn DEF Chooses, FirstOf
  <1>2. FiniteOn(ValuesOf(ms), ms)
    BY DEF FiniteOn, ValuesOf
  <1>3. ASSUME NEW s \in SUBSET ms, s # {}
        PROVE  FirstOf(ms)[s] = First(s) /\ ValuesOf(ms)[First(s)] = First(s).value
    BY <1>3, FirstIn DEF FirstOf, ValuesOf
  <1>4. PICK jt \in [SUBSET ms -> FiniteValues] :
            Accumulates(jt, ms, FirstOf(ms), ValuesOf(ms))
    BY <1>1, <1>2, TotalExists
  <1>5. AddsUp(jt, ms)
    <2>1. jt = [s \in SUBSET ms |-> jt[s]]
      OBVIOUS
    <2>2. \A s \in SUBSET ms : jt[s] = IF s = {} THEN Zero ELSE Plus(jt[s \ {First(s)}], First(s).value)
      BY <1>3, <1>4 DEF Accumulates
    <2>. QED
      BY <2>1, <2>2 DEF AddsUp
  <1>6. PICK it : it = CHOOSE kt : AddsUp(kt, ms)
    OBVIOUS
  <1>7. AddsUp(it, ms)
    BY <1>5, <1>6
  <1>8. Accumulates(it, ms, FirstOf(ms), ValuesOf(ms))
    <2>1. \A s \in SUBSET ms : it[s] = IF s = {} THEN Zero ELSE Plus(it[s \ {First(s)}], First(s).value)
      BY <1>7 DEF AddsUp
    <2>. QED
      BY <1>3, <2>1 DEF Accumulates
  <1>9. Total(ms) = it[ms]
    BY <1>6, TotalIsFold
  <1>. QED
    BY <1>1, <1>2, <1>8, <1>9

\* The total of a bucket's points, as Average takes it.
TotalOfPoints(points) == FoldLeft(LAMBDA total, p : Plus(total, p.value), Zero, points)

AddsPoints(it, points) ==
    it = [s \in SUBSET DOMAIN points |->
            IF s = {} THEN Zero ELSE Plus(it[s \ {Max(s)}], points[Max(s)].value)]

\* An average, with the recursion of its total named.
LEMMA AverageIsFold ==
    ASSUME NEW points
    PROVE  /\ TotalOfPoints(points) = (CHOOSE it : AddsPoints(it, points))[DOMAIN points]
           /\ Average(points) = Over(TotalOfPoints(points), Number(Len(points)))
  BY DEF Average, TotalOfPoints, FoldLeft, MapThenFoldSet, AddsPoints

LastOf(n) == [s \in SUBSET (1 .. n) |-> Max(s)]

PointValues(points, n) == [i \in 1 .. n |-> points[i].value]

\* The total of a bucket accumulates the values of its points.
LEMMA TotalOfBucket ==
    ASSUME NEW n \in Nat, NEW points, DOMAIN points = 1 .. n,
           \A i \in 1 .. n : points[i].value \in FiniteValues
    PROVE  /\ Chooses(LastOf(n), 1 .. n) /\ FiniteOn(PointValues(points, n), 1 .. n)
           /\ \E it : /\ TotalOfPoints(points) = it[1 .. n]
                      /\ Accumulates(it, 1 .. n, LastOf(n), PointValues(points, n))
  <1>0. IsFiniteSet(1 .. n)
    BY FS_Interval
  <1>1. ASSUME NEW s \in SUBSET (1 .. n), s # {} PROVE Max(s) \in s
    <2>1. IsFiniteSet(s)
      BY <1>0, FS_Subset
    <2>2. s \subseteq Int
      OBVIOUS
    <2>. QED
      BY <1>1, <2>1, <2>2, LeastAndGreatest
  <1>2. Chooses(LastOf(n), 1 .. n)
    BY <1>1 DEF Chooses, LastOf
  <1>3. FiniteOn(PointValues(points, n), 1 .. n)
    BY DEF FiniteOn, PointValues
  <1>4. ASSUME NEW s \in SUBSET (1 .. n), s # {}
        PROVE  LastOf(n)[s] = Max(s) /\ PointValues(points, n)[Max(s)] = points[Max(s)].value
    BY <1>1, <1>4 DEF LastOf, PointValues
  <1>5. PICK jt \in [SUBSET (1 .. n) -> FiniteValues] :
            Accumulates(jt, 1 .. n, LastOf(n), PointValues(points, n))
    BY <1>0, <1>2, <1>3, TotalExists
  <1>6. AddsPoints(jt, points)
    <2>1. jt = [s \in SUBSET (1 .. n) |-> jt[s]]
      OBVIOUS
    <2>2. \A s \in SUBSET (1 .. n) :
              jt[s] = IF s = {} THEN Zero ELSE Plus(jt[s \ {Max(s)}], points[Max(s)].value)
      BY <1>4, <1>5 DEF Accumulates
    <2>. QED
      BY <2>1, <2>2 DEF AddsPoints
  <1>7. PICK it : it = CHOOSE kt : AddsPoints(kt, points)
    OBVIOUS
  <1>8. AddsPoints(it, points)
    BY <1>6, <1>7
  <1>9. Accumulates(it, 1 .. n, LastOf(n), PointValues(points, n))
    <2>1. \A s \in SUBSET (1 .. n) :
              it[s] = IF s = {} THEN Zero ELSE Plus(it[s \ {Max(s)}], points[Max(s)].value)
      BY <1>8 DEF AddsPoints
    <2>. QED
      BY <1>4, <2>1 DEF Accumulates
  <1>10. TotalOfPoints(points) = it[1 .. n]
    BY <1>7, AverageIsFold
  <1>. QED
    BY <1>2, <1>3, <1>9, <1>10

\* The average of points that are the values of samples, times how many there are, is
\* the total of the samples.
LEMMA AverageOfSamples ==
    ASSUME NEW n \in Nat \ {0}, NEW points, DOMAIN points = 1 .. n, Len(points) = n,
           NEW ms, \A m \in ms : m.value \in FiniteValues,
           NEW h \in [1 .. n -> ms], \A i, j \in 1 .. n : h[i] = h[j] => i = j,
           \A m \in ms : \E i \in 1 .. n : h[i] = m,
           \A i \in 1 .. n : points[i].value = h[i].value
    PROVE  /\ IsFiniteSet(ms) /\ Cardinality(ms) = n
           /\ Times(Average(points), Number(n)) = Total(ms)
  <1>1. IsFiniteSet(ms) /\ Cardinality(ms) = n
    <2>1. h \in Bijection(1 .. n, ms)
      BY DEF Bijection, Injection, IsInjective, Surjection
    <2>2. IsFiniteSet(1 .. n) /\ Cardinality(1 .. n) = n
      BY FS_Interval
    <2>3. PICK D : D = 1 .. n
      OBVIOUS
    <2>4. IsFiniteSet(ms) /\ Cardinality(ms) = Cardinality(D)
      <3>1. IsFiniteSet(D) /\ ExistsBijection(D, ms)
        BY <2>1, <2>2, <2>3 DEF ExistsBijection
      <3>. QED
        BY <3>1, FS_Bijection
    <2>. QED
      BY <2>2, <2>3, <2>4
  <1>2. PICK it : Total(ms) = it[ms] /\ Accumulates(it, ms, FirstOf(ms), ValuesOf(ms))
    BY <1>1, TotalOfSet
  <1>3. \A i \in 1 .. n : points[i].value \in FiniteValues
    OBVIOUS
  <1>4. PICK jt : /\ TotalOfPoints(points) = jt[1 .. n]
                  /\ Accumulates(jt, 1 .. n, LastOf(n), PointValues(points, n))
    BY <1>3, TotalOfBucket
  <1>5. /\ Chooses(FirstOf(ms), ms) /\ FiniteOn(ValuesOf(ms), ms)
        /\ Chooses(LastOf(n), 1 .. n) /\ FiniteOn(PointValues(points, n), 1 .. n)
        /\ IsFiniteSet(1 .. n)
    BY <1>1, <1>3, TotalOfSet, TotalOfBucket, FS_Interval
  <1>6. \A i \in 1 .. n : PointValues(points, n)[i] = ValuesOf(ms)[h[i]]
    BY DEF PointValues, ValuesOf
  <1>7. jt[1 .. n] = it[{h[i] : i \in 1 .. n}]
    <2>1. PICK D, c, d, value, other :
              /\ D = 1 .. n /\ c = FirstOf(ms) /\ d = LastOf(n)
              /\ value = ValuesOf(ms) /\ other = PointValues(points, n)
      OBVIOUS
    <2>2. /\ Chooses(c, ms) /\ FiniteOn(value, ms) /\ Accumulates(it, ms, c, value)
          /\ Chooses(d, D) /\ IsFiniteSet(D) /\ Accumulates(jt, D, d, other)
      BY <1>2, <1>4, <1>5, <2>1
    <2>3. Corresponds(h, D, ms, other, value)
      BY <1>6, <2>1 DEF Corresponds
    <2>4. SameOn(jt, it, h, D)
      BY <1>1, <2>2, <2>3, SameTotals
    <2>. QED
      BY <2>1, <2>4 DEF SameOn
  <1>8. {h[i] : i \in 1 .. n} = ms
    OBVIOUS
  <1>9. Lowest(Total(ms))
    <2>1. h[1] \in ms
      OBVIOUS
    <2>2. AddsAny(it, ms, ValuesOf(ms)) /\ it[ms \ {h[1]}] \in FiniteValues
      BY <1>1, <1>2, <1>5, AnyIsLast, TotalTypes
    <2>3. it[ms] = Plus(it[ms \ {h[1]}], ValuesOf(ms)[h[1]])
      BY <2>1, <2>2 DEF AddsAny
    <2>4. ValuesOf(ms)[h[1]] \in FiniteValues
      BY <1>5, <2>1 DEF FiniteOn
    <2>5. Lowest(it[ms])
      BY <2>2, <2>3, <2>4, PlusLowest
    <2>. QED
      BY <1>2, <2>5
  <1>10. Average(points) = Over(Total(ms), Number(n))
    <2>1. TotalOfPoints(points) = Total(ms)
      BY <1>2, <1>4, <1>7, <1>8
    <2>2. Average(points) = Over(TotalOfPoints(points), Number(Len(points)))
      BY AverageIsFold
    <2>. QED
      BY <2>1, <2>2
  <1>. QED
    BY <1>1, <1>9, <1>10, OverTimes

\* A point that was not averaged is the total of its sample.
LEMMA TotalOfOne ==
    ASSUME NEW m, Lowest(m.value)
    PROVE  Times(m.value, Number(1)) = Total({m})
  <1>1. IsFiniteSet({m}) /\ m.value \in FiniteValues
    BY FS_Singleton DEF Lowest
  <1>2. PICK it : Total({m}) = it[{m}] /\ Accumulates(it, {m}, FirstOf({m}), ValuesOf({m}))
    BY <1>1, TotalOfSet
  <1>3. it[{}] = Zero /\ AddsAny(it, {m}, ValuesOf({m}))
    BY <1>1, <1>2, TotalOfSet, AnyIsLast
  <1>4. it[{m}] = Plus(it[{}], ValuesOf({m})[m])
    <2>1. {m} \ {m} = {}
      OBVIOUS
    <2>. QED
      BY <1>3, <2>1 DEF AddsAny
  <1>5. Total({m}) = m.value
    BY <1>2, <1>3, <1>4, ZeroPlus DEF ValuesOf
  <1>6. PICK p \in Int, q \in Nat \ {0} : m.value = <<p, q>> /\ m.value = Fraction(p, q)
    BY DEF Lowest, FiniteValues
  <1>7. Times(<<p, q>>, Number(1)) = Fraction(p * 1, q * 1)
    BY DEF Times, Number
  <1>8. p * 1 = p /\ q * 1 = q
    BY SMT
  <1>. QED
    BY <1>5, <1>6, <1>7, <1>8
-----------------------------------------------------------------------------
(***************************************************************************)
(* Charts.                                                                 *)
(***************************************************************************)
PointOf(m) == [time |-> m.time, value |-> m.value]

\* p lists the points of the samples s, in order of time.
ListsPoints(p, s) ==
    /\ \A i \in 1 .. Len(p) : \E m \in s : p[i] = PointOf(m)
    /\ \A m \in s : \E i \in 1 .. Len(p) : p[i] = PointOf(m)
    /\ \A i, j \in 1 .. Len(p) : i < j => p[i].time < p[j].time

\* Samples at whole times, no two at one.
AtDifferentTimes(ms) ==
    /\ \A m \in ms : m.time \in Int
    /\ \A m, n \in ms : m.time = n.time => m = n

\* Of finitely many samples, one is the earliest.
LEMMA EarliestIn ==
    ASSUME NEW s, IsFiniteSet(s), s # {}, \A m \in s : m.time \in Int
    PROVE  Earliest(s) \in s /\ \A n \in s : Earliest(s).time <= n.time
  <1>1. PICK T : T = {m.time : m \in s}
    OBVIOUS
  <1>2. IsFiniteSet(T) /\ T # {} /\ T \subseteq Int
    BY <1>1, SeriesFinite
  <1>3. Min(T) \in T /\ \A t \in T : Min(T) <= t
    BY <1>2, LeastAndGreatest
  <1>4. \E m \in s : \A n \in s : m.time <= n.time
    BY <1>1, <1>3
  <1>. QED
    BY <1>4 DEF Earliest

\* A point before the points of later samples.
LEMMA EarlierFirst ==
    ASSUME NEW P, NEW p \in Seq(P), NEW x \in P, NEW s, NEW m, m \in s, x = PointOf(m),
           ListsPoints(p, s \ {m}), \A n \in s : n # m => m.time < n.time,
           NEW z, z = <<x>> \o p
    PROVE  z \in Seq(P) /\ ListsPoints(z, s)
  <1>1. PICK k \in Nat : k = Len(p)
    OBVIOUS
  <1>2. z \in Seq(P) /\ Len(z) = k + 1 /\ z[1] = x /\ \A i \in 1 .. k : z[i + 1] = p[i]
    BY <1>1
  <1>3. /\ \A i \in 1 .. k : \E n \in s \ {m} : p[i] = PointOf(n)
        /\ \A n \in s \ {m} : \E i \in 1 .. k : p[i] = PointOf(n)
        /\ \A i, j \in 1 .. k : i < j => p[i].time < p[j].time
    BY <1>1 DEF ListsPoints
  <1>4. ASSUME NEW i \in 1 .. k + 1, i # 1 PROVE \E l \in 1 .. k : i = l + 1 /\ z[i] = p[l]
    <2>1. PICK l \in 1 .. k : i = l + 1
      BY <1>4
    <2>. QED
      BY <1>2, <2>1
  <1>5. ASSUME NEW i \in 1 .. k + 1 PROVE \E n \in s : z[i] = PointOf(n)
    <2>1. CASE i = 1
      BY <1>2, <2>1
    <2>2. CASE i # 1
      <3>1. PICK l \in 1 .. k : i = l + 1 /\ z[i] = p[l]
        BY <1>4, <2>2
      <3>. QED
        BY <1>3, <3>1
    <2>. QED
      BY <2>1, <2>2
  <1>6. ASSUME NEW n \in s PROVE \E i \in 1 .. k + 1 : z[i] = PointOf(n)
    <2>1. CASE n = m
      <3>1. 1 \in 1 .. k + 1 /\ z[1] = PointOf(n)
        BY <1>2, <2>1
      <3>. QED
        BY <3>1
    <2>2. CASE n # m
      <3>1. PICK i \in 1 .. k : p[i] = PointOf(n)
        BY <1>3, <2>2
      <3>2. i + 1 \in 1 .. k + 1 /\ z[i + 1] = PointOf(n)
        BY <1>2, <3>1
      <3>. QED
        BY <3>2
    <2>. QED
      BY <2>1, <2>2
  <1>7. ASSUME NEW i \in 1 .. k + 1, NEW j \in 1 .. k + 1, i < j PROVE z[i].time < z[j].time
    <2>1. PICK l \in 1 .. k : j = l + 1 /\ z[j] = p[l]
      <3>1. j # 1
        BY <1>7
      <3>. QED
        BY <1>4, <3>1
    <2>2. CASE i = 1
      <3>1. PICK n \in s \ {m} : z[j] = PointOf(n)
        BY <1>3, <2>1
      <3>2. z[i].time = m.time /\ z[j].time = n.time
        BY <1>2, <2>2, <3>1 DEF PointOf
      <3>. QED
        BY <3>1, <3>2
    <2>3. CASE i # 1
      <3>1. PICK n \in 1 .. k : i = n + 1 /\ z[i] = p[n]
        BY <1>4, <2>3
      <3>2. n < l
        BY <1>7, <2>1, <3>1
      <3>. QED
        BY <1>3, <2>1, <3>1, <3>2
    <2>. QED
      BY <2>2, <2>3
  <1>. QED
    BY <1>2, <1>5, <1>6, <1>7 DEF ListsPoints

\* The recursion of ByTime, as an equation of a function.
Orders(it, ms) ==
    it = [s \in SUBSET ms |->
            IF s = {} THEN << >> ELSE <<PointOf(Earliest(s))>> \o it[s \ {Earliest(s)}]]

\* ByTime, with its recursion named.
LEMMA ByTimeIsFold ==
    ASSUME NEW ms
    PROVE  ByTime(ms) = (CHOOSE it : Orders(it, ms))[ms]
  BY DEF ByTime, MapThenFoldSet, Orders, PointOf

\* Samples at different times are put in order.
LEMMA ByTimeLists ==
    ASSUME NEW ms, IsFiniteSet(ms), AtDifferentTimes(ms)
    PROVE  ByTime(ms) \in Seq({PointOf(m) : m \in ms}) /\ ListsPoints(ByTime(ms), ms)
  <1>1. PICK P : P = {PointOf(m) : m \in ms}
    OBVIOUS
  <1>. DEFINE c == [s \in SUBSET ms |-> Earliest(s)]
              g == [x \in ms \X Seq(P) |-> <<PointOf(x[1])>> \o x[2]]
  <1>2. ASSUME NEW s \in SUBSET ms, s # {}
        PROVE  c[s] = Earliest(s) /\ Earliest(s) \in s /\ \A n \in s : Earliest(s).time <= n.time
    <2>1. IsFiniteSet(s) /\ \A m \in s : m.time \in Int
      BY FS_Subset DEF AtDifferentTimes
    <2>. QED
      BY <1>2, <2>1, EarliestIn
  <1>3. Chooses(c, ms)
    <2>. HIDE DEF c
    <2>. QED
      BY <1>2 DEF Chooses
  <1>4. g \in [ms \X Seq(P) -> Seq(P)]
    <2>1. ASSUME NEW m \in ms, NEW q \in Seq(P) PROVE <<PointOf(m)>> \o q \in Seq(P)
      <3>1. PointOf(m) \in P
        BY <1>1
      <3>. QED
        BY <3>1
    <2>. QED
      BY <2>1
  <1>5. \A m \in ms, q \in Seq(P) : g[<<m, q>>] = <<PointOf(m)>> \o q
    OBVIOUS
  <1>6. << >> \in Seq(P)
    OBVIOUS
  <1>. HIDE DEF g, c
  <1>7. PICK jt \in [SUBSET ms -> Seq(P)] : FoldsOver(jt, ms, c, g, << >>)
    BY <1>3, <1>4, <1>6, FoldExists
  <1>8. Orders(jt, ms)
    <2>1. ASSUME NEW s \in SUBSET ms
          PROVE  jt[s] = IF s = {} THEN << >> ELSE <<PointOf(Earliest(s))>> \o jt[s \ {Earliest(s)}]
      <3>1. jt[s] = IF s = {} THEN << >> ELSE g[<<c[s], jt[s \ {c[s]}]>>]
        BY <1>7 DEF FoldsOver
      <3>2. ASSUME s # {} PROVE jt[s] = <<PointOf(Earliest(s))>> \o jt[s \ {Earliest(s)}]
        <4>1. PICK m \in ms : m = c[s] /\ m = Earliest(s)
          BY <1>2, <3>2
        <4>2. PICK q \in Seq(P) : q = jt[s \ {m}]
          BY <1>7
        <4>. QED
          BY <1>5, <3>1, <3>2, <4>1, <4>2
      <3>. QED
        BY <3>1, <3>2
    <2>2. jt = [s \in SUBSET ms |-> jt[s]]
      BY <1>7
    <2>. QED
      BY <2>1, <2>2 DEF Orders
  <1>9. PICK it : it = CHOOSE kt : Orders(kt, ms)
    OBVIOUS
  <1>10. Orders(it, ms)
    BY <1>8, <1>9
  <1>11. \A s \in SUBSET ms :
            it[s] = IF s = {} THEN << >> ELSE <<PointOf(Earliest(s))>> \o it[s \ {Earliest(s)}]
    BY <1>10 DEF Orders
  <1>12. \A s \in SUBSET ms : it[s] \in Seq(P) /\ ListsPoints(it[s], s)
    <2>. DEFINE Q == {s \in SUBSET ms : it[s] \in Seq(P) /\ ListsPoints(it[s], s)}
    <2>1. {} \in Q
      <3>1. it[{}] = << >>
        BY <1>11
      <3>2. ListsPoints(<< >>, {})
        BY DEF ListsPoints
      <3>. QED
        BY <1>6, <3>1, <3>2
    <2>2. ASSUME NEW s \in SUBSET ms, s # {}, \A x \in s : s \ {x} \in Q PROVE s \in Q
      <3>1. PICK m \in s : m = Earliest(s) /\ \A n \in s : m.time <= n.time
        BY <1>2, <2>2
      <3>2. PICK q : q = it[s \ {m}]
        OBVIOUS
      <3>3. q \in Seq(P) /\ ListsPoints(q, s \ {m})
        BY <2>2, <3>2
      <3>4. it[s] = <<PointOf(m)>> \o q
        BY <1>11, <2>2, <3>1, <3>2
      <3>5. \A n \in s : n # m => m.time < n.time
        BY <3>1 DEF AtDifferentTimes
      <3>6. PointOf(m) \in P
        BY <1>1
      <3>7. it[s] \in Seq(P) /\ ListsPoints(it[s], s)
        BY <3>3, <3>4, <3>5, <3>6, EarlierFirst
      <3>. QED
        BY <3>7
    <2>3. SUBSET ms \subseteq Q
      <3>. HIDE DEF Q
      <3>. QED
        BY <2>1, <2>2, FiniteInduction
    <2>. QED
      BY <2>3
  <1>13. ByTime(ms) = it[ms]
    BY <1>9, ByTimeIsFold
  <1>. QED
    BY <1>1, <1>12, <1>13

\* q cuts p into n runs: the k-th is from f[k] to before f[k + 1], and q has its first
\* time, and its average or its only value.
CutsAt(q, p, f, k) ==
    /\ f[k] < f[k + 1]
    /\ q[k].time = p[f[k]].time
    /\ \/ f[k + 1] = f[k] + 1 /\ q[k].value = p[f[k]].value
       \/ q[k].value = Average(SubSeq(p, f[k], f[k + 1] - 1))

Cuts(q, p, f, n) ==
    /\ DOMAIN q = 1 .. n /\ Len(q) = n
    /\ f \in [1 .. n + 1 -> Nat \ {0}] /\ f[1] = 1 /\ f[n + 1] = Len(p) + 1
    /\ \A k \in 1 .. n : CutsAt(q, p, f, k)

\* The smaller of two numbers.
LEMMA LeastOfTwo ==
    ASSUME NEW a \in Int, NEW b \in Int
    PROVE  Min({a, b}) = IF a <= b THEN a ELSE b
  BY DEF Min

\* Products, one factor more or less.
LEMMA Products ==
    ASSUME NEW x \in Int, NEW y \in Int
    PROVE  x * y \in Int /\ y * x = x * y /\ (y - 1) * x = x * y - x
  BY SMT

\* Multiplying by a number above zero keeps the order.
LEMMA ProductOrder ==
    ASSUME NEW x \in Nat \ {0}, NEW y \in Int, NEW z \in Int
    PROVE  y <= z => x * y <= x * z
  BY SMT

\* l is cut into runs of the size, the last one shorter.
LEMMA RunsBound ==
    ASSUME NEW l \in Nat \ {0}, NEW max \in Nat \ {0}, NEW size \in Int, NEW n \in Int,
           NEW r \in 0 .. max - 1, l = max * size + r, l > max,
           NEW s \in Int, 0 <= s, s < size, l + size - 1 = size * n + s
    PROVE  /\ size \in Nat \ {0} /\ n \in Nat \ {0}
           /\ (n - 1) * size < l /\ l <= n * size
           /\ n < 2 * max
  <1>1. size \in Nat \ {0}
    OBVIOUS
  <1>2. PICK m \in Int : m = size * n /\ m = n * size /\ (n - 1) * size = m - size
    BY Products
  <1>3. PICK t \in Int : t = max * size /\ t = size * max /\ size * (2 * max) = 2 * t
    <2>1. size * max \in Int /\ max * size = size * max
      BY Products
    <2>2. size * (2 * max) = 2 * (size * max)
      BY SMT
    <2>. QED
      BY <2>1, <2>2
  <1>4. l <= m /\ m - size < l
    BY <1>2
  <1>5. n \in Nat \ {0}
    <2>1. CASE n <= 0
      <3>1. m <= 0
        <4>1. size * n <= size * 0 /\ size * 0 = 0
          BY <1>1, <2>1, ProductOrder
        <4>. QED
          BY <1>2, <4>1
      <3>. QED
        BY <1>4, <3>1
    <2>. QED
      BY <2>1
  <1>6. n < 2 * max
    <2>1. max + size - 1 <= t
      <3>1. CASE max = 1
        BY <1>3, <3>1
      <3>2. CASE max >= 2
        <4>1. PICK x \in Nat : x = size - 1
          BY <1>1
        <4>2. max * (x + 1) = max * x + max /\ 2 * x <= max * x /\ max * x \in Int
          <5>1. max * x \in Int /\ (x + 1) * max = max * (x + 1) /\ ((x + 1) - 1) * max = max * (x + 1) - max
            BY Products
          <5>2. 2 * x <= max * x
            BY <3>2, SMT
          <5>3. (x + 1) - 1 = x /\ x * max = max * x
            BY SMT
          <5>4. max * (x + 1) \in Int
            BY Products
          <5>. QED
            BY <5>1, <5>2, <5>3, <5>4
        <4>3. t = max * (x + 1)
          BY <1>3, <4>1
        <4>. QED
          BY <4>1, <4>2, <4>3
      <3>. QED
        BY <3>1, <3>2
    <2>2. m < 2 * t
      BY <1>2, <1>3, <2>1
    <2>3. CASE n >= 2 * max
      <3>1. size * (2 * max) <= size * n
        BY <1>1, <2>3, ProductOrder
      <3>. QED
        BY <1>2, <1>3, <2>2, <3>1
    <2>. QED
      BY <2>3
  <1>. QED
    BY <1>1, <1>2, <1>4, <1>5, <1>6

\* How many runs of a size there are.
LEMMA RunsOf ==
    ASSUME NEW l \in Nat \ {0}, NEW max \in Nat \ {0}, l > max,
           NEW size, size = l \div max, NEW n, n = (l + size - 1) \div size
    PROVE  /\ size \in Nat \ {0} /\ n \in Nat \ {0}
           /\ (n - 1) * size < l /\ l <= n * size
           /\ n < 2 * max
  <1>1. size \in Int /\ l = max * size + (l % max) /\ 0 <= l % max /\ l % max < max /\ l % max \in Int
    BY Parts
  <1>2. size \in Nat \ {0}
    <2>1. CASE size <= 0
      <3>1. max * size <= max * 0 /\ max * 0 = 0
        BY <1>1, <2>1, ProductOrder
      <3>2. max * size \in Int
        BY <1>1, Products
      <3>. QED
        BY <1>1, <3>1, <3>2
    <2>. QED
      BY <1>1, <2>1
  <1>3. PICK a \in Nat : a = l + size - 1
    BY <1>2
  <1>4. /\ n \in Int /\ a = size * n + (a % size) /\ 0 <= a % size /\ a % size < size
        /\ a % size \in Int
    <2>1. n = a \div size
      BY <1>3
    <2>2. a \in Int
      BY <1>3
    <2>. QED
      BY <1>2, <2>1, <2>2, Parts
  <1>5. PICK r \in 0 .. max - 1 : l = max * size + r
    <2>1. PICK x : x = l % max
      OBVIOUS
    <2>2. x \in 0 .. max - 1
      BY <1>1, <2>1
    <2>3. l = max * size + x
      BY <1>1, <2>1, Zenon
    <2>. QED
      BY <2>2, <2>3, Zenon
  <1>6. PICK s \in Int : 0 <= s /\ s < size /\ a = size * n + s
    BY <1>4
  <1>7. PICK z \in Int, k \in Int : z = size /\ k = n
    BY <1>1, <1>4
  <1>8. l = max * z + r /\ s < z /\ l + z - 1 = z * k + s
    BY <1>3, <1>5, <1>6, <1>7, Zenon
  <1>9. z \in Nat \ {0} /\ k \in Nat \ {0} /\ (k - 1) * z < l /\ l <= k * z /\ k < 2 * max
    BY <1>6, <1>8, RunsBound
  <1>. QED
    BY <1>7, <1>9, Zenon

\* A line is cut into fewer than twice as many runs as points were asked for.
LEMMA LineIsCut ==
    ASSUME NEW P, NEW p \in Seq(P), Len(p) # 0, NEW max \in Nat \ {0},
           NEW q, q = downsamplePoints(p, max)
    PROVE  \E n \in Nat \ {0} : \E f : Cuts(q, p, f, n) /\ n < 2 * max
  <1>1. PICK l \in Nat \ {0} : l = Len(p)
    OBVIOUS
  <1>2. CASE l <= max
    <2>. DEFINE f == [k \in 1 .. l + 1 |-> k]
    <2>1. q = p
      BY <1>1, <1>2 DEF downsamplePoints
    <2>2. DOMAIN q = 1 .. l /\ Len(q) = l
      BY <1>1, <2>1
    <2>3. f \in [1 .. l + 1 -> Nat \ {0}] /\ f[1] = 1 /\ f[l + 1] = Len(p) + 1
      BY <1>1
    <2>4. \A k \in 1 .. l : f[k] = k /\ f[k + 1] = k + 1
      OBVIOUS
    <2>. HIDE DEF f
    <2>5. \A k \in 1 .. l : CutsAt(q, p, f, k)
      BY <2>1, <2>4 DEF CutsAt
    <2>6. Cuts(q, p, f, l) /\ l < 2 * max
      BY <1>2, <2>2, <2>3, <2>5 DEF Cuts
    <2>. QED
      BY <2>6
  <1>3. CASE l > max
    <2>1. PICK size, n : size = l \div max /\ n = (l + size - 1) \div size
      OBVIOUS
    <2>2. /\ size \in Nat \ {0} /\ n \in Nat \ {0}
          /\ (n - 1) * size < l /\ l <= n * size
          /\ n < 2 * max
      BY <1>3, <2>1, RunsOf
    <2>3. q = [k \in 1 .. n |->
                [time  |-> p[(k - 1) * size + 1].time,
                 value |-> Average(Bucket(p, (k - 1) * size + 1, size))]]
      <3>1. ~ (Len(p) <= max)
        BY <1>1, <1>3
      <3>. QED
        BY <1>1, <2>1, <3>1, Zenon DEF downsamplePoints
    <2>. DEFINE f == [k \in 1 .. n + 1 |-> IF k = n + 1 THEN l + 1 ELSE (k - 1) * size + 1]
    <2>4. \A k \in 1 .. n : (k - 1) * size \in Nat
      BY <2>2, SMT
    <2>5. f \in [1 .. n + 1 -> Nat \ {0}]
      BY <2>2, <2>4
    <2>6. f[n + 1] = l + 1 /\ \A k \in 1 .. n : f[k] = (k - 1) * size + 1
      BY <2>2
    <2>. HIDE DEF f
    <2>7. f[1] = 1
      <3>1. 1 \in 1 .. n /\ (1 - 1) * size = 0
        BY <2>2, SMT
      <3>. QED
        BY <2>6, <3>1
    <2>8. ASSUME NEW k \in 1 .. n PROVE CutsAt(q, p, f, k)
      <3>1. PICK i \in Nat \ {0} : i = (k - 1) * size + 1
        BY <2>4
      <3>2. f[k] = i /\ q[k].time = p[i].time /\ q[k].value = Average(Bucket(p, i, size))
        BY <2>3, <2>6, <3>1
      <3>3. f[k] < f[k + 1] /\ Min({i + size - 1, l}) = f[k + 1] - 1
        <4>1. CASE k = n
          <5>1. (n - 1) * size = n * size - size /\ n * size \in Int
            BY <2>2, SMT
          <5>2. i < l + 1 /\ l <= i + size - 1
            BY <2>2, <3>1, <4>1, <5>1
          <5>3. Min({i + size - 1, l}) = l
            <6>1. PICK b \in Int : b = i + size - 1 /\ l <= b
              BY <2>2, <5>2
            <6>2. Min({b, l}) = IF b <= l THEN b ELSE l
              BY LeastOfTwo
            <6>. QED
              BY <6>1, <6>2
          <5>4. f[k] = i /\ f[k + 1] = l + 1
            BY <2>6, <3>2, <4>1
          <5>. QED
            BY <5>2, <5>3, <5>4
        <4>2. CASE k # n
          <5>1. k + 1 \in 1 .. n /\ k <= n - 1
            BY <2>2, <4>2
          <5>2. (k - 1) * size = k * size - size /\ k * size \in Int /\ ((k + 1) - 1) * size = k * size
            BY <2>2, SMT
          <5>3. k * size <= (n - 1) * size /\ (n - 1) * size \in Int
            BY <2>2, <5>1, SMT
          <5>4. f[k + 1] = i + size /\ i + size - 1 <= l
            BY <2>2, <2>6, <3>1, <5>1, <5>2, <5>3
          <5>5. Min({i + size - 1, l}) = i + size - 1
            BY <2>2, <5>4, LeastOfTwo
          <5>. QED
            BY <2>2, <3>2, <5>4, <5>5
        <4>. QED
          BY <4>1, <4>2
      <3>4. Bucket(p, i, size) = SubSeq(p, i, f[k + 1] - 1)
        BY <1>1, <3>3 DEF Bucket
      <3>. QED
        BY <3>2, <3>3, <3>4 DEF CutsAt
    <2>9. DOMAIN q = 1 .. n /\ Len(q) = n
      BY <2>2, <2>3
    <2>10. Cuts(q, p, f, n)
      BY <1>1, <2>5, <2>6, <2>7, <2>8, <2>9 DEF Cuts
    <2>. QED
      BY <2>2, <2>10
  <1>. QED
    BY <1>1, <1>2, <1>3

\* The samples from the k-th point of a line to the next.
From(q, k, ms) ==
    {m \in ms : q[k].time <= m.time /\ (k < Len(q) => m.time < q[k + 1].time)}

\* What ChartKeepsAverages says of a line's points q and the samples ms behind it.
KeepsAverages(q, ms, max) ==
    /\ Len(q) < 2 * max
    /\ UNION {From(q, k, ms) : k \in 1 .. Len(q)} = ms
    /\ \A k \in 1 .. Len(q) :
            Times(q[k].value, Number(Cardinality(From(q, k, ms)))) = Total(From(q, k, ms))

PartOf(h, a, b) == {h[i] : i \in a .. b - 1}

\* A point has its sample's time and value.
LEMMA PointFields == ASSUME NEW m PROVE PointOf(m).time = m.time /\ PointOf(m).value = m.value
  BY DEF PointOf

\* The places of a part of a sequence.
LEMMA PartOfSequence ==
    ASSUME NEW P, NEW p \in Seq(P), NEW a \in 1 .. Len(p), NEW b \in Nat, a < b, b <= Len(p) + 1
    PROVE  /\ b - a \in Nat \ {0}
           /\ DOMAIN SubSeq(p, a, b - 1) = 1 .. b - a /\ Len(SubSeq(p, a, b - 1)) = b - a
           /\ \A i \in 1 .. b - a : SubSeq(p, a, b - 1)[i] = p[a + i - 1]
  OBVIOUS

\* h gives the samples of a line's points.
SamplesOf(h, p, ms) ==
    /\ h \in [1 .. Len(p) -> ms]
    /\ \A i \in 1 .. Len(p) : p[i] = PointOf(h[i])
    /\ \A m \in ms : \E i \in 1 .. Len(p) : h[i] = m
    /\ \A i, j \in 1 .. Len(p) : i < j <=> h[i].time < h[j].time

\* The points of a line give back its samples.
LEMMA LineSamples ==
    ASSUME NEW P, NEW p \in Seq(P), NEW ms, AtDifferentTimes(ms), ListsPoints(p, ms)
    PROVE  \E h : SamplesOf(h, p, ms)
  <1>1. PICK n \in Nat : n = Len(p)
    OBVIOUS
  <1>. DEFINE h == [i \in 1 .. n |-> CHOOSE m \in ms : p[i] = PointOf(m)]
  <1>2. ASSUME NEW i \in 1 .. n PROVE h[i] \in ms /\ p[i] = PointOf(h[i])
    <2>1. \E m \in ms : p[i] = PointOf(m)
      BY <1>1 DEF ListsPoints
    <2>. QED
      BY <2>1
  <1>3. h = [i \in 1 .. n |-> h[i]]
    OBVIOUS
  <1>. HIDE DEF h
  <1>4. ASSUME NEW i \in 1 .. n PROVE p[i].time = h[i].time /\ h[i].time \in Int
    BY <1>2, PointFields DEF AtDifferentTimes
  <1>5. \A m \in ms : \E i \in 1 .. n : h[i] = m
    <2>. SUFFICES ASSUME NEW m \in ms PROVE \E i \in 1 .. n : h[i] = m
      OBVIOUS
    <2>1. PICK i \in 1 .. n : p[i] = PointOf(m)
      BY <1>1 DEF ListsPoints
    <2>2. h[i].time = m.time
      BY <1>4, <2>1, PointFields
    <2>. QED
      BY <1>2, <2>2 DEF AtDifferentTimes
  <1>6. \A i, j \in 1 .. n : i < j <=> h[i].time < h[j].time
    <2>1. \A i, j \in 1 .. n : i < j => h[i].time < h[j].time
      BY <1>1, <1>4 DEF ListsPoints
    <2>2. \A i, j \in 1 .. n : h[i].time < h[j].time => i < j
      <3>. SUFFICES ASSUME NEW i \in 1 .. n, NEW j \in 1 .. n, h[i].time < h[j].time PROVE i < j
        OBVIOUS
      <3>1. h[i].time \in Int /\ h[j].time \in Int
        BY <1>4
      <3>2. ~ (j < i) /\ i # j
        BY <2>1, <3>1
      <3>. QED
        BY <3>2
    <2>. QED
      BY <2>1, <2>2
  <1>7. h \in [1 .. n -> ms]
    BY <1>2, <1>3
  <1>8. SamplesOf(h, p, ms)
    BY <1>1, <1>2, <1>5, <1>6, <1>7 DEF SamplesOf
  <1>. QED
    BY <1>8

\* The samples of a run.
LEMMA RunSamples ==
    ASSUME NEW P, NEW p \in Seq(P), NEW ms, AtDifferentTimes(ms), NEW h, SamplesOf(h, p, ms),
           NEW q, NEW f, NEW n \in Nat \ {0}, Cuts(q, p, f, n), NEW k \in 1 .. n
    PROVE  /\ f[k] \in 1 .. Len(p) /\ f[k + 1] \in Nat /\ f[k] < f[k + 1] /\ f[k + 1] <= Len(p) + 1
           /\ From(q, k, ms) = PartOf(h, f[k], f[k + 1])
  <1>1. PICK l \in Nat : l = Len(p)
    OBVIOUS
  <1>2. /\ Len(q) = n /\ f \in [1 .. n + 1 -> Nat \ {0}] /\ f[n + 1] = l + 1
        /\ \A j \in 1 .. n : f[j] < f[j + 1] /\ q[j].time = p[f[j]].time
    BY <1>1 DEF Cuts, CutsAt
  <1>3. ASSUME NEW j \in 1 .. n PROVE f[j] \in 1 .. l
    <2>. DEFINE T == {d \in Nat : \A i \in 1 .. n + 1 : i = n + 1 - d => f[i] <= l + 1}
    <2>1. 0 \in T
      BY <1>2
    <2>2. ASSUME NEW d \in Nat, d \in T PROVE d + 1 \in T
      <3>. SUFFICES ASSUME NEW i \in 1 .. n + 1, i = n + 1 - (d + 1) PROVE f[i] <= l + 1
        OBVIOUS
      <3>1. i \in 1 .. n /\ i + 1 \in 1 .. n + 1 /\ i + 1 = n + 1 - d
        OBVIOUS
      <3>2. f[i] < f[i + 1] /\ f[i + 1] <= l + 1 /\ f[i] \in Nat /\ f[i + 1] \in Nat
        BY <1>2, <2>2, <3>1
      <3>. QED
        BY <3>2
    <2>3. Nat \subseteq T
      <3>. HIDE DEF T
      <3>. QED
        BY <2>1, <2>2, SetInduction
    <2>4. n + 1 - (j + 1) \in Nat /\ j + 1 \in 1 .. n + 1 /\ j + 1 = n + 1 - (n + 1 - (j + 1))
      OBVIOUS
    <2>5. f[j + 1] <= l + 1
      BY <2>3, <2>4
    <2>6. f[j] \in Nat \ {0} /\ f[j + 1] \in Nat /\ f[j] < f[j + 1]
      BY <1>2, <2>4
    <2>. QED
      BY <2>5, <2>6
  <1>4. PICK a \in 1 .. l, b \in Nat : a = f[k] /\ b = f[k + 1] /\ a < b /\ b <= l + 1
    <2>1. f[k] \in 1 .. l /\ f[k] < f[k + 1]
      BY <1>2, <1>3
    <2>2. f[k + 1] \in Nat /\ f[k + 1] <= l + 1
      <3>1. CASE k = n
        BY <1>2, <3>1
      <3>2. CASE k # n
        <4>1. k + 1 \in 1 .. n
          BY <3>2
        <4>. QED
          BY <1>3, <4>1
      <3>. QED
        BY <3>1, <3>2
    <2>. QED
      BY <2>1, <2>2
  <1>5. /\ h \in [1 .. l -> ms]
        /\ \A i \in 1 .. l : p[i].time = h[i].time /\ h[i].time \in Int
        /\ \A i, j \in 1 .. l : i < j <=> h[i].time < h[j].time
        /\ \A m \in ms : \E i \in 1 .. l : h[i] = m
    <2>1. /\ h \in [1 .. l -> ms]
          /\ \A i \in 1 .. l : p[i] = PointOf(h[i])
          /\ \A i, j \in 1 .. l : i < j <=> h[i].time < h[j].time
          /\ \A m \in ms : \E i \in 1 .. l : h[i] = m
      BY <1>1 DEF SamplesOf
    <2>2. \A i \in 1 .. l : p[i].time = h[i].time
      BY <2>1, PointFields
    <2>3. \A i \in 1 .. l : h[i].time \in Int
      BY <2>1 DEF AtDifferentTimes
    <2>. QED
      BY <2>1, <2>2, <2>3
  <1>6. \A i \in 1 .. l : q[k].time <= h[i].time <=> a <= i
    <2>. SUFFICES ASSUME NEW i \in 1 .. l PROVE q[k].time <= h[i].time <=> a <= i
      OBVIOUS
    <2>1. q[k].time = h[a].time
      BY <1>2, <1>4, <1>5
    <2>2. i < a <=> h[i].time < h[a].time
      BY <1>5
    <2>3. h[i].time \in Int /\ h[a].time \in Int
      BY <1>5
    <2>. QED
      BY <2>1, <2>2, <2>3
  <1>7. \A i \in 1 .. l : (k < n => h[i].time < q[k + 1].time) <=> i < b
    <2>1. CASE k = n
      BY <1>2, <1>4, <2>1
    <2>2. CASE k < n
      <3>1. k + 1 \in 1 .. n
        BY <2>2
      <3>2. b \in 1 .. l /\ q[k + 1].time = h[b].time
        BY <1>2, <1>3, <1>4, <1>5, <3>1
      <3>. QED
        BY <1>5, <2>2, <3>2
    <2>. QED
      BY <2>1, <2>2
  <1>8. From(q, k, ms) = {h[i] : i \in a .. b - 1}
    <2>1. ASSUME NEW m \in From(q, k, ms) PROVE \E i \in a .. b - 1 : m = h[i]
      <3>1. m \in ms /\ q[k].time <= m.time /\ (k < n => m.time < q[k + 1].time)
        BY <1>2 DEF From
      <3>2. PICK i \in 1 .. l : h[i] = m
        BY <1>5, <3>1
      <3>3. a <= i /\ i < b
        BY <1>6, <1>7, <3>1, <3>2
      <3>. QED
        BY <3>2, <3>3
    <2>2. ASSUME NEW i \in a .. b - 1 PROVE h[i] \in From(q, k, ms)
      <3>1. i \in 1 .. l /\ a <= i /\ i < b
        BY <1>4
      <3>2. h[i] \in ms /\ q[k].time <= h[i].time /\ (k < n => h[i].time < q[k + 1].time)
        BY <1>5, <1>6, <1>7, <3>1
      <3>. QED
        BY <1>2, <3>2 DEF From
    <2>. QED
      BY <2>1, <2>2
  <1>. QED
    BY <1>1, <1>4, <1>8 DEF PartOf

\* Every place is in a run.
LEMMA RunsCover ==
    ASSUME NEW n \in Nat \ {0}, NEW f \in [1 .. n + 1 -> Nat \ {0}], f[1] = 1,
           NEW i \in Nat \ {0}, i < f[n + 1]
    PROVE  \E k \in 1 .. n : f[k] <= i /\ i < f[k + 1]
  <1>. DEFINE D == {k \in 1 .. n : f[k] <= i}
  <1>1. IsFiniteSet(D) /\ D \subseteq Int /\ D # {}
    <2>1. IsFiniteSet(1 .. n) /\ D \subseteq 1 .. n
      BY FS_Interval
    <2>2. 1 \in D
      OBVIOUS
    <2>3. D \subseteq Int
      OBVIOUS
    <2>. HIDE DEF D
    <2>4. IsFiniteSet(D)
      BY <2>1, FS_Subset
    <2>. QED
      BY <2>2, <2>3, <2>4
  <1>2. PICK k \in D : \A j \in D : j <= k
    <2>. HIDE DEF D
    <2>. QED
      BY <1>1, LeastAndGreatest
  <1>3. CASE k = n
    BY <1>2, <1>3
  <1>4. CASE k # n
    <2>1. k + 1 \in 1 .. n /\ ~ (k + 1 <= k)
      BY <1>4
    <2>2. k + 1 \notin D
      BY <1>2, <2>1
    <2>3. ~ (f[k + 1] <= i) /\ f[k + 1] \in Nat
      BY <2>1, <2>2
    <2>. QED
      BY <2>3
  <1>. QED
    BY <1>3, <1>4

\* The places of a part that begins at a and has c points.
LEMMA PartPlaces ==
    ASSUME NEW l \in Nat, NEW a \in 1 .. l, NEW c \in Nat \ {0}, a + c <= l + 1
    PROVE  /\ \A i \in 1 .. c : a + i - 1 \in a .. a + c - 1 /\ a + i - 1 \in 1 .. l
           /\ \A j \in a .. a + c - 1 : j - a + 1 \in 1 .. c /\ a + (j - a + 1) - 1 = j
           /\ \A i, j \in 1 .. c : a + i - 1 = a + j - 1 => i = j
  OBVIOUS

\* One sample is one place.
DifferentSamples(h, l) == \A i, j \in 1 .. l : h[i] = h[j] => i = j

SameValues(p, h, l) == \A i \in 1 .. l : p[i].value = h[i].value

\* The n points are the values of the samples, one each.
Represents(points, h, n, ms) ==
    /\ DOMAIN points = 1 .. n /\ Len(points) = n
    /\ \A m \in ms : m.value \in FiniteValues
    /\ h \in [1 .. n -> ms] /\ \A i, j \in 1 .. n : h[i] = h[j] => i = j
    /\ \A m \in ms : \E i \in 1 .. n : h[i] = m
    /\ \A i \in 1 .. n : points[i].value = h[i].value

\* AverageOfSamples, of points that represent samples.
LEMMA AverageRepresents ==
    ASSUME NEW n \in Nat \ {0}, NEW points, NEW ms, NEW h, Represents(points, h, n, ms)
    PROVE  Cardinality(ms) = n /\ Times(Average(points), Number(n)) = Total(ms)
  BY AverageOfSamples DEF Represents

FiniteSamples(ms) == \A m \in ms : m.value \in FiniteValues

\* The average of a part of a line, times its length, is the total of its samples.
LEMMA PartAverage ==
    ASSUME NEW P, NEW p \in Seq(P), NEW l \in Nat, l = Len(p), NEW ms,
           FiniteSamples(ms), NEW h \in [1 .. l -> ms],
           SameValues(p, h, l), DifferentSamples(h, l),
           NEW a \in 1 .. l, NEW b \in Nat, a < b, b <= l + 1
    PROVE  Times(Average(SubSeq(p, a, b - 1)), Number(Cardinality(PartOf(h, a, b))))
              = Total(PartOf(h, a, b))
  <1>1. PICK c \in Nat \ {0} : c = b - a
    OBVIOUS
  <1>2. b = a + c /\ a + c <= l + 1
    BY <1>1
  <1>3. PICK z : z = SubSeq(p, a, b - 1)
    OBVIOUS
  <1>4. DOMAIN z = 1 .. c /\ Len(z) = c /\ \A i \in 1 .. c : z[i] = p[a + i - 1]
    BY <1>1, <1>3, PartOfSequence
  <1>5. PICK R : R = PartOf(h, a, b)
    OBVIOUS
  <1>6. R = {h[i] : i \in a .. a + c - 1}
    BY <1>2, <1>5 DEF PartOf
  <1>7. /\ \A i \in 1 .. c : a + i - 1 \in a .. a + c - 1 /\ a + i - 1 \in 1 .. l
        /\ \A j \in a .. a + c - 1 : j - a + 1 \in 1 .. c /\ a + (j - a + 1) - 1 = j
        /\ \A i, j \in 1 .. c : a + i - 1 = a + j - 1 => i = j
    BY <1>2, PartPlaces
  <1>. DEFINE g == [i \in 1 .. c |-> h[a + i - 1]]
  <1>8. \A i \in 1 .. c : g[i] = h[a + i - 1]
    OBVIOUS
  <1>9. g \in [1 .. c -> R]
    BY <1>6, <1>7
  <1>. HIDE DEF g
  <1>10. \A i, j \in 1 .. c : g[i] = g[j] => i = j
    <2>. SUFFICES ASSUME NEW i \in 1 .. c, NEW j \in 1 .. c, g[i] = g[j] PROVE i = j
      OBVIOUS
    <2>1. h[a + i - 1] = h[a + j - 1]
      BY <1>8
    <2>2. a + i - 1 = a + j - 1
      BY <1>7, <2>1 DEF DifferentSamples
    <2>. QED
      BY <1>7, <2>2
  <1>11. \A m \in R : \E i \in 1 .. c : g[i] = m
    <2>. SUFFICES ASSUME NEW m \in R PROVE \E i \in 1 .. c : g[i] = m
      OBVIOUS
    <2>1. PICK j \in a .. a + c - 1 : m = h[j]
      BY <1>6
    <2>2. j - a + 1 \in 1 .. c /\ a + (j - a + 1) - 1 = j
      BY <1>7
    <2>3. g[j - a + 1] = m
      BY <1>8, <2>1, <2>2
    <2>. QED
      BY <2>2, <2>3
  <1>12. \A i \in 1 .. c : z[i].value = g[i].value
    <2>. SUFFICES ASSUME NEW i \in 1 .. c PROVE z[i].value = g[i].value
      OBVIOUS
    <2>1. PICK j \in 1 .. l : j = a + i - 1
      BY <1>7
    <2>2. z[i] = p[j] /\ g[i] = h[j]
      BY <1>4, <1>8, <2>1
    <2>3. p[j].value = h[j].value
      BY DEF SameValues
    <2>. QED
      BY <2>2, <2>3
  <1>13. \A m \in R : m.value \in FiniteValues
    <2>1. R \subseteq ms
      BY <1>2, <1>6
    <2>. QED
      BY <2>1 DEF FiniteSamples
  <1>14. Cardinality(R) = c /\ Times(Average(z), Number(c)) = Total(R)
    <2>1. Represents(z, g, c, R)
      BY <1>4, <1>9, <1>10, <1>11, <1>12, <1>13 DEF Represents
    <2>. QED
      BY <2>1, AverageRepresents
  <1>. QED
    BY <1>3, <1>5, <1>14

HasSamples(p, h, l, ms) ==
    /\ h \in [1 .. l -> ms] /\ SameValues(p, h, l) /\ DifferentSamples(h, l)
    /\ FiniteSamples(ms)

PartHasAverage(p, h, a, b) ==
    Times(Average(SubSeq(p, a, b - 1)), Number(Cardinality(PartOf(h, a, b)))) = Total(PartOf(h, a, b))

\* PartAverage, of every part.
LEMMA PartsHaveAverages ==
    ASSUME NEW P, NEW p \in Seq(P), NEW ms, NEW h, HasSamples(p, h, Len(p), ms)
    PROVE  \A a \in 1 .. Len(p), b \in Nat : a < b /\ b <= Len(p) + 1 => PartHasAverage(p, h, a, b)
  <1>1. PICK l \in Nat : l = Len(p)
    OBVIOUS
  <1>2. h \in [1 .. l -> ms] /\ SameValues(p, h, l) /\ DifferentSamples(h, l) /\ FiniteSamples(ms)
    BY <1>1 DEF HasSamples
  <1>3. ASSUME NEW a \in 1 .. l, NEW b \in Nat, a < b, b <= l + 1 PROVE PartHasAverage(p, h, a, b)
    BY <1>1, <1>2, <1>3, PartAverage DEF PartHasAverage
  <1>. QED
    BY <1>1, <1>3

\* A line that was cut keeps the averages of its samples.
LEMMA CutsKeep ==
    ASSUME NEW P, NEW p \in Seq(P), NEW ms, AtDifferentTimes(ms), ListsPoints(p, ms),
           \A m \in ms : Lowest(m.value), NEW max \in Nat \ {0},
           NEW q, NEW f, NEW n \in Nat \ {0}, Cuts(q, p, f, n), n < 2 * max
    PROVE  KeepsAverages(q, ms, max)
  <1>1. PICK h : SamplesOf(h, p, ms)
    BY LineSamples
  <1>2. PICK l \in Nat : l = Len(p)
    OBVIOUS
  <1>3. /\ h \in [1 .. l -> ms]
        /\ \A i \in 1 .. l : p[i].value = h[i].value
        /\ \A m \in ms : \E i \in 1 .. l : h[i] = m
        /\ \A i, j \in 1 .. l : h[i] = h[j] => i = j
    <2>1. /\ h \in [1 .. l -> ms]
          /\ \A i \in 1 .. l : p[i] = PointOf(h[i])
          /\ \A m \in ms : \E i \in 1 .. l : h[i] = m
          /\ \A i, j \in 1 .. l : i < j <=> h[i].time < h[j].time
      BY <1>1, <1>2 DEF SamplesOf
    <2>2. \A i \in 1 .. l : p[i].value = h[i].value /\ h[i].time \in Int
      <3>1. \A i \in 1 .. l : p[i].value = h[i].value
        BY <2>1, PointFields
      <3>2. \A i \in 1 .. l : h[i].time \in Int
        BY <2>1 DEF AtDifferentTimes
      <3>. QED
        BY <3>1, <3>2
    <2>3. ASSUME NEW i \in 1 .. l, NEW j \in 1 .. l, h[i] = h[j] PROVE i = j
      <3>1. ~ (h[i].time < h[j].time) /\ ~ (h[j].time < h[i].time)
        BY <2>2, <2>3
      <3>2. ~ (i < j) /\ ~ (j < i)
        BY <2>1, <3>1
      <3>. QED
        BY <3>2
    <2>. QED
      BY <2>1, <2>2, <2>3
  <1>4. /\ DOMAIN q = 1 .. n /\ Len(q) = n
        /\ f \in [1 .. n + 1 -> Nat \ {0}] /\ f[1] = 1 /\ f[n + 1] = l + 1
        /\ \A k \in 1 .. n : CutsAt(q, p, f, k)
    BY <1>2 DEF Cuts
  <1>5. ASSUME NEW k \in 1 .. n
        PROVE  \E a \in 1 .. l, b \in Nat :
                  /\ a = f[k] /\ b = f[k + 1] /\ a < b /\ b <= l + 1
                  /\ From(q, k, ms) = PartOf(h, a, b)
    <2>1. /\ f[k] \in 1 .. l /\ f[k + 1] \in Nat /\ f[k] < f[k + 1] /\ f[k + 1] <= l + 1
          /\ From(q, k, ms) = PartOf(h, f[k], f[k + 1])
      BY <1>1, <1>2, RunSamples
    <2>. QED
      BY <2>1
  <1>6. UNION {From(q, k, ms) : k \in 1 .. n} = ms
    <2>1. \A k \in 1 .. n : From(q, k, ms) \subseteq ms
      BY DEF From
    <2>2. ASSUME NEW m \in ms PROVE \E k \in 1 .. n : m \in From(q, k, ms)
      <3>1. PICK i \in 1 .. l : h[i] = m
        BY <1>3
      <3>2. i \in Nat \ {0} /\ i < f[n + 1]
        BY <1>4
      <3>3. PICK k \in 1 .. n : f[k] <= i /\ i < f[k + 1]
        BY <1>4, <3>2, RunsCover
      <3>4. PICK a \in 1 .. l, b \in Nat :
                a = f[k] /\ b = f[k + 1] /\ From(q, k, ms) = PartOf(h, a, b)
        BY <1>5
      <3>5. i \in a .. b - 1
        BY <3>3, <3>4
      <3>. QED
        BY <3>1, <3>4, <3>5 DEF PartOf
    <2>. QED
      BY <2>1, <2>2
  <1>7. ASSUME NEW k \in 1 .. n
        PROVE  Times(q[k].value, Number(Cardinality(From(q, k, ms)))) = Total(From(q, k, ms))
    <2>1. PICK a \in 1 .. l, b \in Nat :
                /\ a = f[k] /\ b = f[k + 1] /\ a < b /\ b <= l + 1
                /\ From(q, k, ms) = PartOf(h, a, b)
      BY <1>5
    <2>2. PICK R : R = From(q, k, ms)
      OBVIOUS
    <2>3. R \subseteq ms
      BY <2>2 DEF From
    <2>4. CASE b = a + 1 /\ q[k].value = p[a].value
      <3>1. R = {h[a]} /\ h[a] \in ms
        <4>1. a .. b - 1 = {a}
          BY <2>1, <2>4
        <4>. QED
          BY <1>3, <2>1, <2>2, <4>1 DEF PartOf
      <3>2. Cardinality(R) = 1
        BY <3>1, FS_Singleton
      <3>3. Times(h[a].value, Number(1)) = Total({h[a]})
        BY <3>1, TotalOfOne
      <3>. QED
        BY <1>3, <2>2, <2>4, <3>1, <3>2, <3>3
    <2>5. CASE q[k].value = Average(SubSeq(p, a, b - 1))
      <3>1. PartHasAverage(p, h, a, b)
        <4>1. HasSamples(p, h, Len(p), ms)
          BY <1>2, <1>3 DEF HasSamples, SameValues, DifferentSamples, FiniteSamples, Lowest
        <4>2. \A aa \in 1 .. Len(p), bb \in Nat :
                  aa < bb /\ bb <= Len(p) + 1 => PartHasAverage(p, h, aa, bb)
          BY <4>1, PartsHaveAverages
        <4>. QED
          BY <1>2, <2>1, <4>2
      <3>. QED
        BY <2>1, <2>5, <3>1 DEF PartHasAverage
    <2>. QED
      BY <1>4, <2>1, <2>4, <2>5 DEF CutsAt
  <1>. QED
    BY <1>4, <1>6, <1>7 DEF KeepsAverages
-----------------------------------------------------------------------------
(***************************************************************************)
(* Charts.                                                                 *)
(***************************************************************************)
\* The user labels of a sample are labels, and hold no comma when the sample's do not.
LEMMA UserLabels ==
    ASSUME NEW found \in SUBSET Samples, Plain(found), NEW m \in found
    PROVE  IsLabels(userLabels(m)) /\ PlainLabels(userLabels(m))
  <1>1. PICK names \in SUBSET Range(LabelNames) : m.labels \in [names -> Seq(STRING)]
    BY SampleConstants DEF Samples
  <1>2. PICK D \in SUBSET names : D = DOMAIN m.labels \ InternalLabels
    BY <1>1
  <1>3. PICK u : u = userLabels(m)
    OBVIOUS
  <1>4. u = [k \in D |-> m.labels[k]]
    BY <1>2, <1>3 DEF userLabels, Restrict
  <1>5. u \in [D -> Seq(STRING)]
    BY <1>1, <1>4
  <1>6. IsLabels(u)
    BY <1>1, <1>5 DEF IsLabels
  <1>7. \A k \in DOMAIN m.labels : NoComma(m.labels[k])
    BY DEF Plain, Contains, NoComma
  <1>8. ASSUME NEW k \in DOMAIN u PROVE NoComma(u[k])
    <2>1. k \in DOMAIN m.labels /\ u[k] = m.labels[k]
      BY <1>2, <1>4
    <2>. QED
      BY <1>7, <2>1
  <1>9. PlainLabels(u)
    BY <1>8 DEF PlainLabels
  <1>. QED
    BY <1>3, <1>6, <1>9

OfLine(found, labels) == {m \in found : userLabels(m) = labels}

\* A line of a chart is what downsampling makes of the samples with its labels.
LEMMA LineOf ==
    ASSUME NEW found \in SUBSET Samples, Plain(found), NEW max, NEW line \in Charts(found, max)
    PROVE  /\ OfLine(found, line.labels) # {}
           /\ line.points = downsamplePoints(ByTime(OfLine(found, line.labels)), max)
  <1>. DEFINE of(key) == {m \in found : makeSeriesKey(userLabels(m)) = key}
              any(ms) == CHOOSE m \in ms : TRUE
  <1>0. PICK key \in {makeSeriesKey(userLabels(m)) : m \in found} :
            line = [labels     |-> userLabels(any(of(key))),
                    points     |-> downsamplePoints(ByTime(of(key)), max),
                    resolution |-> resolution(InSomeOrder(of(key)))]
    BY Zenon DEF Charts
  <1>1. PICK m \in found : key = makeSeriesKey(userLabels(m))
    OBVIOUS
  <1>2. PICK ms : ms = of(makeSeriesKey(userLabels(m)))
    OBVIOUS
  <1>3. line.labels = userLabels(any(ms)) /\ line.points = downsamplePoints(ByTime(ms), max)
    BY <1>0, <1>1, <1>2
  <1>4. \A n \in ms : n \in found /\ seriesKey(userLabels(n)) = seriesKey(userLabels(m))
    BY <1>2 DEF makeSeriesKey
  <1>5. m \in ms
    BY <1>2
  <1>6. ms = OfLine(found, userLabels(m))
    <2>1. ASSUME NEW n \in ms PROVE userLabels(n) = userLabels(m)
      <3>1. IsLabels(userLabels(n)) /\ PlainLabels(userLabels(n))
        BY <1>4, UserLabels
      <3>2. IsLabels(userLabels(m)) /\ PlainLabels(userLabels(m))
        BY UserLabels
      <3>. QED
        BY <1>4, <3>1, <3>2, KeyIsLabels
    <2>2. ASSUME NEW n \in found, userLabels(n) = userLabels(m) PROVE n \in ms
      BY <1>2, <2>2
    <2>. QED
      BY <1>4, <2>1, <2>2 DEF OfLine
  <1>7. any(ms) \in ms
    BY <1>5
  <1>8. line.labels = userLabels(m)
    BY <1>3, <1>6, <1>7 DEF OfLine
  <1>. QED
    BY <1>3, <1>5, <1>6, <1>8

\* Every line of a chart keeps the averages of its samples.
LEMMA LinesKeepAverages ==
    ASSUME NEW found \in SUBSET Samples, Plain(found), TimesApart(found), NEW max \in Nat \ {0},
           NEW line \in Charts(found, max)
    PROVE  KeepsAverages(line.points, OfLine(found, line.labels), max)
  <1>1. PICK ms : ms = OfLine(found, line.labels)
    OBVIOUS
  <1>2. PICK q : q = line.points
    OBVIOUS
  <1>3. ms # {} /\ q = downsamplePoints(ByTime(ms), max)
    BY <1>1, <1>2, LineOf
  <1>4. ms \in SUBSET Samples /\ IsFiniteSet(ms)
    <2>1. ms \in SUBSET Samples
      BY <1>1 DEF OfLine
    <2>. QED
      BY <2>1, SamplesFiniteSet
  <1>5. AtDifferentTimes(ms)
    <2>1. \A m \in ms : m.time \in Int
      BY <1>4, SampleConstants DEF Samples
    <2>2. \A m, n \in ms : m.time = n.time => m = n
      BY <1>1 DEF OfLine, TimesApart
    <2>. QED
      BY <2>1, <2>2 DEF AtDifferentTimes
  <1>6. \A m \in ms : Lowest(m.value)
    BY <1>4, SampleConstants DEF Samples, Lowest, FiniteValues
  <1>7. PICK P, p : p \in Seq(P) /\ p = ByTime(ms) /\ ListsPoints(p, ms)
    BY <1>4, <1>5, ByTimeLists
  <1>8. Len(p) # 0
    <2>1. PICK m : m \in ms
      BY <1>3
    <2>2. PICK i \in 1 .. Len(p) : p[i] = PointOf(m)
      BY <1>7, <2>1 DEF ListsPoints
    <2>. QED
      BY <2>2
  <1>9. PICK n \in Nat \ {0} : \E f : Cuts(q, p, f, n) /\ n < 2 * max
    BY <1>3, <1>7, <1>8, LineIsCut
  <1>10. PICK f : Cuts(q, p, f, n) /\ n < 2 * max
    BY <1>9
  <1>11. KeepsAverages(q, ms, max)
    BY <1>5, <1>6, <1>7, <1>10, CutsKeep
  <1>. QED
    BY <1>1, <1>2, <1>11

\* A chart that was answered shows what the store was found to hold.
ChartOf(r) ==
    /\ pc[r] = "done"
    /\ ~ BadChart(workload[r])
    /\ \E found \in SUBSET Samples :
            /\ founds[r] = <<found>>
            /\ response[r].data = Charts(found, Default(workload[r].maxPoints, DefaultMaxPoints))

Charted200 ==
    \A r \in Requests : workload[r].kind = "chart" =>
        /\ pc[r] \in {"new", "done"}
        /\ response[r].code = 200 => ChartOf(r)

LeavesAlone(r) == pc'[r] = pc[r] /\ founds'[r] = founds[r] /\ response'[r] = response[r]

\* Only its handler changes what a chart's request has.
LEMMA ChartSteps ==
    ASSUME IInv, Charted200, [Next]_vars, NEW r \in Requests, workload[r].kind = "chart"
    PROVE  workload' = workload /\ (LeavesAlone(r) \/ HandleRangeQuery(r))
  <1>. DEFINE All == workload' = workload /\ (LeavesAlone(r) \/ HandleRangeQuery(r))
  <1>. SUFFICES All
    OBVIOUS
  <1>0. /\ pc \in [Requests -> Steps] /\ founds \in [Requests -> Seq(SUBSET Samples)]
        /\ response = [s \in Requests |-> response[s]]
        /\ pc[r] \in {"new", "done"}
    BY DEF IInv, Shapes, Charted200
  <1>1. ASSUME NEW q \in Requests, Refuse(q) PROVE All
    BY <1>0, <1>1 DEF Refuse, Respond, Goto, executor, LeavesAlone
  <1>2. ASSUME NEW q \in Requests, Execute(q) PROVE All
    BY <1>0, <1>2 DEF Execute, Goto, LeavesAlone
  <1>3. ASSUME NEW q \in Requests, QueryStore(q) PROVE All
    <2>1. PICK found : founds' = [founds EXCEPT ![q] = found]
      BY <1>3 DEF QueryStore
    <2>2. pc[q] = "eval" /\ Goto(q, "read") /\ UNCHANGED <<workload, response>>
      BY <1>3 DEF QueryStore
    <2>. QED
      BY <1>0, <2>1, <2>2 DEF Goto, LeavesAlone
  <1>4. ASSUME NEW q \in Requests, StoreFails(q) PROVE All
    BY <1>0, <1>4 DEF StoreFails, Respond, Goto, executor, LeavesAlone
  <1>5. ASSUME NEW q \in Requests, ReadCounter(q) \/ WriteCounter(q) PROVE All
    BY <1>0, <1>5 DEF ReadCounter, WriteCounter, Goto, executor, LeavesAlone
  <1>6. ASSUME NEW q \in Requests, CheckLimit(q) PROVE All
    <2>1. Respond(q, Failed) \/ (Goto(q, "eval") /\ UNCHANGED response)
      BY <1>6 DEF CheckLimit
    <2>2. UNCHANGED <<workload, store, executor, shared>> /\ pc[q] = "check"
      BY <1>6 DEF CheckLimit
    <2>. QED
      BY <1>0, <2>1, <2>2 DEF Respond, Goto, executor, LeavesAlone
  <1>7. ASSUME NEW q \in Requests, Spin(q) PROVE All
    BY <1>0, <1>7 DEF Spin, Goto, executor, LeavesAlone
  <1>8. ASSUME NEW q \in Requests, Finish(q) PROVE All
    <2>1. UNCHANGED <<workload, store, executor, shared>> /\ pc[q] = "eval" /\ \E resp : Respond(q, resp)
      BY <1>8 DEF Finish
    <2>. QED
      BY <1>0, <2>1 DEF Respond, Goto, executor, LeavesAlone
  <1>9. ASSUME NEW q \in Requests, HandleMetricsList(q) PROVE All
    <2>1. /\ UNCHANGED <<workload, store, executor, shared>>
          /\ workload[q].kind = "list"
          /\ \E resp : Respond(q, resp)
      BY <1>9 DEF HandleMetricsList
    <2>. QED
      BY <1>0, <2>1 DEF Respond, Goto, executor, LeavesAlone
  <1>10. ASSUME NEW q \in Requests, HandleRangeQuery(q) PROVE All
    <2>1. PICK found : founds' = [founds EXCEPT ![q] = found]
      BY <1>10 DEF HandleRangeQuery
    <2>2. workload' = workload /\ \E resp : Respond(q, resp)
      BY <1>10 DEF HandleRangeQuery
    <2>3. CASE q # r
      BY <1>0, <2>1, <2>2, <2>3 DEF Respond, Goto, LeavesAlone
    <2>. QED
      BY <1>10, <2>2, <2>3
  <1>11. ASSUME NEW m \in Arriving, Arrive(m) PROVE All
    BY <1>11 DEF Arrive, executor, LeavesAlone
  <1>12. CASE UNCHANGED vars
    BY <1>12 DEF vars, executor, LeavesAlone
  <1>. HIDE DEF All
  <1>13. ASSUME NEW q \in Requests, Step(q) PROVE All
    BY <1>3, <1>4, <1>5, <1>6, <1>7, <1>8, <1>13 DEF Step
  <1>. QED
    BY <1>1, <1>2, <1>9, <1>10, <1>11, <1>12, <1>13 DEF Next

\* What the handler of a chart answers.
LEMMA ChartHandled ==
    ASSUME IInv, NEW r \in Requests, HandleRangeQuery(r), workload' = workload,
           response'[r].code = 200
    PROVE  ChartOf(r)'
  <1>1. PICK found : found = Matching(store, Wanted(workload[r]))
    OBVIOUS
  <1>2. found \in SUBSET Samples
    BY <1>1, MatchingSubset DEF IInv, Shapes
  <1>3. founds'[r] = <<found>>
    <2>1. founds' = [founds EXCEPT ![r] = <<found>>]
      BY <1>1 DEF HandleRangeQuery
    <2>. QED
      BY <2>1 DEF IInv, Shapes
  <1>4. ASSUME NEW resp, Respond(r, resp) PROVE pc'[r] = "done" /\ response'[r] = resp
    BY <1>4 DEF Respond, Goto, IInv, Shapes
  <1>5. Refused.code # 200 /\ Failed.code # 200 /\ Aborted.code # 200
    BY DEF Refused, Failed, Aborted
  <1>6. ~ Respond(r, Refused) /\ ~ Respond(r, Failed) /\ ~ Respond(r, Aborted)
    BY <1>4, <1>5
  <1>7. PICK data : data = Charts(found, Default(workload[r].maxPoints, DefaultMaxPoints))
    OBVIOUS
  <1>8. ~ BadChart(workload[r]) /\ Respond(r, Answer(data))
    BY <1>1, <1>6, <1>7 DEF HandleRangeQuery, ChartAnswer
  <1>9. pc'[r] = "done" /\ response'[r].data = data
    BY <1>4, <1>8 DEF Answer
  <1>10. ~ BadChart(workload'[r])
    BY <1>8
  <1>. QED
    BY <1>2, <1>3, <1>7, <1>9, <1>10 DEF ChartOf

\* Charts stay as they were answered.
LEMMA ChartsKept ==
    /\ Init => Charted200
    /\ IInv /\ Charted200 /\ [Next]_vars => Charted200'
  <1>1. Init => Charted200
    BY DEF Init, Charted200, NoResponse
  <1>2. ASSUME IInv, Charted200, [Next]_vars, NEW r \in Requests, workload'[r].kind = "chart"
        PROVE  pc'[r] \in {"new", "done"} /\ (response'[r].code = 200 => ChartOf(r)')
    <2>0. workload' = workload
      BY <1>2 DEF Next, Step, vars, Refuse, Execute, QueryStore, StoreFails, ReadCounter,
             WriteCounter, CheckLimit, Spin, Finish, HandleMetricsList, HandleRangeQuery, Arrive
    <2>1. workload[r].kind = "chart"
      BY <1>2, <2>0
    <2>2. LeavesAlone(r) \/ HandleRangeQuery(r)
      BY <1>2, <2>1, ChartSteps
    <2>3. CASE LeavesAlone(r)
      BY <1>2, <2>0, <2>1, <2>3 DEF LeavesAlone, Charted200, ChartOf, BadChart, Wanted
    <2>4. CASE HandleRangeQuery(r)
      <3>1. pc'[r] = "done"
        BY <1>2, <2>4 DEF HandleRangeQuery, Respond, Goto, IInv, Shapes
      <3>. QED
        BY <1>2, <2>0, <2>4, <3>1, ChartHandled
    <2>. QED
      BY <2>2, <2>3, <2>4
  <1>. QED
    BY <1>1, <1>2 DEF Charted200

\* In every state, an answered chart has fewer than twice the points asked for, and each
\* point is the average of the samples from it to the next; no sample is left out.
THEOREM ChartsKeepAverages == Spec => []ChartKeepsAverages
  <1>1. Charted200 => ChartKeepsAverages
    <2>. SUFFICES ASSUME Charted200, NEW r \in Requests, Answered(r, {"chart"}),
                         Plain(founds[r][1]), TimesApart(founds[r][1]),
                         NEW line \in response[r].data,
                         NEW max, max = Default(workload[r].maxPoints, DefaultMaxPoints)
                  PROVE  KeepsAverages(line.points, Charted(r, line), max)
      BY DEF ChartKeepsAverages, KeepsAverages, From, Total
    <2>1. ChartOf(r)
      BY DEF Charted200, Answered
    <2>2. PICK found \in SUBSET Samples :
              founds[r] = <<found>> /\ response[r].data = Charts(found, max)
      BY <2>1 DEF ChartOf
    <2>3. founds[r][1] = found
      BY <2>2
    <2>4. max \in Nat \ {0}
      <3>1. workload[r].maxPoints = Nothing \/ workload[r].maxPoints \in 1 .. MaxPointsLimit
        BY <2>1 DEF ChartOf, BadChart
      <3>. QED
        BY <3>1, ServerConstants DEF Default
    <2>5. KeepsAverages(line.points, OfLine(found, line.labels), max)
      BY <2>2, <2>3, <2>4, LinesKeepAverages
    <2>6. Charted(r, line) = OfLine(found, line.labels)
      BY <2>3 DEF Charted, OfLine
    <2>. QED
      BY <2>5, <2>6
  <1>. QED
    BY <1>1, InvariantHolds, InvariantIsKept, ChartsKept, PTL DEF Spec
=============================================================================
