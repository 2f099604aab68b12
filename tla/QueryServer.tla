---------------------------- MODULE QueryServer ----------------------------
(***************************************************************************)
(* The HTTP handlers that read metrics: pkg/query/handler.go, whose one    *)
(* executor all requests share, and the dashboard's.  Requests overlap,    *)
(* and samples arrive in the store while they run.                         *)
(*                                                                         *)
(* The executor counts the samples of a query in a field of its own,       *)
(* without a lock: every access of it is a step here.                      *)
(*                                                                         *)
(* A name ending in "_" and a word is a mutated form of the next           *)
(* definition, used to show that a property can fail.                      *)
(***************************************************************************)
EXTENDS Dashboard

CONSTANTS
    Requests,           \* the requests
    Workloads,          \* what the requests ask, one function per workload
    Nothing,            \* a parameter that is missing or cannot be read as a time
    Malformed,          \* a step or a number of points that cannot be read
    Stored,             \* the samples in the store at first
    Arriving,           \* the samples that may arrive
    Now,
    QueryDefaultWindow,
    QueryDefaultStep,
    InstantWindow,      \* 5 minutes
    ListWindow,         \* 24 hours
    ListLimit,
    MaxWindow,          \* 90 days
    DefaultMaxPoints,
    MaxPointsLimit,
    MaxSamples,
    ParseQuery(_),      \* QueryParser's Parse
    Evaluate(_, _, _)   \* QueryExpressions' Eval

ASSUME ServerConstants ==
    /\ MaxSamples \in Nat
    /\ DefaultMaxPoints \in Nat \ {0}
    /\ MaxPointsLimit \in Nat
    /\ IsFiniteSet(Stored)
    /\ IsFiniteSet(Arriving)

\* Values are finite; the store keeps one sample for a name, labels and a time.
ASSUME SampleConstants ==
    \A m \in Stored \cup Arriving :
        /\ m.time \in Int
        /\ m.value \in Int \X (Nat \ {0}) /\ m.value = Fraction(m.value[1], m.value[2])
        /\ \E names \in SUBSET Range(LabelNames) : m.labels \in [names -> Seq(STRING)]
        /\ \A n \in Stored \cup Arriving :
                m.name = n.name /\ m.labels = n.labels /\ m.time = n.time => m = n

VARIABLES
    workload,      \* what each request asks
    store,
    pc,            \* per request: what its goroutine does next
    query,         \* per request: expression, start, end and step
    founds,        \* per request: what its selectors have found so far
    register,      \* per request: the sum it is about to store
    samplesLoaded, \* the executor's counter
    response,
    loaded,        \* auxiliary, per request: the samples its selectors found
    shared         \* auxiliary, per request: another one executed meanwhile

executor == <<query, founds, loaded, register, samplesLoaded>>
vars == <<workload, store, pc, executor, response, shared>>

NoResponse == [code |-> 0]
Refused    == [code |-> 400]
Failed     == [code |-> 500]
Aborted    == [code |-> 1]      \* no answer: net/http closes the connection after a panic
Answer(data) == [code |-> 200, data |-> data]

NoQuery == [expr |-> [kind |-> "nil"], start |-> 0, end |-> 0, step |-> 1]

Goto(r, step) == pc' = [pc EXCEPT ![r] = step]

Respond(r, resp) ==
    /\ Goto(r, "done")
    /\ response' = [response EXCEPT ![r] = resp]

\* A query that spins has read the counter for the last time.
Executing == {r \in Requests : pc[r] \in {"eval", "read", "write", "check"}}

Default(param, default) == IF param = Nothing THEN default ELSE param

-----------------------------------------------------------------------------
(***************************************************************************)
(* The query of a request, or an error.  The method, and the JSON of the   *)
(* execute endpoint, are taken to be right.                                *)
(***************************************************************************)
\* An instant query looks back, whatever it asks.
RangeOf(req) ==
    LET now == Default(req.end, Now)
    IN  IF req.kind = "instant"
        THEN [start |-> now - InstantWindow, end |-> now, step |-> 1]
        ELSE [start |-> Default(req.start, Now - QueryDefaultWindow),
              end   |-> now,
              step  |-> IF req.step \in {Nothing, Malformed} THEN QueryDefaultStep ELSE req.step]

\* The Prometheus endpoint forgives a malformed step.
Invalid(req) ==
    \/ req.tokens = << >>
    \/ req.kind = "execute" /\ req.step = Malformed
    \/ req.kind # "instant" /\ RangeOf(req).start >= RangeOf(req).end
    \/ ParseQuery(req.tokens).kind = "error"

Refuse(r) ==
    /\ pc[r] = "new"
    /\ workload[r].kind \in {"execute", "range", "instant"}
    /\ Invalid(workload[r])
    /\ Respond(r, Refused)
    /\ UNCHANGED <<workload, store, executor, shared>>

\* Execute begins with the counter's reset.
ResetCounter_Kept == UNCHANGED samplesLoaded

ResetCounter == samplesLoaded' = 0

Execute(r) ==
    /\ pc[r] = "new"
    /\ workload[r].kind \in {"execute", "range", "instant"}
    /\ ~ Invalid(workload[r])
    /\ LET t == RangeOf(workload[r])
       IN  query' = [query EXCEPT ![r] =
                [expr |-> ParseQuery(workload[r].tokens), start |-> t.start, end |-> t.end,
                 step |-> t.step]]
    /\ ResetCounter
    /\ Goto(r, "eval")
    /\ shared' = [s \in Requests |->
                    IF s = r THEN Executing # {} ELSE shared[s] \/ s \in Executing]
    /\ UNCHANGED <<workload, store, founds, loaded, register, response>>

Outcome(r) == Evaluate(query[r].expr, query[r], founds[r])

\* The last point of a series, if there is one.
LastPoint(s) ==
    IF s.points = << >> THEN s
    ELSE LET last == Max(DOMAIN s.points) IN Series(s.labels, [t \in {last} |-> s.points[t]])

Converted_Whole(r, result) == result

Converted(r, result) ==
    IF workload[r].kind = "instant" THEN {LastPoint(s) : s \in result} ELSE result

-----------------------------------------------------------------------------
(***************************************************************************)
(* executeExpr.                                                            *)
(***************************************************************************)
QueryStore(r) ==
    /\ pc[r] = "eval"
    /\ Outcome(r).kind = "needs"
    /\ LET found == Matching(store, Outcome(r).request)
       IN  /\ founds' = [founds EXCEPT ![r] = Append(@, found)]
           /\ loaded' = [loaded EXCEPT ![r] = @ + Cardinality(found)]
    /\ Goto(r, "read")
    /\ UNCHANGED <<workload, store, query, register, samplesLoaded, response, shared>>

\* The store fails, or the client of the request has left.
StoreFails(r) ==
    /\ pc[r] = "eval"
    /\ Outcome(r).kind = "needs"
    /\ Respond(r, Failed)
    /\ UNCHANGED <<workload, store, executor, shared>>

\* e.samplesLoaded += len(metricsData)
ReadCounter(r) ==
    /\ pc[r] = "read"
    /\ register' = [register EXCEPT ![r] = samplesLoaded + Cardinality(Last(founds[r]))]
    /\ Goto(r, "write")
    /\ UNCHANGED <<workload, store, query, founds, loaded, samplesLoaded, response, shared>>

WriteCounter(r) ==
    /\ pc[r] = "write"
    /\ samplesLoaded' = register[r]
    /\ Goto(r, "check")
    /\ UNCHANGED <<workload, store, query, founds, loaded, register, response, shared>>

\* The build may read the field again, or compare what it has just stored.
CheckLimit(r) ==
    /\ pc[r] = "check"
    /\ \E n \in {samplesLoaded, register[r]} :
            IF n > MaxSamples
            THEN Respond(r, Failed)
            ELSE Goto(r, "eval") /\ UNCHANGED response
    /\ UNCHANGED <<workload, store, executor, shared>>

\* Nothing ends the loop: the context of a query has no deadline, and the loop does
\* not look at it.
Spin(r) ==
    /\ pc[r] = "eval"
    /\ Outcome(r).kind = "spins"
    /\ Goto(r, "spin")
    /\ UNCHANGED <<workload, store, executor, response, shared>>

Finish(r) ==
    /\ pc[r] = "eval"
    /\ \/ Outcome(r).kind = "fails" /\ Respond(r, Failed)
       \/ Outcome(r).kind = "value" /\ Respond(r, Answer(Converted(r, Outcome(r).result)))
    /\ UNCHANGED <<workload, store, executor, shared>>

-----------------------------------------------------------------------------
(***************************************************************************)
(* The dashboard's handlers: one query of the store each.                  *)
(***************************************************************************)
HandleMetricsList(r) ==
    /\ pc[r] = "new"
    /\ workload[r].kind = "list"
    /\ \/ \E found \in FirstFound({m \in store : m.time \in Now - ListWindow .. Now}, ListLimit) :
                Respond(r, Answer(Metrics(found)))
       \/ Respond(r, Failed)
    /\ UNCHANGED <<workload, store, executor, shared>>

Wanted(req) ==
    [name |-> req.name, start |-> Default(req.start, Now - QueryDefaultWindow),
     end |-> Default(req.end, Now), labels |-> << >>]

BadChart(req) ==
    \/ Wanted(req).end < Wanted(req).start
    \/ Wanted(req).end - Wanted(req).start > MaxWindow
    \/ req.maxPoints = Malformed
    \/ req.maxPoints # Nothing /\ req.maxPoints \notin 1 .. MaxPointsLimit

ChartAnswer(found, maxPoints) ==
    IF Panics(found) THEN Aborted ELSE Answer(Charts(found, maxPoints))

HandleRangeQuery(r) ==
    LET req == workload[r]
    IN  /\ pc[r] = "new"
        /\ req.kind = "chart"
        /\ \/ BadChart(req) /\ Respond(r, Refused)
           \/ /\ ~ BadChart(req)
              /\ \/ Respond(r, Failed)
                 \/ Respond(r, ChartAnswer(Matching(store, Wanted(req)),
                                           Default(req.maxPoints, DefaultMaxPoints)))
        /\ founds' = [founds EXCEPT ![r] = <<Matching(store, Wanted(req))>>]
        /\ UNCHANGED <<workload, store, query, loaded, register, samplesLoaded, shared>>

-----------------------------------------------------------------------------
\* Ingestion.
Arrive(m) ==
    /\ m \in Arriving \ store
    /\ store' = store \cup {m}
    /\ UNCHANGED <<workload, pc, executor, response, shared>>

Init ==
    /\ workload \in Workloads
    /\ store = Stored
    /\ pc = [r \in Requests |-> "new"]
    /\ query = [r \in Requests |-> NoQuery]
    /\ founds = [r \in Requests |-> << >>]
    /\ loaded = [r \in Requests |-> 0]
    /\ register = [r \in Requests |-> 0]
    /\ samplesLoaded = 0
    /\ response = [r \in Requests |-> NoResponse]
    /\ shared = [r \in Requests |-> FALSE]

Step(r) ==
    \/ QueryStore(r) \/ StoreFails(r)
    \/ ReadCounter(r) \/ WriteCounter(r) \/ CheckLimit(r)
    \/ Spin(r) \/ Finish(r)

Next ==
    \/ \E r \in Requests :
        Refuse(r) \/ Execute(r) \/ Step(r) \/ HandleMetricsList(r) \/ HandleRangeQuery(r)
    \/ \E m \in Arriving : Arrive(m)

Spec == Init /\ [][Next]_vars

Steps == {"new", "eval", "read", "write", "check", "spin", "done"}

\* Step(r), seen from its goroutine: each of its disjuncts changes pc[r].
GoesOn(r) == pc[r] \in {"eval", "read", "write", "check"} /\ \E s \in Steps \ {pc[r]} : Goto(r, s)

\* A request that is being executed goes on: the store answers it, or fails.
FairSpec == Spec /\ \A r \in Requests : WF_pc(GoesOn(r))

-----------------------------------------------------------------------------
(***************************************************************************)
(* Properties.                                                             *)
(***************************************************************************)
ExecutorKinds == {"execute", "range", "instant"}

\* The type invariant; an instant query answers with one point per series.
TypeOK ==
    /\ workload \in Workloads
    /\ store \subseteq Stored \cup Arriving
    /\ pc \in [Requests -> Steps]
    /\ \A r \in Requests : \A i \in DOMAIN founds[r] : founds[r][i] \subseteq store
    /\ loaded \in [Requests -> Nat]
    /\ register \in [Requests -> Nat]
    /\ samplesLoaded \in Nat
    /\ shared \in [Requests -> BOOLEAN]
    /\ \A r \in Requests :
        /\ response[r].code \in {0, 1, 200, 400, 500}
        /\ response[r].code = 200 /\ workload[r].kind = "instant" =>
                \A s \in response[r].data : Cardinality(DOMAIN s.points) <= 1

\* "Track samples loaded per query for limit enforcement": a query that no
\* other one overlaps is held to its own samples and to no one else's, whatever ran
\* before it and however it ended.  (Overlapping queries share the counter.)
LoneQueryIsLimited ==
    \A r \in Requests : ~ shared[r] =>
        /\ pc[r] = "eval" => loaded[r] <= MaxSamples
        /\ pc[r] = "check" => samplesLoaded = loaded[r] /\ register[r] = loaded[r]
        /\ response[r].code = 200 => loaded[r] <= MaxSamples

Answered(r, kinds) == workload[r].kind \in kinds /\ response[r].code = 200

\* No label value holds the comma that keys are joined with.
Plain(found) == \A m \in found : \A k \in DOMAIN m.labels : ~ Contains(m.labels[k], Comma)

\* The samples behind one line of a chart.
Charted(r, line) == {m \in founds[r][1] : userLabels(m) = line.labels}

\* No sample has the time and the user labels of another: a raw sample and an aggregate
\* that begins when it was taken do.
TimesApart(found) ==
    \A m, n \in found : userLabels(m) = userLabels(n) /\ m.time = n.time => m = n

\* A chart has fewer than twice the points asked for, and every sample is in the
\* average of exactly one of them: the one that begins last at or before it.  Label
\* values without commas keep the lines apart.
ChartKeepsAverages ==
    \A r \in Requests :
      Answered(r, {"chart"}) /\ Plain(founds[r][1]) /\ TimesApart(founds[r][1]) =>
      \A line \in response[r].data :
        LET n == Len(line.points)
            of(k) == {m \in Charted(r, line) :
                        /\ line.points[k].time <= m.time
                        /\ k < n => m.time < line.points[k + 1].time}
            total(ms) == FoldSet(LAMBDA m, sum : Plus(sum, m.value), Zero, ms)
        IN  /\ n < 2 * Default(workload[r].maxPoints, DefaultMaxPoints)
            /\ UNION {of(k) : k \in 1 .. n} = Charted(r, line)
            /\ \A k \in 1 .. n :
                    Times(line.points[k].value, Number(Cardinality(of(k)))) = total(of(k))

\* "Execute query with timeout": every query that begins is answered in the end.
QueriesTimeOut == \A r \in Requests : pc[r] = "eval" ~> response[r] # NoResponse
=============================================================================
