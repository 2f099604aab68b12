---------------------------- MODULE QueryAnswers ----------------------------
(***************************************************************************)
(* What the query endpoints answer: the properties of QueryServer, run     *)
(* with the parser and the executor, that are about expressions.           *)
(***************************************************************************)
EXTENDS QueryServer, QueryEngine

\* "Match points by timestamp": the two sides of m - m are read one after the
\* other, and samples that arrive in between, even late ones, do not make them
\* differ.
SelfDifferenceIsZero ==
    \A r \in Requests :
        Answered(r, ExecutorKinds) /\ query[r].expr.kind = "binary" =>
            LET e == query[r].expr
            IN  e.op = "Minus" /\ e.left = e.right /\ e.left.kind = "vector" =>
                    \A s \in response[r].data : \A t \in DOMAIN s.points : s.points[t] = Zero

\* An aggregation loses no sample and counts none twice, however it is grouped.
CountsEverySample ==
    \A r \in Requests :
        /\ Answered(r, {"execute", "range"}) /\ query[r].expr.kind = "aggregate"
        /\ query[r].expr.op = "count" /\ query[r].expr.expr.kind = "vector"
        =>      \A m \in founds[r][1] :
                    LET counting == {s \in response[r].data : m.time \in DOMAIN s.points}
                    IN  Sum(counting, m.time)
                            = Number(Cardinality({n \in founds[r][1] : n.time = m.time}))

\* "creates a unique key for a time series based on labels": samples are in one
\* series exactly when their labels are the same, as long as no value holds a comma.
SeriesStayApart ==
    \A r \in Requests :
        Answered(r, {"execute", "range"}) /\ query[r].expr.kind = "vector" =>
            LET found == founds[r][1]
            IN  Plain(found) =>
                /\ {s.labels : s \in response[r].data} = {m.labels : m \in found}
                /\ \A s \in response[r].data :
                        s.points = [t \in {m.time : m \in {n \in found : n.labels = s.labels}} |->
                            (CHOOSE m \in found : m.labels = s.labels /\ m.time = t).value]

\* An answered rate or increase.  Label values without commas keep its series apart.
RateAnswered(r) ==
    /\ Answered(r, {"execute", "range"}) /\ query[r].expr.kind = "call"
    /\ query[r].expr.args[1].duration \in Nat \ {0}
    /\ Plain(founds[r][1])

Seconds(r) == query[r].expr.args[1].duration

Behind(r, s) == {m \in founds[r][1] : m.labels = s.labels}

\* The point is the rise of a counter from one sample to another; one that fell has
\* not risen.
IsRise(r, point, from, to) ==
    (IF query[r].expr.name = "rate" THEN Times(point, Number(Seconds(r))) ELSE point)
        = IF Less(to.value, from.value) THEN Zero ELSE Minus(to.value, from.value)

\* A rate compares each sample with the last one before the window that ends with it;
\* one exactly at the window's start counts only when nothing is older.
RatesSpanTheWindow ==
    \A r \in Requests : RateAnswered(r) => \A s \in response[r].data :
        LET ms == Behind(r, s)
            base(m, b) ==
                /\ b.time <= m.time - Seconds(r)
                /\ \A n \in ms : n.time < m.time - Seconds(r) =>
                        n.time <= b.time /\ b.time < m.time - Seconds(r)
        IN  /\ DOMAIN s.points = {m.time : m \in {n \in ms : \E b \in ms : base(n, b)}}
            /\ \A m \in ms : m.time \in DOMAIN s.points =>
                    \E b \in ms : base(m, b) /\ IsRise(r, s.points[m.time], b, m)

\* "Find the point 'duration' seconds ago": where a sample has exactly that time, a rate
\* or an increase is the rise since it.
RatesUseThePointAgo ==
    \A r \in Requests : RateAnswered(r) => \A s \in response[r].data :
        \A b, m \in Behind(r, s) :
            m.time \in DOMAIN s.points /\ b.time = m.time - Seconds(r) =>
                IsRise(r, s.points[m.time], b, m)
=============================================================================
