---------------------------- MODULE QueryResults ----------------------------
(***************************************************************************)
(* What the query executor (pkg/query/executor.go) computes: series from   *)
(* samples, binary operations, aggregations, rates.  Evaluating an         *)
(* expression as a whole is in QueryEngine.                                *)
(*                                                                         *)
(* A sample is a stored metric.  A series is a label set and its points, a *)
(* function from times to numbers; a result is a set of series.  A label   *)
(* value is a sequence of pieces, so that a value can hold the characters  *)
(* the executor joins labels with.  Times and durations count seconds.     *)
(*                                                                         *)
(* A name ending in "_" and a word is a mutated form of the next           *)
(* definition, used to show that a property can fail.                      *)
(***************************************************************************)
EXTENDS Integers, Sequences, SequencesExt

CONSTANT LabelNames    \* every label name, in the order of sort.Strings

\* What the executor joins labels with.
Comma == ","

ASSUME LabelConstants == LabelNames \in Seq(STRING) /\ Comma \notin Range(LabelNames)

Sample(name, labels, t, v) == [name |-> name, labels |-> labels, time |-> t, value |-> v]

Series(labels, points) == [labels |-> labels, points |-> points]

-----------------------------------------------------------------------------
(***************************************************************************)
(* float64, as fractions in lowest terms: rounding and overflow are left   *)
(* out.  A denominator of zero makes an infinity or NaN.                   *)
(***************************************************************************)
Abs(n) == IF n < 0 THEN -n ELSE n
Sign(n) == IF n = 0 THEN 0 ELSE IF n < 0 THEN -1 ELSE 1

NaN == <<0, 0>>

Fraction(n, d) ==
    IF d = 0 THEN <<Sign(n), 0>>
    ELSE LET least == Min({k \in 1 .. Abs(d) : (n * k) % Abs(d) = 0})
         IN  <<Sign(d) * ((n * least) \div Abs(d)), least>>

Number(n) == <<n, 1>>
Zero == Number(0)

Negative(x) == <<-x[1], x[2]>>
Plus(x, y)  == IF x = y /\ x[2] = 0 THEN x ELSE Fraction(x[1] * y[2] + y[1] * x[2], x[2] * y[2])
Minus(x, y) == Plus(x, Negative(y))
Times(x, y) == Fraction(x[1] * y[1], x[2] * y[2])
Over(x, y)  == Fraction(x[1] * y[2] * Sign(y[1]), x[2] * Abs(y[1]))

Less(x, y) ==
    /\ x # NaN /\ y # NaN
    /\ x[1] * y[2] < y[1] * x[2] \/ (x[2] = 0 /\ y[2] = 0 /\ x[1] < y[1])

\* math.Mod: the sign is the dividend's.
Remainder(x, y) ==
    LET quotient == Over(x, y)
        whole    == Sign(quotient[1]) * (Abs(quotient[1]) \div quotient[2])
    IN  IF x[2] = 0 \/ y = NaN THEN NaN
        ELSE IF y[2] = 0 THEN x
        ELSE Minus(x, Times(Number(whole), y))

\* math.Pow, for whole exponents.  Zero to a negative one is infinite.
Power(x, y) ==
    CASE y = Zero -> Number(1)
      [] y[1] > 0 -> Fraction(x[1] ^ y[1], x[2] ^ y[1])
      [] x = Zero -> <<1, 0>>
      [] OTHER    -> Over(Number(1), Fraction(x[1] ^ (-y[1]), x[2] ^ (-y[1])))

-----------------------------------------------------------------------------
(***************************************************************************)
(* Series from samples.                                                    *)
(***************************************************************************)
\* The labels with the names, joined in order of name: k1=v1,k2=v2,
Joined(labels, names) ==
    LET pair(k) == <<k, "=">> \o labels[k] \o <<Comma>>
    IN  FlattenSeq([i \in DOMAIN LabelNames |->
            IF LabelNames[i] \in names \cap DOMAIN labels THEN pair(LabelNames[i]) ELSE << >>])

seriesKey_Names(labels) ==
    SelectSeq(LabelNames, LAMBDA k : k \in DOMAIN labels)

seriesKey(labels) == Joined(labels, DOMAIN labels)

\* A label that is missing reads as an empty value.
ValueOf(labels, k) == IF k \in DOMAIN labels THEN labels[k] ELSE << >>

\* storage.Query, for the one metric of a selector.
Matching(store, request) ==
    {m \in store :
        /\ m.name = request.name
        /\ m.time \in request.start .. request.end
        /\ \A k \in DOMAIN request.labels : ValueOf(m.labels, k) = request.labels[k]}

\* One series per key, labelled like its first sample.  The order of samples is
\* the store's, and no two samples of a series have one time.
SeriesOf(found) ==
    LET of(key) == {m \in found : seriesKey(m.labels) = key}
        any(ms) == CHOOSE m \in ms : TRUE
        points(ms) == [t \in {m.time : m \in ms} |-> any({m \in ms : m.time = t}).value]
    IN  {Series(any(of(key)).labels, points(of(key))) :
            key \in {seriesKey(m.labels) : m \in found}}

-----------------------------------------------------------------------------
(***************************************************************************)
(* Operators.                                                              *)
(***************************************************************************)
\* Comparisons and set operators are parsed and compute nothing.
applyOp(x, y, op) ==
    CASE op = "Plus"     -> Plus(x, y)
      [] op = "Minus"    -> Minus(x, y)
      [] op = "Multiply" -> Times(x, y)
      [] op = "Divide"   -> IF y # Zero THEN Over(x, y) ELSE NaN
      [] op = "Power"    -> Power(x, y)
      [] op = "Mod"      -> IF y # Zero THEN Remainder(x, y) ELSE NaN
      [] OTHER           -> NaN

TheSeries(result) == CHOOSE s \in result : TRUE

\* Only one series against one.
CanApply(left, right) == Cardinality(left) = 1 /\ Cardinality(right) = 1

InSomeOrder(set) == FoldSet(LAMBDA e, seq : <<e>> \o seq, << >>, set)

SortedTimes(points) ==
    LET rank(t) == Cardinality({u \in DOMAIN points : u <= t})
    IN  [i \in 1 .. Cardinality(DOMAIN points) |-> CHOOSE t \in DOMAIN points : rank(t) = i]

applyBinaryOp_ByPosition(left, right, op) ==
    LET l == TheSeries(left)
        r == TheSeries(right)
        lt == SortedTimes(l.points)
        rt == SortedTimes(r.points)
        common == 1 .. Min({Len(lt), Len(rt)})
    IN  {Series(l.labels,
            [t \in {lt[i] : i \in common} |->
                LET i == CHOOSE n \in common : lt[n] = t
                IN  applyOp(l.points[t], r.points[rt[i]], op)])}

\* Points are matched by their times.
applyBinaryOp(left, right, op) ==
    LET l == TheSeries(left)
        r == TheSeries(right)
    IN  {Series(l.labels,
            [t \in DOMAIN l.points \cap DOMAIN r.points |->
                applyOp(l.points[t], r.points[t], op)])}

EachPoint(result, f(_)) ==
    {Series(s.labels, [t \in DOMAIN s.points |-> f(s.points[t])]) : s \in result}

\* A unary plus changes nothing.
applyUnaryOp(result, op) ==
    IF op = "Minus" THEN EachPoint(result, Negative) ELSE result

\* One point per step, for a step that gets anywhere.
Literal(value, start, end, step) ==
    {Series(<< >>, [t \in {u \in start .. end : (u - start) % step = 0} |-> value])}

-----------------------------------------------------------------------------
(***************************************************************************)
(* Aggregation.                                                            *)
(***************************************************************************)
GroupNames(labels, grouping, without) ==
    IF without THEN DOMAIN labels \ grouping ELSE DOMAIN labels \cap grouping

buildGroupKey(labels, grouping, without) ==
    Joined(labels, GroupNames(labels, grouping, without))

extractGroupLabels(labels, grouping, without) ==
    Restrict(labels, GroupNames(labels, grouping, without))

groupSeries_KeepsOne(result, grouping, without) ==
    LET of(key) == {s \in result : buildGroupKey(s.labels, grouping, without) = key}
    IN  {LET s == TheSeries(of(key))
         IN  [labels |-> extractGroupLabels(s.labels, grouping, without), series |-> {s}] :
            key \in {buildGroupKey(s.labels, grouping, without) : s \in result}}

\* A group takes its labels from its first series.
groupSeries(result, grouping, without) ==
    LET of(key) == {s \in result : buildGroupKey(s.labels, grouping, without) = key}
    IN  {[labels |-> extractGroupLabels(TheSeries(of(key)).labels, grouping, without),
          series |-> of(key)] :
            key \in {buildGroupKey(s.labels, grouping, without) : s \in result}}

Sum(group, t) == FoldSet(LAMBDA s, total : Plus(total, s.points[t]), Zero, group)

\* With a NaN among several values their order decides; any of them then.
Greatest(values) == CHOOSE x \in values : \A y \in values : ~ Less(x, y)
Least(values)    == CHOOSE x \in values : \A y \in values : ~ Less(y, x)

\* Over the series that have a point at the time.  The operator is compared as
\* it was typed.
aggregate(series, op) ==
    [t \in UNION {DOMAIN s.points : s \in series} |->
        LET group  == {s \in series : t \in DOMAIN s.points}
            values == {s.points[t] : s \in group}
            count  == Number(Cardinality(group))
        IN  CASE op = "sum"   -> Sum(group, t)
              [] op = "avg"   -> Over(Sum(group, t), count)
              [] op = "max"   -> Greatest(values)
              [] op = "min"   -> Least(values)
              [] op = "count" -> count
              [] OTHER        -> NaN]

Aggregated(result, op, grouping, without) ==
    {Series(g.labels, aggregate(g.series, op)) : g \in groupSeries(result, grouping, without)}

-----------------------------------------------------------------------------
(***************************************************************************)
(* rate and increase.                                                      *)
(***************************************************************************)
\* How far the window's start moves for the i-th of the times: to the last time
\* before the window, or nowhere.
Advance_OneStep(times, from, i, duration) ==
    IF from < i /\ times[from + 1] < times[i] - duration THEN from + 1 ELSE from

Advance(times, from, i, duration) ==
    CHOOSE k \in from .. i :
        /\ \A j \in from .. k - 1 : times[j + 1] < times[i] - duration
        /\ k < i => times[k + 1] >= times[i] - duration

\* Two pointers: the start never moves back.
startIdx(times, duration) ==
    LET start[i \in DOMAIN times] ==
            Advance(times, IF i = 1 THEN 1 ELSE start[i - 1], i, duration)
    IN  start

\* A falling counter was reset and counts as standing still.
RatePerSecond(from, to, duration) ==
    LET rate == LET rise == Minus(to, from) IN Fraction(rise[1], rise[2] * duration)
    IN  IF Less(rate, Zero) THEN Zero ELSE rate

RatePoints(points, duration) ==
    LET times  == SortedTimes(points)
        starts == startIdx(times, duration)
        rated  == {i \in DOMAIN times :
                    starts[i] < i /\ times[starts[i]] <= times[i] - duration}
        index(t) == CHOOSE i \in rated : times[i] = t
    IN  [t \in {times[i] : i \in rated} |->
            RatePerSecond(points[times[starts[index(t)]]], points[t], duration)]

Rate(result, duration) ==
    {Series(s.labels, RatePoints(s.points, duration)) : s \in result}

Increase(result, duration) ==
    LET scaled(x) == Times(x, Number(duration))
    IN  EachPoint(Rate(result, duration), scaled)
=============================================================================
