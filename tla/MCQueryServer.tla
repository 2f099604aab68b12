--------------------------- MODULE MCQueryServer ---------------------------
(***************************************************************************)
(* An instance of QueryServer for TLC.  Most workloads are one request: an *)
(* arithmetic expression, a selector, an aggregation, a rate, a chart, or  *)
(* something the handlers refuse.  In the others two requests overlap.     *)
(***************************************************************************)
EXTENDS QueryExpressions

CONSTANTS r1, r2

MCParseQuery(ts) == Parse(ts)
MCEvaluate(e, q, found) == Eval(e, q, found)

MCLabelNames == <<"", "__resolution__", "a", "b">>
MCInternalLabels == {"__resolution__"}

(***************************************************************************)
(* The store.  The two series of n have one key.                           *)
(***************************************************************************)
X == <<"x">>
Y == <<"y">>

Points(name, labels, values) == {Sample(name, labels, t, Number(values[t])) : t \in DOMAIN values}

OnlyA  == [a |-> X]
Both   == [a |-> Y, b |-> X]
Folded == [a |-> X] @@ [l \in {"__resolution__"} |-> <<"5m">>]

MCStored ==
    Points("m", OnlyA, 0 :> 1 @@ 2 :> 2 @@ 3 :> 5 @@ 5 :> 3 @@ 6 :> 4)
        \cup Points("m", Both, 3 :> 2 @@ 6 :> 9)
        \cup Points("m", [a |-> Y], 5 :> 7)
        \cup Points("m", Folded, 4 :> 6)
        \cup Points("k", << >>, 0 :> 1 @@ 2 :> 4)
        \cup Points("n", [a |-> <<"x", ",", "b", "=", "y">>], 1 :> 1)
        \cup Points("n", [a |-> X, b |-> Y], 2 :> 2)
        \cup Points("e", [l \in {""} |-> X], 2 :> 1)

MCArriving == Points("k", << >>, 1 :> 2) \cup Points("m", Both, 8 :> 9)

(***************************************************************************)
(* Queries.                                                                *)
(***************************************************************************)
Op(type)   == Token(type, "")
Id(name)   == Token("Identifier", name)
Num(n)     == Token("Number", Number(n))
In(ts)     == <<Op("LeftParen")>> \o ts \o <<Op("RightParen")>>
Window(n, unit) == <<Op("LeftBracket"), Token("Duration", [value |-> n, unit |-> unit]), Op("RightBracket")>>
Where(k, op, v) == <<Op("LeftBrace"), Id(k), Op(op), Token("String", v), Op("RightBrace")>>
Call(name, ts)  == <<Id(name)>> \o In(ts)
Group(type, op, by, labels, ts) == <<Token(type, op), Op(by)>> \o In(labels) \o In(ts)

Operators == {"Or", "And", "Unless", "Less", "Minus", "Divide", "Power"}

Arithmetic ==
    {<<Op("Minus"), Num(1), Op(f), Num(2), Op(g), Op("Minus"), Num(1), Op(h), Num(2)>> :
        f \in Operators, g \in Operators \ {"Less"}, h \in Operators \ {"Less"}}
    \cup {In(<<Num(1), Op(f), Num(2)>>) \o <<Op(g), Num(2), Op("Mod"), Num(1)>> :
        f \in Operators, g \in Operators}

Selectors ==
    {<<Id("m")>>, <<Id("n")>>, <<Id("m")>> \o Where("a", "Equal", X),
     <<Id("m")>> \o Where("a", "NotEqual", X), <<Id("m")>> \o Window(2, "s")}

Aggregations ==
    {Group("Count", "count", by, labels, <<Id("m")>>) :
        by \in {"By", "Without"}, labels \in {<<Id("a")>>, <<Id("a"), Op("Comma"), Id("b")>>}}
    \cup {<<Token(t, op)>> \o In(<<Id("m")>>) :
            t \in {"Sum"}, op \in {"sum", "avg", "max", "min", "count", "SUM"}}

Rates ==
    {Call(f, <<Id(name)>> \o Window(d, u)) :
        f \in {"rate", "increase"}, name \in {"m", "k"}, d \in 1 .. 3, u \in {"s"}}
    \cup {Call("rate", <<Id("k")>> \o Window(1, "x"))}

Mistakes ==
    {<< >>, <<Num(1), Num(2)>>, <<Num(1), Op("Less"), Num(2), Op("Less"), Num(1)>>,
     <<Token("Sum", "sum")>>, Call("rate", <<Id("m")>>), Call("abs", << >>),
     <<Op("LeftParen"), Id("k")>>, <<Id("m")>> \o Where("a", "Comma", X), <<Op("Plus")>>,
     <<Id("k"), Op("LeftBracket")>>, <<Id("k"), Op("Plus"), Id("m")>>}

Difference == <<Id("k"), Op("Minus"), Id("k")>>

Ask(kind, ts, start, end, step) ==
    [kind |-> kind, tokens |-> ts, start |-> start, end |-> end, step |-> step]

Chart(name, start, end, maxPoints) ==
    [kind |-> "chart", name |-> name, start |-> start, end |-> end, maxPoints |-> maxPoints]

List == [kind |-> "list"]
Idle == [kind |-> "none"]

Single ==
    {Ask("execute", ts, 0, 1, 1) : ts \in Arithmetic \cup Mistakes}
    \cup {Ask("range", ts, Nothing, Nothing, Malformed) : ts \in Selectors}
    \cup {Ask("range", ts, 0, 6, 1) : ts \in Selectors \cup Aggregations \cup Rates}
    \cup {Ask("instant", ts, Nothing, e, Nothing) : ts \in Selectors \cup {Difference}, e \in {Nothing, 3}}
    \cup {Ask("execute", <<Id("k")>>, s, 2, p) : s \in {0, 2}, p \in {Nothing, Malformed, 0}}
    \cup {Chart("m", s, e, p) :
            s \in {Nothing, 0}, e \in {Nothing, 6, 12}, p \in {Nothing, Malformed, 0, 1, 2, 3}}
    \cup {Chart("e", 0, 6, 3)}

Pairs ==
    {<<Ask("range", Difference, 0, 2, 1), Ask("execute", Difference, 0, 2, 1)>>,
     <<Ask("range", <<Id("m")>>, 0, 6, 1), Ask("range", Difference, 0, 2, 1)>>,
     <<Ask("execute", Difference, 0, 2, 1), Ask("execute", <<Num(1)>>, 0, 2, 0)>>,
     <<List, Chart("m", 0, 6, 3)>>}

MCWorkloads ==
    {r1 :> q @@ r2 :> Idle : q \in Single} \cup {r1 :> p[1] @@ r2 :> p[2] : p \in Pairs}
=============================================================================
