---------------------------- MODULE QueryEngine ----------------------------
(***************************************************************************)
(* How the executor evaluates an expression: depth first, the left side of *)
(* an operator before the right, one query to the store per selector.      *)
(* It is given what the selectors evaluated so far have found, and says    *)
(* what happens next: another selector needs a query, the evaluation       *)
(* fails, it spins in a loop that does not end, or it has a value.  The    *)
(* recursion over the parts of an expression is closed in QueryExpressions.*)
(*                                                                         *)
(* A name ending in "_" and a word is a mutated form of the next           *)
(* definition, used to show that a property can fail.                      *)
(***************************************************************************)
EXTENDS QueryResults

Needs(request)    == [kind |-> "needs", request |-> request]
Fails             == [kind |-> "fails"]
Spins             == [kind |-> "spins"]
Value(result, rest) == [kind |-> "value", result |-> result, rest |-> rest]

\* Only = is sent to the store, the last one for each label; the other matchers
\* are dropped.
Selector(vector, start, end) ==
    LET equal == SelectSeq(vector.matchers, LAMBDA m : m.op = "Equal")
        last(k) == CHOOSE i \in DOMAIN equal :
                        equal[i].name = k /\ \A j \in i + 1 .. Len(equal) : equal[j].name # k
    IN  [name   |-> vector.name,
         start  |-> start,
         end    |-> end,
         labels |-> [k \in {equal[i].name : i \in DOMAIN equal} |-> equal[last(k)].value]]

\* founds: what the next selectors found, in order.
Load(vector, start, end, founds) ==
    IF founds = << >> THEN Needs(Selector(vector, start, end))
    ELSE Value(SeriesOf(Head(founds)), Tail(founds))

LoadRange(range, q, founds) ==
    Load(range.vector, q.start - range.duration, q.end, founds)

Then(outcome, f(_)) ==
    IF outcome.kind = "value" THEN Value(f(outcome.result), outcome.rest) ELSE outcome

EvalFunction(e, q, founds) ==
    IF e.name \in {"rate", "increase"} /\ Len(e.args) = 1 /\ e.args[1].kind = "range"
    THEN LET duration == e.args[1].duration
             compute(result) ==
                IF e.name = "rate" THEN Rate(result, duration) ELSE Increase(result, duration)
         IN  Then(LoadRange(e.args[1], q, founds), compute)
    ELSE Fails

\* The loop over the steps of a constant does not move for a step that is not
\* positive.
EvalNumber(e, q, founds) ==
    IF q.start <= q.end /\ q.step <= 0
    THEN Spins
    ELSE Value(Literal(e.value, q.start, q.end, q.step), founds)

\* self evaluates a part of the expression.
executeExpr(self(_, _, _), e, q, founds) ==
    CASE e.kind = "vector" -> Load(e, q.start, q.end, founds)
      [] e.kind = "range"  -> LoadRange(e, q, founds)
      [] e.kind = "number" -> EvalNumber(e, q, founds)
      [] e.kind = "paren"  -> self(e.expr, q, founds)
      [] e.kind = "call"   -> EvalFunction(e, q, founds)
      [] e.kind = "unary"  ->
            LET negate(result) == applyUnaryOp(result, e.op)
            IN  Then(self(e.expr, q, founds), negate)
      [] e.kind = "aggregate" ->
            LET combine(result) == Aggregated(result, e.op, e.grouping, e.without)
            IN  Then(self(e.expr, q, founds), combine)
      [] e.kind = "binary" ->
            LET left  == self(e.left, q, founds)
                right == self(e.right, q, left.rest)
            IN  IF left.kind # "value" THEN left
                ELSE IF right.kind # "value" THEN right
                ELSE IF CanApply(left.result, right.result)
                THEN Value(applyBinaryOp(left.result, right.result, e.op), right.rest)
                ELSE Fails
      [] OTHER -> Fails
=============================================================================
