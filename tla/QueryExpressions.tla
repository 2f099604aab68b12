-------------------------- MODULE QueryExpressions --------------------------
(***************************************************************************)
(* The recursion over expressions: evaluating one, and what a parsed one   *)
(* must look like.                                                         *)
(***************************************************************************)
EXTENDS QueryParser, QueryAnswers

RECURSIVE Eval(_, _, _)
Eval(e, q, found) == executeExpr(Eval, e, q, found)

\* A reference for the parser: split at the loosest operator outside parentheses,
\* at the last one of its kind, or the first for ^.
Loose ==
    [Or |-> 1, And |-> 2, Unless |-> 3, EqualEqual |-> 4, Less |-> 4, Plus |-> 5, Minus |-> 5,
     Multiply |-> 6, Divide |-> 6, Mod |-> 6, Power |-> 7]

Depth(ts, i) ==
    Cardinality({j \in 1 .. i : ts[j].type = "LeftParen"})
        - Cardinality({j \in 1 .. i : ts[j].type = "RightParen"})

BinaryAt(ts) ==
    {i \in 2 .. Len(ts) :
        /\ ts[i].type \in DOMAIN Loose
        /\ ts[i - 1].type \in {"Number", "RightParen"}
        /\ Depth(ts, i) = 0}

RECURSIVE Reference(_)
Reference(ts) ==
    LET loosest == {i \in BinaryAt(ts) : \A j \in BinaryAt(ts) :
                        Loose[ts[i].type] <= Loose[ts[j].type]}
        split   == IF \E i \in loosest : ts[i].type = "Power" THEN Min(loosest) ELSE Max(loosest)
    IN  IF Len(ts) = 1 THEN NumberExpr(ts[1].literal)
        ELSE IF loosest # {}
        THEN BinaryExpr(Reference(SubSeq(ts, 1, split - 1)), ts[split].type,
                        Reference(SubSeq(ts, split + 1, Len(ts))))
        ELSE IF ts[1].type = "LeftParen" THEN ParenExpr(Reference(SubSeq(ts, 2, Len(ts) - 1)))
        ELSE UnaryExpr(ts[1].type, Reference(Tail(ts)))

\* "Handles operator precedence": arithmetic that ends in an operand is grouped as its operators bind.
ParsedAsWritten ==
    \A r \in Requests :
        /\ query[r] # NoQuery
        /\ \A i \in DOMAIN workload[r].tokens :
                workload[r].tokens[i].type \in DOMAIN Loose \cup {"Number", "LeftParen", "RightParen"}
        /\ Last(workload[r].tokens).type \in {"Number", "RightParen"}
        => query[r].expr = Reference(workload[r].tokens)
=============================================================================
