---------------------------- MODULE QueryParser ----------------------------
(***************************************************************************)
(* The recursive-descent parser of pkg/query/parser.go, on tokens.  The    *)
(* lexer's reading of characters is left out.  Most of the parser's errors *)
(* are not reported: it goes on with what it has, and Parse refuses only   *)
(* tokens left over at the end.                                            *)
(*                                                                         *)
(* Every parsing operator takes the tokens and the position of the current *)
(* one, and returns an expression and the position after it.               *)
(*                                                                         *)
(* A name ending in "_" and a word is a mutated form of the next           *)
(* definition, used to show that a property can fail.                      *)
(***************************************************************************)
EXTENDS Integers, Sequences

Token(type, literal) == [type |-> type, literal |-> literal]

AggregationTypes ==
    {"Sum", "Avg", "Max", "Min", "Count", "Stddev", "Stdvar", "TopK", "BottomK",
     "Quantile", "CountValues"}

Comparisons == {"EqualEqual", "NotEqual", "Less", "LessEqual", "Greater", "GreaterEqual"}

LabelMatchOps == {"Equal", "NotEqual", "Match", "NotMatch"}

\* From the loosest to the tightest; the tightest, ^, is in parsePower.
BinaryLevels_AdditiveLast ==
    << {"Or"}, {"And"}, {"Unless"}, Comparisons, {"Multiply", "Divide", "Mod"},
       {"Plus", "Minus"} >>

BinaryLevels ==
    << {"Or"}, {"And"}, {"Unless"}, Comparisons, {"Plus", "Minus"},
       {"Multiply", "Divide", "Mod"} >>

-----------------------------------------------------------------------------
(***************************************************************************)
(* Expressions.                                                            *)
(***************************************************************************)
NumberExpr(v)           == [kind |-> "number", value |-> v]
VectorExpr(name, ms)    == [kind |-> "vector", name |-> name, matchers |-> ms]
RangeExpr(vector, d)    == [kind |-> "range", vector |-> vector, duration |-> d]
UnaryExpr(op, e)        == [kind |-> "unary", op |-> op, expr |-> e]
BinaryExpr(l, op, r)    == [kind |-> "binary", left |-> l, op |-> op, right |-> r]
ParenExpr(e)            == [kind |-> "paren", expr |-> e]
CallExpr(name, args)    == [kind |-> "call", name |-> name, args |-> args]
AggregateExpr(op, grouping, without, e) ==
    [kind |-> "aggregate", op |-> op, grouping |-> grouping, without |-> without, expr |-> e]
NilExpr                 == [kind |-> "nil"]

Parsed(e, next) == [expr |-> e, next |-> next]

-----------------------------------------------------------------------------
TypeAt(ts, i) == IF i <= Len(ts) THEN ts[i].type ELSE "EOF"

\* The position after a token that may be there.
Skip(ts, i, type) == IF TypeAt(ts, i) = type THEN i + 1 ELSE i

\* Seconds; an unknown unit makes no duration at all.
parseDuration(literal) ==
    LET units == [s |-> 1, m |-> 60, h |-> 3600, d |-> 86400, w |-> 604800, y |-> 31536000]
    IN  IF literal.unit \in DOMAIN units THEN literal.value * units[literal.unit] ELSE 0

RECURSIVE LabelMatchersFrom(_, _, _)
LabelMatchersFrom(ts, i, matchers) ==
    IF TypeAt(ts, i) # "Identifier" THEN <<matchers, i>>
    ELSE IF TypeAt(ts, i + 1) \notin LabelMatchOps THEN <<matchers, i + 1>>
    ELSE IF TypeAt(ts, i + 2) # "String" THEN <<matchers, i + 2>>
    ELSE LET matcher == [name |-> ts[i].literal, op |-> ts[i + 1].type, value |-> ts[i + 2].literal]
         IN  LabelMatchersFrom(ts, Skip(ts, i + 3, "Comma"), Append(matchers, matcher))

\* {a="x", b!="y"}: everything from the first mistake on is left for the caller.
parseLabelMatchers(ts, i) ==
    LET found == LabelMatchersFrom(ts, i + 1, << >>)
    IN  <<found[1], Skip(ts, found[2], "RightBrace")>>

parseVectorSelector(ts, i, name) ==
    LET labelled == IF TypeAt(ts, i) = "LeftBrace" THEN parseLabelMatchers(ts, i) ELSE << << >>, i>>
        vector   == VectorExpr(name, labelled[1])
        next     == labelled[2]
    IN  IF TypeAt(ts, next) # "LeftBracket" THEN Parsed(vector, next)
        ELSE IF TypeAt(ts, next + 1) # "Duration" THEN Parsed(vector, next + 1)
        ELSE Parsed(RangeExpr(vector, parseDuration(ts[next + 1].literal)),
                    Skip(ts, next + 2, "RightBracket"))

RECURSIVE GroupingLabelsFrom(_, _, _)
GroupingLabelsFrom(ts, i, labels) ==
    LET more == labels \cup {ts[i].literal}
    IN  IF TypeAt(ts, i) # "Identifier" THEN <<labels, i>>
        ELSE IF TypeAt(ts, i + 1) = "Comma" THEN GroupingLabelsFrom(ts, i + 2, more)
        ELSE <<more, i + 1>>

parseGroupingLabels(ts, i) ==
    LET found == GroupingLabelsFrom(ts, i + 1, {})
    IN  <<found[1], Skip(ts, found[2], "RightParen")>>

-----------------------------------------------------------------------------
RECURSIVE parseBinary(_, _, _), MoreOperands(_, _, _), parsePower(_, _), parseUnary(_, _),
          parsePrimary(_, _), ArgumentsFrom(_, _, _)

parseExpression(ts, i) == parseBinary(1, ts, i)

parseParenExpression(ts, i) ==
    LET inner == parseExpression(ts, i + 1)
    IN  IF TypeAt(ts, inner.next) = "RightParen"
        THEN Parsed(ParenExpr(inner.expr), inner.next + 1)
        ELSE inner

ArgumentsFrom(ts, i, args) ==
    IF TypeAt(ts, i) \in {"RightParen", "EOF"} THEN <<args, i>>
    ELSE LET arg == parseExpression(ts, i)
         IN  IF TypeAt(ts, arg.next) = "Comma"
             THEN ArgumentsFrom(ts, arg.next + 1, Append(args, arg.expr))
             ELSE <<Append(args, arg.expr), arg.next>>

parseFunctionCall(ts, i, name) ==
    LET found == ArgumentsFrom(ts, i + 1, << >>)
    IN  Parsed(CallExpr(name, found[1]), Skip(ts, found[2], "RightParen"))

\* sum by (a) (m); without parentheses there is no expression.
parseAggregation(ts, i) ==
    LET grouped  == TypeAt(ts, i + 1) \in {"By", "Without"}
        labels   == IF grouped /\ TypeAt(ts, i + 2) = "LeftParen"
                    THEN parseGroupingLabels(ts, i + 2)
                    ELSE << {}, IF grouped THEN i + 2 ELSE i + 1>>
        inner    == parseExpression(ts, labels[2] + 1)
        make(e)  == AggregateExpr(ts[i].literal, labels[1], TypeAt(ts, i + 1) = "Without", e)
    IN  IF TypeAt(ts, labels[2]) = "LeftParen"
        THEN Parsed(make(inner.expr), Skip(ts, inner.next, "RightParen"))
        ELSE Parsed(make(NilExpr), labels[2])

\* A token that begins nothing counts as the number 0 and stays where it is.
parsePrimary(ts, i) ==
    LET type == TypeAt(ts, i)
    IN  CASE type = "Number"     -> Parsed(NumberExpr(ts[i].literal), i + 1)
          [] type = "LeftParen"  -> parseParenExpression(ts, i)
          [] type = "Identifier" ->
                IF TypeAt(ts, i + 1) = "LeftParen"
                THEN parseFunctionCall(ts, i + 1, ts[i].literal)
                ELSE parseVectorSelector(ts, i + 1, ts[i].literal)
          [] type \in AggregationTypes -> parseAggregation(ts, i)
          [] OTHER -> Parsed(NumberExpr(<<0, 1>>), i)

\* A sign binds tighter than any binary operator.
parseUnary(ts, i) ==
    IF TypeAt(ts, i) \in {"Plus", "Minus"}
    THEN LET operand == parseUnary(ts, i + 1)
         IN  Parsed(UnaryExpr(ts[i].type, operand.expr), operand.next)
    ELSE parsePrimary(ts, i)

parsePower(ts, i) ==
    LET left  == parseUnary(ts, i)
        right == parsePower(ts, left.next + 1)
    IN  IF TypeAt(ts, left.next) = "Power"
        THEN Parsed(BinaryExpr(left.expr, "Power", right.expr), right.next)
        ELSE left

\* Operators of one level group to the left; a comparison takes two operands and
\* no more.
MoreOperands(level, ts, left) ==
    IF TypeAt(ts, left.next) \notin BinaryLevels[level] THEN left
    ELSE LET op    == ts[left.next].type
             right == parseBinary(level + 1, ts, left.next + 1)
             both  == Parsed(BinaryExpr(left.expr, op, right.expr), right.next)
         IN  IF op \in Comparisons THEN both ELSE MoreOperands(level, ts, both)

parseBinary(level, ts, i) ==
    IF level > Len(BinaryLevels) THEN parsePower(ts, i)
    ELSE MoreOperands(level, ts, parseBinary(level + 1, ts, i))

ParseError == [kind |-> "error"]

Parse(ts) ==
    LET whole == parseExpression(ts, 1)
    IN  IF whole.next <= Len(ts) THEN ParseError ELSE whole.expr
=============================================================================
