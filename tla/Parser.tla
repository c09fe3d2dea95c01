--------------------------------- MODULE Parser ---------------------------------
(***************************************************************************)
(* pysql.parser.Parser for SELECT statements: recursive descent over the     *)
(* tokens of the lexer.  A token has a type and a value; the type of an      *)
(* operator or a keyword is its text.  A parse is a node and the position    *)
(* after it; position 0 stands for a ParseError.                            *)
(*                                                                          *)
(* Subqueries, aliases, USING, scalar functions, LIKE, CAST, strings and      *)
(* statements without FROM are left out.                                     *)
(***************************************************************************)
EXTENDS Expression, FiniteSets

Token(type, value) == [type |-> type, value |-> value]
Parsed(node, at) == [node |-> node, at |-> at]
ParseError == Parsed(NoExpression, 0)

(* _current, _peek, _advance, _expect and _match.                            *)
TypeAt(tokens, at) ==
    IF at \in DOMAIN tokens THEN tokens[at].type ELSE IF at = 0 THEN "error" ELSE "EOF"
Expect(tokens, at, type) == IF TypeAt(tokens, at) = type THEN at + 1 ELSE 0
Match(tokens, at, type) == IF TypeAt(tokens, at) = type THEN at + 1 ELSE at
IsAt(tokens, at, type) == TypeAt(tokens, at) = type

----------------------------------------------------------------------------
(* FROM: joins from left to right.  A comma is a cross join, and a kind of    *)
(* join may be followed by OUTER.                                           *)
SimpleTableRef(name) == [kind |-> "table", name |-> name]
JoinTableRef(kind, left, right, on) ==
    [kind |-> kind, left |-> left, right |-> right, on |-> on]

ParseJoinType(tokens, at) ==
    LET type == TypeAt(tokens, at)
    IN  CASE type = "JOIN" -> Parsed("inner", at + 1)
          [] type = "INNER" -> Parsed("inner", Expect(tokens, at + 1, "JOIN"))
          [] type = "CROSS" -> Parsed("cross", Expect(tokens, at + 1, "JOIN"))
          [] type = "NATURAL" -> Parsed("natural", Match(tokens, at + 1, "JOIN"))
          [] type \in {"LEFT", "RIGHT", "FULL"} ->
                Parsed(CASE type = "LEFT" -> "left" [] type = "RIGHT" -> "right"
                         [] type = "FULL" -> "full",
                       Expect(tokens, Match(tokens, at + 1, "OUTER"), "JOIN"))
          [] OTHER -> ParseError

ParsePrimaryTableRef(tokens, at) ==
    IF IsAt(tokens, at, "IDENTIFIER") THEN Parsed(SimpleTableRef(tokens[at].value), at + 1)
    ELSE ParseError

----------------------------------------------------------------------------
(* Expressions, by precedence.  Operators of one level group to the left.    *)
Below(level) == CASE level = "or" -> "and"
                  [] level = "and" -> "not"
                  [] level = "addition" -> "multiplication"
                  [] level = "multiplication" -> "unary"
AndWithOr(level) ==      \* fault: AND binds no tighter than OR
    CASE level = "or" -> {"OR"}
      [] level = "and" -> {"AND", "OR"}
      [] level = "addition" -> {"+", "-", "||"}
      [] level = "multiplication" -> {"*", "/", "%"}
OperatorsOf(level) == CASE level = "or" -> {"OR"}
                        [] level = "and" -> {"AND"}
                        [] level = "addition" -> {"+", "-", "||"}
                        [] level = "multiplication" -> {"*", "/", "%"}
Comparisons == {"=", "<>", "<", ">", "<=", ">="}
AggregateNames == {"COUNT", "SUM", "AVG", "MIN", "MAX"}

(* Items of a list, with commas between them.  parse is the function below.   *)
ParseItem(tokens, parse, kind, at) ==
    LET expr == parse["or", at]
    IN  CASE kind = "select" /\ IsAt(tokens, at, "*") -> Parsed(Star, at + 1)
          [] kind = "order" ->
                Parsed([expr |-> expr.node, descending |-> IsAt(tokens, expr.at, "DESC")],
                       IF TypeAt(tokens, expr.at) \in {"ASC", "DESC"} THEN expr.at + 1
                       ELSE expr.at)
          [] OTHER -> expr

RECURSIVE ParseList(_, _, _, _)
ParseList(tokens, parse, kind, at) ==
    LET item == ParseItem(tokens, parse, kind, at)
        rest == ParseList(tokens, parse, kind, item.at + 1)
    IN  IF ~IsAt(tokens, item.at, ",") THEN Parsed(<<item.node>>, item.at)
        ELSE Parsed(<<item.node>> \o rest.node, rest.at)

(* x IS [NOT] NULL, x [NOT] BETWEEN y AND z, x [NOT] IN (...), x = y.        *)
ParseComparison(tokens, parse, at) ==
    LET left == parse["addition", at]
        negated == /\ IsAt(tokens, left.at, "NOT")
                   /\ TypeAt(tokens, left.at + 1) \in {"BETWEEN", "IN"}
        op == IF negated THEN left.at + 1 ELSE left.at
        type == TypeAt(tokens, op)
        not == IsAt(tokens, op + 1, "NOT")
        second == parse["addition", op + 1]
        third == parse["addition", Expect(tokens, second.at, "AND")]
        values == ParseList(tokens, parse, "expression", Expect(tokens, op + 1, "("))
    IN  CASE type = "IS" ->
                Parsed(IsNull(left.node, not),
                       Expect(tokens, IF not THEN op + 2 ELSE op + 1, "NULL"))
          [] type = "BETWEEN" ->
                Parsed(Between(left.node, second.node, third.node, negated), third.at)
          [] type = "IN" ->
                Parsed(In(left.node, values.node, negated), Expect(tokens, values.at, ")"))
          [] type \in Comparisons ->
                Parsed(BinaryOp(type, left.node, second.node), second.at)
          [] OTHER -> left

(* CASE [x] WHEN y THEN z ... [ELSE w] END, after CASE.                      *)
RECURSIVE ParseClauses(_, _, _, _)
ParseClauses(tokens, parse, at, sofar) ==
    LET condition == parse["or", at + 1]
        then == parse["or", Expect(tokens, condition.at, "THEN")]
    IN  IF ~IsAt(tokens, at, "WHEN") THEN Parsed(sofar, at)
        ELSE ParseClauses(tokens, parse, then.at,
                          Append(sofar, When(condition.node, then.node)))

ParseCaseExpr(tokens, parse, at) ==
    LET operand == IF IsAt(tokens, at, "WHEN") THEN Parsed(NoExpression, at) ELSE parse["or", at]
        clauses == ParseClauses(tokens, parse, operand.at, <<>>)
        else == IF IsAt(tokens, clauses.at, "ELSE") THEN parse["or", clauses.at + 1]
                ELSE Parsed(NoExpression, clauses.at)
    IN  Parsed(Case(operand.node, clauses.node, else.node), Expect(tokens, else.at, "END"))

(* COUNT of a star or of [DISTINCT] x; more arguments are parsed, not used.   *)
ParseAggregateFunction(tokens, parse, at) ==
    LET open == Expect(tokens, at + 1, "(")
        args == IF IsAt(tokens, open, "*") THEN Parsed(<<Star>>, open + 1)
                ELSE ParseList(tokens, parse, "expression", Match(tokens, open, "DISTINCT"))
    IN  Parsed(Aggregate(tokens[at].value, args.node[1], IsAt(tokens, open, "DISTINCT")),
               Expect(tokens, args.at, ")"))

(* After the dot of a column reference any token will do: a star there is a   *)
(* column of that name.                                                     *)
ParsePrimary(tokens, parse, at) ==
    LET type == TypeAt(tokens, at)
        inner == parse["or", at + 1]
    IN  CASE type = "NULL" -> Parsed(Literal(Null), at + 1)
          [] type \in {"INTEGER", "BOOLEAN"} -> Parsed(Literal(tokens[at].value), at + 1)
          [] type = "CASE" -> ParseCaseExpr(tokens, parse, at + 1)
          [] type \in AggregateNames -> ParseAggregateFunction(tokens, parse, at)
          [] type = "(" -> Parsed(inner.node, Expect(tokens, inner.at, ")"))
          [] type = "IDENTIFIER" ->
                IF IsAt(tokens, at + 1, ".")
                THEN Parsed(ColumnRef(tokens[at].value, tokens[at + 2].value), at + 3)
                ELSE Parsed(ColumnRef(Unqualified, tokens[at].value), at + 1)
          [] type = "*" -> Parsed(Star, at + 1)
          [] OTHER -> ParseError

(* The loop of one level, from its first operand.                           *)
RECURSIVE ParseRest(_, _, _, _)
ParseRest(tokens, parse, level, left) ==
    LET op == TypeAt(tokens, left.at)
        right == parse[Below(level), left.at + 1]
    IN  IF op \notin OperatorsOf(level) THEN left
        ELSE ParseRest(tokens, parse, level,
                       Parsed(BinaryOp(op, left.node, right.node), right.at))

(* _parse_or_expr and the methods below it, at every position.               *)
Levels == {"or", "and", "not", "addition", "multiplication", "unary"}
Expressions(tokens) ==
    LET parse[level \in Levels, at \in 0..(Len(tokens) + 1)] ==
            LET operand == parse[level, at + 1]
            IN  CASE at = 0 -> ParseError
                  [] level = "not" ->
                        IF IsAt(tokens, at, "NOT") THEN Parsed(Not(operand.node), operand.at)
                        ELSE ParseComparison(tokens, parse, at)
                  [] level = "unary" ->
                        IF IsAt(tokens, at, "-") THEN Parsed(Negate(operand.node), operand.at)
                        ELSE ParsePrimary(tokens, parse, at)
                  [] OTHER -> ParseRest(tokens, parse, level, parse[Below(level), at])
    IN  parse

----------------------------------------------------------------------------
(* FROM, from left to right.                                                *)
RECURSIVE ParseTableRef(_, _, _)
ParseTableRef(tokens, parse, left) ==
    LET comma == IsAt(tokens, left.at, ",")
        type == IF comma THEN Parsed("cross", left.at + 1) ELSE ParseJoinType(tokens, left.at)
        right == ParsePrimaryTableRef(tokens, type.at)
        on == IF ~comma /\ IsAt(tokens, right.at, "ON") THEN parse["or", right.at + 1]
              ELSE Parsed(NoExpression, right.at)
    IN  IF TypeAt(tokens, left.at) \notin
               {"JOIN", "INNER", "LEFT", "RIGHT", "FULL", "CROSS", "NATURAL", ","}
        THEN left
        ELSE ParseTableRef(tokens, parse,
                 Parsed(JoinTableRef(type.node, left.node, right.node, on.node), on.at))

----------------------------------------------------------------------------
(* SELECT: each clause begins where the one before it ends.                  *)
Optional(tokens, parse, at, keyword) ==
    IF IsAt(tokens, at, keyword) THEN parse["or", at + 1] ELSE Parsed(NoExpression, at)
OptionalList(tokens, parse, at, keyword, kind) ==
    IF IsAt(tokens, at, keyword)
    THEN ParseList(tokens, parse, kind, Expect(tokens, at + 1, "BY"))
    ELSE Parsed(<<>>, at)
OptionalInteger(tokens, at, keyword, otherwise) ==
    IF ~IsAt(tokens, at, keyword) THEN Parsed(otherwise, at)
    ELSE IF IsAt(tokens, at + 1, "INTEGER") THEN Parsed(tokens[at + 1].value, at + 2)
    ELSE ParseError

(* OFFSET is read only after LIMIT.                                         *)
ParseLimit(tokens, at) ==
    LET limit == OptionalInteger(tokens, at, "LIMIT", Null)
        offset == OptionalInteger(tokens, limit.at, "OFFSET", 0)
    IN  IF limit.at = at THEN Parsed([limit |-> Null, offset |-> 0], at)
        ELSE Parsed([limit |-> limit.node, offset |-> offset.node], offset.at)

ParseSelectFrom(tokens, parse, start) ==
    LET columns == ParseList(tokens, parse, "select", Match(tokens, start, "DISTINCT"))
        first == ParsePrimaryTableRef(tokens, Expect(tokens, columns.at, "FROM"))
        from == ParseTableRef(tokens, parse, first)
        where == Optional(tokens, parse, from.at, "WHERE")
        group == OptionalList(tokens, parse, where.at, "GROUP", "expression")
        having == Optional(tokens, parse, group.at, "HAVING")
        order == OptionalList(tokens, parse, having.at, "ORDER", "order")
        limit == ParseLimit(tokens, order.at)
    IN  Parsed([from |-> from.node, where |-> where.node, columns |-> columns.node,
                group |-> group.node, having |-> having.node, order |-> order.node,
                distinct |-> IsAt(tokens, start, "DISTINCT"),
                limit |-> limit.node.limit, offset |-> limit.node.offset],
               IF IsAt(tokens, limit.at, "EOF") THEN limit.at ELSE 0)

ParseSelect(tokens) ==
    ParseSelectFrom(tokens, Expressions(tokens), Expect(tokens, 1, "SELECT"))
=============================================================================
