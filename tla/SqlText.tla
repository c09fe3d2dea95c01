--------------------------------- MODULE SqlText ---------------------------------
(***************************************************************************)
(* What a client of the engine writes: the text of a SELECT as its tokens,    *)
(* with parentheses only where an operand binds less tightly than its place   *)
(* asks.                                                                    *)
(***************************************************************************)
EXTENDS Parser

Keyword(word) == <<Token(word, word)>>
Name(name) == <<Token("IDENTIFIER", name)>>
Number(value) == <<Token("INTEGER", value)>>

Tightness(e) == CASE e.kind = "not" -> 3
                  [] e.kind \in {"is null", "between", "in"} -> 4
                  [] e.kind = "negate" -> 7
                  [] e.kind # "binary" -> 8
                  [] e.op = "OR" -> 1
                  [] e.op = "AND" -> 2
                  [] e.op \in Comparisons -> 4
                  [] e.op \in {"+", "-"} -> 5
                  [] OTHER -> 6
OrNot(e) == IF e.negated THEN Keyword("NOT") ELSE <<>>
Separated(texts) == FoldLeft(LAMBDA text, next: IF text = <<>> THEN next
                                                ELSE text \o Keyword(",") \o next, <<>>, texts)

RECURSIVE Words(_, _)
Words(e, least) ==
    LET Whole(x) == Words(x, 1)
        Sum(x) == Words(x, 5)
        at == Tightness(e)
        left == IF at = 4 THEN 5 ELSE at
        words ==
            CASE e.kind = "literal" -> IF e.value = Null THEN Keyword("NULL") ELSE Number(e.value)
              [] e.kind = "column" ->
                    (IF e.table = Unqualified THEN <<>> ELSE Name(e.table) \o Keyword("."))
                    \o IF e.column = "*" THEN Keyword("*") ELSE Name(e.column)
              [] e.kind = "star" -> Keyword("*")
              [] e.kind = "not" -> Keyword("NOT") \o Words(e.operand, 3)
              [] e.kind = "negate" -> Keyword("-") \o Words(e.operand, 7)
              [] e.kind = "binary" ->
                    Words(e.left, left) \o Keyword(e.op) \o Words(e.right, at + 1)
              [] e.kind = "is null" ->
                    Sum(e.expr) \o Keyword("IS") \o OrNot(e) \o Keyword("NULL")
              [] e.kind = "between" ->
                    Sum(e.expr) \o OrNot(e) \o Keyword("BETWEEN") \o Sum(e.low)
                    \o Keyword("AND") \o Sum(e.high)
              [] e.kind = "in" ->
                    Sum(e.expr) \o OrNot(e) \o Keyword("IN") \o Keyword("(")
                    \o Separated([i \in DOMAIN e.values |-> Whole(e.values[i])]) \o Keyword(")")
              [] e.kind = "case" ->
                    Keyword("CASE")
                    \o (IF e.operand = NoExpression THEN <<>> ELSE Whole(e.operand))
                    \o FlattenSeq([i \in DOMAIN e.clauses |->
                           Keyword("WHEN") \o Whole(e.clauses[i].condition)
                           \o Keyword("THEN") \o Whole(e.clauses[i].result)])
                    \o (IF e.else = NoExpression THEN <<>> ELSE Keyword("ELSE") \o Whole(e.else))
                    \o Keyword("END")
              [] e.kind = "aggregate" ->
                    Keyword(e.name) \o Keyword("(")
                    \o (IF e.distinct THEN Keyword("DISTINCT") ELSE <<>>)
                    \o Whole(e.arg) \o Keyword(")")
    IN  IF at < least THEN Keyword("(") \o words \o Keyword(")") ELSE words

AllWords(exprs) == Separated([i \in DOMAIN exprs |-> Words(exprs[i], 1)])
Clause(keywords, exprs) == IF exprs \in {<<>>, <<NoExpression>>} THEN <<>>
                           ELSE keywords \o AllWords(exprs)
JoinWords(kind) == Keyword(CASE kind = "inner" -> "INNER" [] kind = "left" -> "LEFT"
                             [] kind = "right" -> "RIGHT" [] kind = "full" -> "FULL"
                             [] kind = "cross" -> "CROSS") \o Keyword("JOIN")
Text(stmt) ==
    Keyword("SELECT") \o (IF stmt.distinct THEN Keyword("DISTINCT") ELSE <<>>)
    \o AllWords(stmt.columns) \o Keyword("FROM")
    \o (IF stmt.from.kind = "table" THEN Name(stmt.from.name)
        ELSE Name(stmt.from.left.name) \o JoinWords(stmt.from.kind)
             \o Name(stmt.from.right.name) \o Clause(Keyword("ON"), <<stmt.from.on>>))
    \o Clause(Keyword("WHERE"), <<stmt.where>>)
    \o Clause(Keyword("GROUP") \o Keyword("BY"), stmt.group)
    \o Clause(Keyword("HAVING"), <<stmt.having>>)
    \o (IF stmt.order = <<>> THEN <<>>
        ELSE Keyword("ORDER") \o Keyword("BY")
             \o Separated([i \in DOMAIN stmt.order |->
                   Words(stmt.order[i].expr, 1)
                   \o IF stmt.order[i].descending THEN Keyword("DESC") ELSE <<>>]))
    \o (IF stmt.limit = Null THEN <<>>
        ELSE Keyword("LIMIT") \o Number(stmt.limit)
             \o IF stmt.offset = 0 THEN <<>> ELSE Keyword("OFFSET") \o Number(stmt.offset))
    \o Keyword("EOF")
=============================================================================
