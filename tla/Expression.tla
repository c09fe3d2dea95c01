------------------------------- MODULE Expression -------------------------------
(***************************************************************************)
(* Expression trees (pysql.ast_nodes) and how the executor evaluates them    *)
(* against a row.  Values are numbers, truth values and Null; Raised stands  *)
(* for a Python exception that ends the statement.                          *)
(***************************************************************************)
EXTENDS Integers, Sequences, SequencesExt

CONSTANTS Null, Raised

Literal(value) == [kind |-> "literal", value |-> value]
ColumnRef(table, column) == [kind |-> "column", table |-> table, column |-> column]
BinaryOp(op, left, right) ==
    [kind |-> "binary", op |-> op, left |-> left, right |-> right]
Not(e) == [kind |-> "not", operand |-> e]
Negate(e) == [kind |-> "negate", operand |-> e]
IsNull(e, negated) == [kind |-> "is null", expr |-> e, negated |-> negated]
Between(e, low, high, negated) ==
    [kind |-> "between", expr |-> e, low |-> low, high |-> high, negated |-> negated]
In(e, values, negated) ==
    [kind |-> "in", expr |-> e, values |-> values, negated |-> negated]
When(condition, result) == [condition |-> condition, result |-> result]
Case(operand, clauses, else) ==
    [kind |-> "case", operand |-> operand, clauses |-> clauses, else |-> else]
Aggregate(name, arg, distinct) ==
    [kind |-> "aggregate", name |-> name, arg |-> arg, distinct |-> distinct]
Star == [kind |-> "star"]
NoExpression == [kind |-> "none"]
Unqualified == "no table"

And(l, r) == BinaryOp("AND", l, r)
Or(l, r) == BinaryOp("OR", l, r)

(* What a walk of the tree that knows only binary operators sees (planner.py *)
(* _extract_tables_from_expr, _extract_columns_from_expr).                   *)
RECURSIVE RefsOf(_)
RefsOf(e) == CASE e.kind = "column" -> {e}
               [] e.kind = "binary" -> RefsOf(e.left) \union RefsOf(e.right)
               [] OTHER -> {}

----------------------------------------------------------------------------
(* _eval_expr of a ColumnRef: dict(zip(col_names, row)) keeps the last column *)
(* of a name, result columns are never qualified, and a missing column is    *)
(* NULL.                                                                    *)
Lookup(columns, row, name) ==
    LET named == {i \in DOMAIN columns: columns[i] = name}
    IN  IF named = {} THEN Null
        ELSE row[CHOOSE i \in named: \A j \in named: j <= i]

(* _eval_binary_op: NULL decides unless AND or OR can do without it.         *)
EvalWithNull(op, left, right) ==
    IF op = "AND" /\ FALSE \in {left, right} THEN FALSE
    ELSE IF op = "OR" /\ TRUE \in {left, right} THEN TRUE
    ELSE Null

EvalBinaryOp(op, left, right) ==
    IF Null \in {left, right} THEN EvalWithNull(op, left, right)
    ELSE CASE op = "=" -> left = right
           [] op = "<>" -> left # right
           [] op = "<" -> left < right
           [] op = ">" -> left > right
           [] op = "<=" -> left <= right
           [] op = ">=" -> left >= right
           [] op = "AND" -> left /\ right
           [] op = "OR" -> left \/ right
           [] op = "+" -> left + right
           [] op = "-" -> left - right
           [] op = "*" -> left * right
           [] op = "%" -> IF right = 0 THEN Null ELSE left % right

(* Both operands are evaluated first, and an exception in one ends it.  A     *)
(* CASE takes the first clause whose condition is true or, with an operand,   *)
(* equal to it, NULL to NULL included.                                      *)
RECURSIVE EvalExpr(_, _, _)
EvalExpr(e, columns, row) ==
    LET Eval(x) == EvalExpr(x, columns, row)
    IN  CASE e.kind = "literal" -> e.value
          [] e.kind = "column" -> Lookup(columns, row, e.column)
          [] e.kind = "binary" ->
                LET left == Eval(e.left)
                    right == Eval(e.right)
                IN  IF Raised \in {left, right} THEN Raised
                    ELSE EvalBinaryOp(e.op, left, right)
          [] e.kind = "not" ->
                LET operand == Eval(e.operand)
                IN  IF operand \in {Null, Raised} THEN operand ELSE ~operand
          [] e.kind = "is null" ->
                LET value == Eval(e.expr)
                IN  IF value = Raised THEN Raised ELSE (value = Null) # e.negated
          [] e.kind = "negate" ->
                LET operand == Eval(e.operand)
                IN  IF operand \in {Null, Raised} THEN operand ELSE -operand
          [] e.kind = "between" ->      \* NullValue has no <=
                LET value == Eval(e.expr)
                    low == Eval(e.low)
                    high == Eval(e.high)
                IN  CASE Raised \in {value, low, high} \/ Null \in {value, low} -> Raised
                      [] value < low -> e.negated
                      [] high = Null -> Raised
                      [] OTHER -> (value <= high) # e.negated
          [] e.kind = "in" ->           \* NULL = NULL, as for any other value
                LET values == {Eval(e.values[i]): i \in DOMAIN e.values}
                IN  IF Raised \in values \union {Eval(e.expr)} THEN Raised
                    ELSE (Eval(e.expr) \in values) # e.negated
          [] e.kind = "case" ->
                LET operand == IF e.operand = NoExpression THEN TRUE ELSE Eval(e.operand)
                    stops(i) == Eval(e.clauses[i].condition) \in {operand, Raised}
                    first(i) == stops(i) /\ \A j \in 1..(i - 1): ~stops(j)
                    chosen == CHOOSE i \in DOMAIN e.clauses: first(i)
                IN  CASE operand = Raised -> Raised
                      [] \A i \in DOMAIN e.clauses: ~stops(i) -> Eval(e.else)
                      [] Eval(e.clauses[chosen].condition) = Raised -> Raised
                      [] OTHER -> Eval(e.clauses[chosen].result)
          [] OTHER -> Null              \* an aggregate where none is computed

(* _eval_predicate: only what is true passes.                                *)
Holds(e, columns, row) == EvalExpr(e, columns, row) = TRUE
Raises(e, columns, row) == EvalExpr(e, columns, row) = Raised
=============================================================================
