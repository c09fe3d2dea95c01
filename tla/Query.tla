--------------------------------- MODULE Query ----------------------------------
(***************************************************************************)
(* SELECT statements from their text to rows: Parser, QueryPlanner.plan and  *)
(* Executor.execute over tables that INSERT fills, compared with what SQL    *)
(* says.  Two tables, users(a, n) and orders(b, n): a has an index and no    *)
(* NULLs, n is in both.                                                     *)
(***************************************************************************)
EXTENDS Vectorized, SqlText, FiniteSetsExt

CONSTANTS
    Values,         \* the numbers in the tables and in the statements
    MaxRows,        \* bound on the rows of each table, in a query of one table
    MaxJoinRows,    \* and in a join
    Habits          \* what the statements do not avoid:
                    \*   "strict"       an indexed column with < or >
                    \*   "computed"     an indexed column inside an expression
                    \*   "null literal" an indexed column compared with NULL
                    \*   "not in"       NOT IN with a NULL on either side
                    \*   "outer"        WHERE on the right side of a LEFT JOIN
                    \*   "right"        RIGHT and FULL joins as hash joins
                    \*   "unqualified"  columns of a join without their table
                    \*   "same name"    a column that both tables have
                    \*   "descending"   ORDER BY one number DESC
                    \*   "limit 0"      LIMIT 0
                    \*   "vectorized"   any predicate in the columnar engine
                    \*   "aggregate"    the projected value of an aggregate
                    \*   "distinct"     COUNT(DISTINCT n)
                    \*   "table star"   users.* in the list of columns

VARIABLES
    data,           \* data[t]: the rows of table t
    statement,      \* the SELECT that was executed last, or none
    plan,           \* its plan
    result          \* what it returned, or none

vars == <<data, statement, plan, result>>

QuerySchema == [users |-> <<"a", "n">>, orders |-> <<"b", "n">>]
QueryIndexed == {<<"users", "a">>}
ASSUME QueryAssumption ==
    /\ Schema = QuerySchema /\ Indexed = QueryIndexed
    /\ Values \subseteq Nat \ {0} /\ 1 \in Values /\ {MaxRows, MaxJoinRows} \subseteq Nat

None == [none |-> TRUE]
NotSql == [error |-> "syntax"]
Rows(t) == IF t = "users" THEN Values \X (Values \union {Null})
           ELSE {<<1, v>>: v \in Values} \union (Values \union {Null}) \X {1}

----------------------------------------------------------------------------
(* The statements.                                                          *)
A == ColumnRef("users", "a")
N == ColumnRef("users", "n")
B == ColumnRef("orders", "b")
If(habit, S) == IF habit \in Habits THEN S ELSE {}
One == Literal(1)
(* Sums whose value depends on how their operators group.                    *)
Sums == {BinaryOp("-", BinaryOp("-", N, One), One), BinaryOp("-", N, BinaryOp("-", One, One)),
         BinaryOp("%", BinaryOp("+", N, N), Literal(2)),
         BinaryOp("+", N, BinaryOp("*", N, BinaryOp("%", N, Literal(2)))),
         Negate(BinaryOp("-", One, N)), BinaryOp("-", Negate(One), Negate(N))}
Equations == {BinaryOp("=", e, Literal(v)): e \in Sums, v \in 0..2}
Cmp(ops, e) == {BinaryOp(op, e, Literal(v)): op \in ops, v \in Values}

Atoms ==
    Cmp({"=", "<>", "<=", ">="}, A) \union Cmp({"=", "<", ">"}, N)
    \union {IsNull(N, TRUE), IsNull(N, FALSE), BinaryOp("<", One, A), BinaryOp("=", A, N),
            Between(A, One, One, FALSE), Between(A, One, One, TRUE),
            In(N, <<One, Literal(2)>>, FALSE),
            Case(NoExpression, <<When(IsNull(N, FALSE), BinaryOp("=", A, One))>>,
                 IsNull(A, TRUE)),
            Case(N, <<When(One, BinaryOp("=", A, One)), When(A, IsNull(N, FALSE))>>,
                 NoExpression)}
    \union If("strict", Cmp({"<", ">"}, A))
    \union If("computed", {BinaryOp("=", BinaryOp("%", A, Literal(2)), Literal(0))})
    \union If("null literal", {BinaryOp("=", A, Literal(Null))})
    \union If("not in", {In(N, <<Literal(1)>>, TRUE), In(A, <<Literal(Null)>>, TRUE)})

(* Connectives in both groupings, with a NOT at each place.                  *)
Few == {IsNull(N, TRUE), BinaryOp("=", N, One), BinaryOp(">=", A, Literal(2))}
Nested ==
    LET Pairs == {BinaryOp(op, p, q): op \in {"AND", "OR"}, p \in Few, q \in Few}
        Inner == Pairs \union {Not(p): p \in Pairs}
    IN  {BinaryOp(op, p, q): op \in {"AND", "OR"}, p \in Inner, q \in Few}
        \union {BinaryOp(op, p, q): op \in {"AND", "OR"}, p \in Few, q \in Inner}
        \union {Not(Not(p)): p \in Pairs}
        \union {BinaryOp(op, Not(p), Not(q)): op \in {"AND", "OR"}, p \in Few, q \in Few}
Negations == {Not(p): p \in {q \in Atoms: "not in" \in Habits \/ q.kind # "in"}}
Compounds == {BinaryOp(op, p, q): op \in {"AND", "OR"}, p \in Atoms, q \in Atoms}

Select(from, where) ==
    [from |-> from, where |-> where, columns |-> <<Star>>, group |-> <<>>,
     having |-> NoPredicate, order |-> <<>>, distinct |-> FALSE, limit |-> Null, offset |-> 0]
FromTable(t) == SimpleTableRef(t)
FromJoin(kind, on) ==
    JoinTableRef(kind, SimpleTableRef("users"), SimpleTableRef("orders"), on)
By(e, descending) == [expr |-> e, descending |-> descending]

Filters ==
    {Select(FromTable("users"), p):
        p \in Atoms \union {NoPredicate} \union Negations \union Equations}
Connectives == {Select(FromTable("users"), p): p \in Compounds \union Nested}

Orders == {<<By(A, FALSE)>>, <<By(N, FALSE)>>, <<By(A, TRUE), By(N, FALSE)>>,
           <<By(N, FALSE), By(A, FALSE)>>}
          \union If("descending", {<<By(A, TRUE)>>})
Presentations ==
    {[Select(FromTable("users"), where) EXCEPT
         !.order = order, !.distinct = distinct, !.limit = slice[1], !.offset = slice[2]]:
        where \in {NoPredicate, BinaryOp(">=", A, Literal(1))},
        order \in Orders \union {<<>>}, distinct \in BOOLEAN,
        slice \in {<<Null, 0>>} \union ({1, 2} \union If("limit 0", {0})) \X {0, 1}}
    \union {[Select(FromTable("users"), NoPredicate) EXCEPT
                !.columns = <<N>>, !.distinct = distinct]: distinct \in BOOLEAN}
    \union {[Select(FromTable("users"), p) EXCEPT !.columns = <<N>>, !.group = group]:
               p \in Atoms, group \in {<<>>, <<N>>}}
    \union If("table star", {[Select(FromTable("users"), NoPredicate) EXCEPT
                                 !.columns = <<ColumnRef("users", "*")>>]})

Aggregates == <<Aggregate("COUNT", Star, FALSE), Aggregate("COUNT", N, FALSE),
                Aggregate("SUM", N, FALSE), Aggregate("MIN", N, FALSE),
                Aggregate("MAX", A, FALSE)>>
              \o IF "distinct" \in Habits THEN <<Aggregate("COUNT", N, TRUE)>> ELSE <<>>
Groupings ==
    {[Select(FromTable("users"), p) EXCEPT
         !.columns = group \o Aggregates, !.group = group]:
        p \in Atoms, group \in {<<>>, <<N>>, <<A>>}}
    \union {[Select(FromTable("users"), NoPredicate) EXCEPT
               !.columns = <<N>> \o Aggregates, !.group = <<N>>, !.having = p]:
               p \in {IsNull(N, TRUE), BinaryOp("=", N, One)}}

OfUsers == {BinaryOp("=", A, Literal(1)), BinaryOp(">=", A, Literal(2))}
OfOrders == {BinaryOp("=", B, Literal(1)), BinaryOp(">", B, Literal(1))}
Conditions == {BinaryOp("=", A, B), BinaryOp("=", B, A), BinaryOp("<", A, B), NoPredicate}
              \union If("same name", {BinaryOp("=", N, ColumnRef("orders", "n"))})
Joins ==
    {Select(FromJoin("inner", on), where):
        on \in Conditions,
        where \in {NoPredicate} \union OfUsers \union OfOrders
                  \union {And(p, q): p \in OfUsers, q \in OfOrders}}
    \union {Select(FromJoin("left", on), where):
               on \in Conditions, where \in {NoPredicate} \union OfUsers}
    \union If("outer", {Select(FromJoin("left", BinaryOp("=", A, B)), p): p \in OfOrders})
    \union If("right", {Select(FromJoin(kind, BinaryOp("=", A, B)), NoPredicate):
                           kind \in {"right", "full"}})
    \union {Select(FromJoin(kind, BinaryOp("<", A, B)), NoPredicate): kind \in {"right", "full"}}
    \union If("unqualified",
              {Select(FromJoin("inner", BinaryOp("=", A, B)),
                      And(p, BinaryOp("=", ColumnRef(Unqualified, "b"), Literal(1)))):
                  p \in OfUsers})

(* A statement and what the parser makes of its text, which no table can      *)
(* change; the longer the statements, the fewer rows they meet.              *)
Reading(S) == {[statement |-> stmt, parse |-> ParseSelect(Text(stmt))]: stmt \in S}
QueriesOfOneTable == Reading(Filters \union Presentations \union Groupings)
LongQueries == Reading(Connectives)
JoinQueries == Reading(Joins)
Readings ==
    (IF data["orders"] = <<>> THEN QueriesOfOneTable ELSE {})
    \union (IF data["orders"] = <<>> /\ Len(data["users"]) <= 1 THEN LongQueries ELSE {})
    \union (IF Len(data["users"]) <= MaxJoinRows THEN JoinQueries ELSE {})

----------------------------------------------------------------------------
(* INSERT and SELECT, one statement at a time.                               *)
Init == /\ data = [t \in DOMAIN Schema |-> <<>>]
        /\ statement = None /\ plan = None /\ result = None

Insert(t, row) ==
    /\ statement = None
    /\ IF t = "users" THEN Len(data[t]) < MaxRows /\ data["orders"] = <<>>
       ELSE Len(data[t]) < MaxJoinRows /\ Len(data["users"]) <= MaxJoinRows
    /\ data' = [data EXCEPT ![t] = Append(@, row)]
    /\ UNCHANGED <<statement, plan, result>>

Estimates == [t \in DOMAIN data |-> Len(data[t])]

ExecuteStatement ==     \* Database.execute: parse, plan, run
    /\ statement = None
    /\ \E reading \in Readings:
          /\ statement' = reading.statement
          /\ plan' = IF reading.parse.at = 0 THEN NotSql
                     ELSE Plan(reading.parse.node, Estimates)
          /\ result' = IF plan' = NotSql THEN NotSql ELSE Execute(plan', data)
    /\ UNCHANGED data

FetchResult ==
    /\ result # None
    /\ statement' = None /\ plan' = None /\ result' = None
    /\ UNCHANGED data

Next ==
    \/ \E t \in DOMAIN Schema: \E row \in Rows(t): Insert(t, row)
    \/ ExecuteStatement
    \/ FetchResult

Spec == Init /\ [][Next]_vars

----------------------------------------------------------------------------
(* What SQL says.  A tuple of the FROM clause is a row number of each table,  *)
(* 0 for the NULLs of an outer join.  An expression has a value, a predicate *)
(* is true, false or neither.                                               *)
RowAt(t, i) == IF i = 0 THEN [c \in DOMAIN Schema[t] |-> Null] ELSE data[t][i]
TableOf(ref, tuple) ==
    IF ref.table # Unqualified THEN ref.table
    ELSE CHOOSE t \in DOMAIN Schema: ref.column \in ToSet(Schema[t])
ValueIn(ref, tuple) ==
    LET t == TableOf(ref, tuple)
    IN  RowAt(t, tuple[t])[CHOOSE c \in DOMAIN Schema[t]: Schema[t][c] = ref.column]

RECURSIVE SqlValue(_, _)
SqlValue(e, tuple) ==
    CASE e.kind = "literal" -> e.value
      [] e.kind = "column" -> ValueIn(e, tuple)
      [] e.kind = "binary" ->
            LET l == SqlValue(e.left, tuple)
                r == SqlValue(e.right, tuple)
            IN  IF Null \in {l, r} THEN Null
                ELSE (CASE e.op = "+" -> l + r [] e.op = "-" -> l - r
                        [] e.op = "*" -> l * r [] e.op = "%" -> l % r)
      [] e.kind = "negate" ->
            LET v == SqlValue(e.operand, tuple) IN IF v = Null THEN Null ELSE -v

Related(op, l, r) == CASE op = "=" -> l = r [] op = "<>" -> l # r [] op = "<" -> l < r
                       [] op = ">" -> l > r [] op = "<=" -> l <= r [] op = ">=" -> l >= r

RECURSIVE IsTruth(_, _, _)       \* whether a predicate is true, or false
IsTruth(p, truth, tuple) ==
    LET Is(q) == IsTruth(q, truth, tuple)
        Value(e) == SqlValue(e, tuple)
        Compared(op, e, f) == /\ Null \notin {Value(e), Value(f)}
                              /\ Related(op, Value(e), Value(f)) = truth
    IN  CASE p = NoPredicate -> truth
          [] p.kind = "literal" -> p.value = truth
          [] p.kind = "binary" ->
                (CASE p.op \in {"AND", "OR"} ->
                        IF (p.op = "AND") = truth THEN Is(p.left) /\ Is(p.right)
                        ELSE Is(p.left) \/ Is(p.right)
                   [] OTHER -> Compared(p.op, p.left, p.right))
          [] p.kind = "not" -> IsTruth(p.operand, ~truth, tuple)
          [] p.kind = "is null" -> ((Value(p.expr) = Null) # p.negated) = truth
          [] p.kind = "between" ->
                LET within == truth # p.negated
                    Bound(op, e) == /\ Null \notin {Value(p.expr), Value(e)}
                                    /\ Related(op, Value(p.expr), Value(e)) = within
                IN  IF within THEN Bound(">=", p.low) /\ Bound("<=", p.high)
                    ELSE Bound(">=", p.low) \/ Bound("<=", p.high)
          [] p.kind = "in" ->
                LET equal == truth # p.negated
                    Single(i) == /\ Null \notin {Value(p.expr), Value(p.values[i])}
                              /\ (Value(p.expr) = Value(p.values[i])) = equal
                IN  IF equal THEN \E i \in DOMAIN p.values: Single(i)
                    ELSE \A i \in DOMAIN p.values: Single(i)
          [] p.kind = "case" ->
                LET Meets(i) == IF p.operand = NoExpression
                                THEN IsTruth(p.clauses[i].condition, TRUE, tuple)
                                ELSE Value(p.operand) = Value(p.clauses[i].condition)
                                     /\ Value(p.operand) # Null
                    met == {i \in DOMAIN p.clauses: Meets(i)}
                IN  IF met # {} THEN Is(p.clauses[Min(met)].result)
                    ELSE p.else # NoExpression /\ Is(p.else)

Tuple(i, j) == [users |-> i, orders |-> j]
FromTuples(from) ==
    IF from.kind = "table" THEN {Tuple(i, 0): i \in DOMAIN data["users"]}
    ELSE LET pairs == {Tuple(i, j): i \in DOMAIN data["users"], j \in DOMAIN data["orders"]}
             met == {tuple \in pairs: IsTruth(from.on, TRUE, tuple)}
         IN  met
             \union (IF from.kind \in {"left", "full"}
                     THEN {Tuple(i, 0): i \in {k \in DOMAIN data["users"]:
                                                  \A tuple \in met: tuple.users # k}}
                     ELSE {})
             \union (IF from.kind \in {"right", "full"}
                     THEN {Tuple(0, j): j \in {k \in DOMAIN data["orders"]:
                                                  \A tuple \in met: tuple.orders # k}}
                     ELSE {})

Selected(stmt) == {tuple \in FromTuples(stmt.from): IsTruth(stmt.where, TRUE, tuple)}

SqlRow(stmt, tuple) ==
    IF stmt.columns \in {<<Star>>, <<ColumnRef("users", "*")>>}
    THEN RowAt("users", tuple.users)
         \o (IF stmt.from.kind = "table" THEN <<>> ELSE RowAt("orders", tuple.orders))
    ELSE [c \in DOMAIN stmt.columns |-> SqlValue(stmt.columns[c], tuple)]

(* The groups of the selected tuples, and what the aggregates say of each.   *)
AggregateOver(agg, tuples) ==
    LET known == {tuple \in tuples: agg.arg = Star \/ SqlValue(agg.arg, tuple) # Null}
        values == {SqlValue(agg.arg, tuple): tuple \in known}
    IN  CASE agg.name = "COUNT" -> Cardinality(IF agg.distinct THEN values ELSE known)
          [] known = {} -> Null
          [] agg.name = "SUM" -> MapThenSumSet(LAMBDA tuple: SqlValue(agg.arg, tuple), known)
          [] agg.name = "MIN" -> Min(values)
          [] agg.name = "MAX" -> Max(values)

GroupRows(stmt) ==
    LET KeyOf(tuple) == [i \in DOMAIN stmt.group |-> SqlValue(stmt.group[i], tuple)]
        keys == IF stmt.group = <<>> THEN {<<>>}
                ELSE {KeyOf(tuple): tuple \in {t \in Selected(stmt):
                                                  IsTruth(stmt.having, TRUE, t)}}
    IN  {key \o [i \in DOMAIN Aggregates |->
                    AggregateOver(Aggregates[i],
                                  {tuple \in Selected(stmt): KeyOf(tuple) = key})]:
            key \in keys}

(* The rows of the answer, with something to tell equal ones apart.          *)
Answer(stmt) ==
    IF HasAggregates(stmt) THEN {[row |-> row, of |-> Tuple(0, 0)]: row \in GroupRows(stmt)}
    ELSE LET once == stmt.distinct \/ stmt.group # <<>>
         IN  {[row |-> SqlRow(stmt, tuple), of |-> IF once THEN Tuple(0, 0) ELSE tuple]:
                 tuple \in Selected(stmt)}

Occurrences(rows, row) == Cardinality({i \in DOMAIN rows: rows[i] = row})

ComesBefore(stmt, x, y) ==
    LET At(row, n) == row[CHOOSE c \in 1..2: Schema["users"][c] = stmt.order[n].expr.column]
        Less(n) == /\ At(x, n) # Null
                   /\ \/ At(y, n) = Null
                      \/ IF stmt.order[n].descending THEN At(x, n) > At(y, n)
                         ELSE At(x, n) < At(y, n)
    IN  \E n \in DOMAIN stmt.order: Less(n) /\ \A m \in 1..(n - 1): At(x, m) = At(y, m)

InOrder(stmt, answer, rows) ==
    \A p \in DOMAIN rows:
        LET place == p + stmt.offset
        IN  /\ Cardinality({a \in answer: ComesBefore(stmt, a.row, rows[p])}) < place
            /\ Cardinality({a \in answer: ~ComesBefore(stmt, rows[p], a.row)}) >= place

(* The text of a SELECT is accepted, whatever its operators and clauses, and  *)
(* when it returns at all it returns what SQL says: each row as often as the   *)
(* answer has it, in an order that ORDER BY allows, cut where LIMIT and       *)
(* OFFSET cut it (parser.py 205-266, 740-931; planner.py 270-364; executor.py *)
(* 466-667).                                                                *)
Returned == result \notin {None, NotSql, NoResult}

SelectMeansSql ==
    /\ result # NotSql
    /\ Returned /\ ("aggregate" \in Habits \/ ~HasAggregates(statement)) =>
        LET rows == result.rows
            answer == Answer(statement)
            left == Max({0, Cardinality(answer) - statement.offset})
        IN  /\ \A row \in ToSet(rows):
                  Occurrences(rows, row) <= Cardinality({a \in answer: a.row = row})
            /\ Len(rows) = IF statement.limit = Null THEN left ELSE Min({left, statement.limit})
            /\ statement.columns = <<Star>> => InOrder(statement, answer, rows)

(* What the optimizer does cannot be seen: the rewritten plan returns the     *)
(* rows of the plan as written, or fails where it fails, and a nested loop    *)
(* and a hash join return the same rows (planner.py 386-389, 478-606).       *)
SameRows(r, s) ==
    IF Failed(r) \/ Failed(s) THEN Failed(r) = Failed(s)
    ELSE /\ Len(r.rows) = Len(s.rows)
         /\ \A row \in ToSet(r.rows): Occurrences(r.rows, row) = Occurrences(s.rows, row)

ChoicesAreInvisible ==
    result \notin {None, NotSql} /\ statement.limit = Null /\ plan # CannotPlan =>
        /\ SameRows(result, Execute(PlanSelect(statement, Estimates), data))
        /\ plan.type = "project" =>
              \A type \in {"nested loop", "hash join"} \ {plan.child.type}:
                 IsJoin(plan.child) =>
                     SameRows(result, Execute([plan EXCEPT !.child.type = type], data))

(* The aggregate node under the projection makes one row for every group of   *)
(* the selected rows, with the counts, sums and extremes of that group, and   *)
(* one row for no rows without GROUP BY (executor.py 787-896).               *)
GroupsAgree ==
    Returned /\ HasAggregates(statement) =>
        LET rows == Execute(plan.child, data).rows
        IN  Len(rows) = Cardinality(GroupRows(statement)) /\ ToSet(rows) = GroupRows(statement)

(* The columnar engine filters and projects the rows of a table as the row    *)
(* engine does, across batches, for the comparisons it knows                 *)
(* (vectorized.py 295-435, executor.py 466-601).                            *)
IsKnownToVectors(p) ==
    \/ p = NoPredicate
    \/ /\ p.kind = "binary" /\ p.op \in {"=", "<", ">"}
       /\ {p.left.kind, p.right.kind} \subseteq {"column", "literal"}

EnginesAgree ==
    /\ result # None /\ statement.from.kind = "table" /\ ~statement.distinct
    /\ <<>> = statement.group \o statement.order /\ statement.limit = Null
    /\ ~HasAggregates(statement)
    /\ "vectorized" \in Habits \/ IsKnownToVectors(statement.where)
    => LET t == statement.from.name
           scanned == Passing(Result(Schema[t], data[t]), statement.where)
           names == IF statement.columns = <<Star>> THEN <<>>
                    ELSE [c \in DOMAIN statement.columns |-> statement.columns[c].column]
       IN  ~Failed(scanned) =>
               ExecutePipeline(Schema[t], data[t], statement.where, names)
                   = ExecProject(statement.columns, scanned).rows

(* Every statement the front end accepts returns: not so, for the cost of a   *)
(* sort or of an index scan takes bit_length of a float (planner.py 337, 569) *)
(* once more than one row is expected.                                      *)
StatementsReturn == result # None => Returned
=============================================================================
