-------------------------------- MODULE Planner ---------------------------------
(***************************************************************************)
(* pysql.planner.QueryPlanner: from a SELECT statement to a tree of plan     *)
(* nodes, and the rewriting of that tree.  Costs never decide anything and   *)
(* are left out; row estimates do, and are kept in hundred-thousandths.      *)
(***************************************************************************)
EXTENDS Expression, FiniteSets

CONSTANTS
    Schema,         \* Schema[t]: the columns of table t
    Indexed,        \* the columns with an index, as <<table, column>>
    HashJoinFrom    \* estimated pairs of rows from which a hash join is used
                    \* (100000 in the code)

Unit == 100000      \* an estimate of one row
NoPredicate == NoExpression
NoRange == [none |-> TRUE]
NoBound == Null     \* None in a range, as in a NULL literal

(* Plan nodes.                                                              *)
SeqScan(table, rows) ==
    [type |-> "seq scan", table |-> table, predicate |-> NoPredicate, rows |-> rows]
IndexScan(scan, column, range) ==
    [type |-> "index scan", table |-> scan.table, predicate |-> scan.predicate,
     column |-> column, range |-> range]
Filter(predicate, child, rows) ==
    [type |-> "filter", predicate |-> predicate, child |-> child, rows |-> rows]
Join(algorithm, ref, left, right, rows) ==
    [type |-> algorithm, kind |-> ref.kind, on |-> ref.on,
     left |-> left, right |-> right, rows |-> rows]
Node(type, child, rows, spec) ==
    [type |-> type, child |-> child, rows |-> rows, spec |-> spec]
CannotPlan == [type |-> "raised", rows |-> 0]

(* max(1, rows).bit_length(): the first 1 is an int, any other estimate a    *)
(* float, which has no bit_length.                                          *)
HasBitLength(rows) == rows <= Unit

----------------------------------------------------------------------------
(* _plan_table_ref; estimates are the catalog's row counts.                  *)
RECURSIVE PlanTableRef(_, _)
PlanTableRef(ref, estimates) ==
    IF ref.kind = "table" THEN SeqScan(ref.name, estimates[ref.name] * Unit)
    ELSE LET left == PlanTableRef(ref.left, estimates)
             right == PlanTableRef(ref.right, estimates)
             pairs == (left.rows \div 1000) * (right.rows \div 100)
         IN  Join(IF pairs < HashJoinFrom * Unit THEN "nested loop" ELSE "hash join",
                  ref, left, right, pairs \div 10)

(* _plan_select: filter, aggregate, having, project, sort, distinct, limit,  *)
(* in this order from the bottom.                                           *)
Filtered(plan, where) ==
    IF where = NoPredicate THEN plan ELSE Filter(where, plan, (plan.rows * 33) \div 100)

HasAggregates(stmt) == \E i \in DOMAIN stmt.columns: stmt.columns[i].kind = "aggregate"
Aggregated(plan, stmt) ==
    IF stmt.group = <<>> /\ ~HasAggregates(stmt) THEN plan
    ELSE LET tenth == plan.rows \div 10
         IN  Node("aggregate", plan, IF tenth > Unit THEN tenth ELSE Unit,
                  [group |-> stmt.group,
                   aggregates |-> SelectSeq(stmt.columns,
                                            LAMBDA c: c.kind = "aggregate")])
Having(plan, stmt) ==
    IF stmt.having = NoPredicate THEN plan ELSE Filter(stmt.having, plan, plan.rows \div 2)
Projected(plan, stmt) == Node("project", plan, plan.rows, stmt.columns)

Ordered(plan, stmt) ==
    CASE stmt.order = <<>> -> plan
      [] ~HasBitLength(plan.rows) -> CannotPlan
      [] OTHER -> Node("sort", plan, plan.rows, stmt.order)

Distinct(plan, stmt) ==
    IF ~stmt.distinct \/ plan = CannotPlan THEN plan
    ELSE Node("distinct", plan, (plan.rows * 8) \div 10, "all columns")

Limited(plan, stmt) ==
    IF stmt.limit = Null \/ plan = CannotPlan THEN plan
    ELSE Node("limit", plan, plan.rows, [limit |-> stmt.limit, offset |-> stmt.offset])

PlanSelect(stmt, estimates) ==
    LET selected == Filtered(PlanTableRef(stmt.from, estimates), stmt.where)
        grouped == Having(Aggregated(selected, stmt), stmt)
    IN  Limited(Distinct(Ordered(Projected(grouped, stmt), stmt), stmt), stmt)

----------------------------------------------------------------------------
(* _pushdown_predicates: into the scan below, or to the side of the join     *)
(* below whose table is the only one the predicate names.                    *)
HasChild(plan) == plan.type \in {"filter", "aggregate", "project", "sort",
                                 "distinct", "limit"}
IsJoin(plan) == plan.type \in {"nested loop", "hash join"}

RECURSIVE PlanTables(_)
PlanTables(plan) == CASE plan.type \in {"seq scan", "index scan"} -> {plan.table}
                      [] IsJoin(plan) -> PlanTables(plan.left) \union PlanTables(plan.right)
                      [] HasChild(plan) -> PlanTables(plan.child)

TablesOf(predicate) ==
    {ref.table: ref \in {r \in RefsOf(predicate): r.table # Unqualified}}

PushToFirst(predicate, join) ==      \* fault: to the left whatever it names
    [join EXCEPT !.left = Filter(predicate, @, (@.rows * 33) \div 100)]
PushToJoin(predicate, join) ==
    LET Pushed(side) == Filter(predicate, side, (side.rows * 33) \div 100)
        tables == TablesOf(predicate)
    IN  CASE Cardinality(tables) # 1 -> join
          [] tables \subseteq PlanTables(join.left) -> [join EXCEPT !.left = Pushed(@)]
          [] tables \subseteq PlanTables(join.right) -> [join EXCEPT !.right = Pushed(@)]
          [] OTHER -> join

RECURSIVE PushdownPredicates(_)
PushdownPredicates(plan) ==
    CASE plan.type = "filter" /\ plan.child.type = "seq scan" ->
            [plan.child EXCEPT !.predicate = plan.predicate,
                               !.rows = (@ * 33) \div 100]
      [] /\ plan.type = "filter" /\ IsJoin(plan.child)
         /\ plan.predicate.kind = "binary"
         /\ PushToJoin(plan.predicate, plan.child) # plan.child ->
            PushToJoin(plan.predicate, plan.child)
      [] HasChild(plan) -> [plan EXCEPT !.child = PushdownPredicates(@)]
      [] IsJoin(plan) -> [plan EXCEPT !.left = PushdownPredicates(@),
                                      !.right = PushdownPredicates(@)]
      [] OTHER -> plan

(* _extract_scan_range: from the operator and the literal on the right; which *)
(* side the column is on, and that > and < exclude the bound, is not looked   *)
(* at.                                                                      *)
ExtractScanRange(predicate) ==
    IF predicate.kind # "binary" THEN NoRange
    ELSE IF predicate.right.kind # "literal" THEN NoRange
    ELSE LET value == predicate.right.value
         IN  CASE predicate.op = "=" -> [low |-> value, high |-> value]
               [] predicate.op \in {">", ">="} -> [low |-> value, high |-> NoBound]
               [] predicate.op \in {"<", "<="} -> [low |-> NoBound, high |-> value]
               [] OTHER -> NoRange

(* _find_applicable_index: an index whose column the predicate mentions.     *)
ApplicableIndexes(table, predicate) ==
    {i \in Indexed: i[1] = table /\ \E ref \in RefsOf(predicate): ref.column = i[2]}

(* _select_indexes: every scan with a predicate and an applicable index.     *)
RECURSIVE SelectIndexes(_)
SelectIndexes(plan) ==
    CASE plan.type = "seq scan" ->
            LET applicable == ApplicableIndexes(plan.table, plan.predicate)
                index == CHOOSE i \in applicable: TRUE
            IN  CASE plan.predicate = NoPredicate \/ applicable = {} -> plan
                  [] ~HasBitLength(plan.rows) -> CannotPlan
                  [] OTHER -> IndexScan(plan, index[2], ExtractScanRange(plan.predicate))
      [] HasChild(plan) ->
            LET child == SelectIndexes(plan.child)
            IN  IF child = CannotPlan THEN CannotPlan ELSE [plan EXCEPT !.child = child]
      [] IsJoin(plan) ->
            LET left == SelectIndexes(plan.left)
                right == SelectIndexes(plan.right)
            IN  IF CannotPlan \in {left, right} THEN CannotPlan
                ELSE [plan EXCEPT !.left = left, !.right = right]
      [] OTHER -> plan

Optimize(plan) == SelectIndexes(PushdownPredicates(plan))
Plan(stmt, estimates) == Optimize(PlanSelect(stmt, estimates))
=============================================================================
