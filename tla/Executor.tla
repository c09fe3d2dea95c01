-------------------------------- MODULE Executor --------------------------------
(***************************************************************************)
(* pysql.executor.Executor: what each plan node returns, as a sequence of    *)
(* rows under column names.  data[t] is the sequence of rows a scan of table *)
(* t yields; the trees are in memory and agree with it (module Database says *)
(* when).  The module's missing imports (dataclass, JoinType) are taken as   *)
(* made: without them it cannot be loaded.                                  *)
(***************************************************************************)
EXTENDS Planner, TLC

Result(columns, rows) == [columns |-> columns, rows |-> rows]
NoResult == Result(<<>>, Raised)
Failed(result) == result = NoResult

(* The rows of a result that a predicate lets pass (filter, scans).          *)
Passing(result, predicate) ==
    IF Failed(result) \/ predicate = NoPredicate THEN result
    ELSE IF \E i \in DOMAIN result.rows: Raises(predicate, result.columns, result.rows[i])
    THEN NoResult
    ELSE [result EXCEPT !.rows =
             SelectSeq(@, LAMBDA row: Holds(predicate, result.columns, row))]

(* Sorted by less on the keys, and by position among equal keys.             *)
Sorted(rows, Key(_), Less(_, _)) ==
    LET keys == [i \in DOMAIN rows |-> Key(rows[i])]
        before(i, j) == Less(keys[i], keys[j]) \/ (~Less(keys[j], keys[i]) /\ i < j)
        places == SortSeq([i \in DOMAIN rows |-> i], before)
    IN  [n \in DOMAIN rows |-> rows[places[n]]]

----------------------------------------------------------------------------
(* _exec_index_scan: the entries in key order; a range replaces the          *)
(* predicate, which is looked at only without one.                           *)
InRange(range, key) ==
    /\ range.low = NoBound \/ range.low <= key
    /\ range.high = NoBound \/ key <= range.high

ExecIndexScan(plan, data) ==
    LET columns == Schema[plan.table]
        Key(row) == Lookup(columns, row, plan.column)
        entries == Sorted(data[plan.table], Key, LAMBDA k, l: k < l)
    IN  IF plan.range = NoRange THEN Passing(Result(columns, entries), plan.predicate)
        ELSE Result(columns, SelectSeq(entries, LAMBDA row: InRange(plan.range, Key(row))))

(* _exec_nested_loop_join: left rows with each right row they match, then    *)
(* padded with NULLs in a LEFT or FULL join; RIGHT and FULL add the right     *)
(* rows that match no left one.                                             *)
Padding(result) == [i \in DOMAIN result.columns |-> Null]
JoinedColumns(left, right) == left.columns \o right.columns
Combined(left, right) == {l \o r: l \in ToSet(left.rows), r \in ToSet(right.rows)}

NestedLoopJoin(plan, left, right) ==
    LET columns == JoinedColumns(left, right)
        Matches(l, r) == plan.on = NoPredicate \/ Holds(plan.on, columns, l \o r)
        Row(l) ==
            LET matched == SelectSeq(right.rows, LAMBDA r: Matches(l, r))
            IN  IF matched = <<>> /\ plan.kind \in {"left", "full"}
                THEN <<l \o Padding(right)>>
                ELSE [i \in DOMAIN matched |-> l \o matched[i]]
        unmatched == SelectSeq(right.rows,
                               LAMBDA r: \A i \in DOMAIN left.rows: ~Matches(left.rows[i], r))
    IN  IF \E row \in Combined(left, right):
              plan.on # NoPredicate /\ Raises(plan.on, columns, row)
        THEN NoResult
        ELSE Result(columns,
                    FlattenSeq([i \in DOMAIN left.rows |-> Row(left.rows[i])])
                    \o IF plan.kind \in {"right", "full"}
                       THEN [i \in DOMAIN unmatched |-> Padding(left) \o unmatched[i]]
                       ELSE <<>>)

(* _exec_hash_join: for = between a column of the left and one of the right   *)
(* result, else the nested loop.  NULL keys meet in the hash table, and       *)
(* right rows without a partner are not added.                               *)
IsHashable(plan, left, right) ==
    /\ plan.on.kind = "binary"
    /\ plan.on.op = "=" /\ plan.on.left.kind = "column" /\ plan.on.right.kind = "column"
    /\ plan.on.left.column \in ToSet(left.columns)
    /\ plan.on.right.column \in ToSet(right.columns)

KeyAt(columns, name) == CHOOSE i \in DOMAIN columns:
                           columns[i] = name /\ \A j \in 1..(i - 1): columns[j] # name

HashJoin(plan, left, right) ==
    LET lkey == KeyAt(left.columns, plan.on.left.column)
        rkey == KeyAt(right.columns, plan.on.right.column)
        Row(l) ==
            LET matched == SelectSeq(right.rows, LAMBDA r: r[rkey] = l[lkey])
            IN  IF matched = <<>> /\ plan.kind \in {"left", "full"}
                THEN <<l \o Padding(right)>>
                ELSE [i \in DOMAIN matched |-> l \o matched[i]]
    IN  Result(JoinedColumns(left, right),
               FlattenSeq([i \in DOMAIN left.rows |-> Row(left.rows[i])]))

ExecJoin(plan, left, right) ==
    CASE Failed(left) \/ Failed(right) -> NoResult
      [] plan.type = "hash join" /\ IsHashable(plan, left, right) ->
            HashJoin(plan, left, right)
      [] OTHER -> NestedLoopJoin(plan, left, right)

----------------------------------------------------------------------------
(* _compute_aggregate over the rows of a group (AVG is SUM over COUNT).      *)
ValuesOf(expr, result, rows) ==
    SelectSeq([i \in DOMAIN rows |-> EvalExpr(expr, result.columns, rows[i])],
              LAMBDA value: value # Null)

ComputeAggregate(aggregate, result, rows) ==
    LET values == ValuesOf(aggregate.arg, result, rows)
    IN  CASE aggregate.name = "COUNT" ->
                IF aggregate.arg = Star THEN Len(rows) ELSE Len(values)
          [] values = <<>> -> Null
          [] aggregate.name = "SUM" -> FoldLeft(LAMBDA a, b: a + b, 0, values)
          [] aggregate.name = "MIN" ->
                CHOOSE v \in ToSet(values): \A w \in ToSet(values): v <= w
          [] aggregate.name = "MAX" ->
                CHOOSE v \in ToSet(values): \A w \in ToSet(values): v >= w

(* _exec_aggregate: groups in the order of their first row, one group of all  *)
(* rows without GROUP BY; NULLs form a group.                                *)
FirstsOfRuns(seq) ==      \* fault: a group ends where its key changes
    FoldLeft(LAMBDA seen, x: IF seen # <<>> /\ x = Last(seen) THEN seen ELSE Append(seen, x),
             <<>>, seq)
Firsts(seq) ==
    FoldLeft(LAMBDA seen, x: IF x \in ToSet(seen) THEN seen ELSE Append(seen, x), <<>>, seq)

ExecAggregate(spec, result) ==
    LET Key(row) == [i \in DOMAIN spec.group |-> EvalExpr(spec.group[i], result.columns, row)]
        keys == [i \in DOMAIN result.rows |-> Key(result.rows[i])]
        groups == IF spec.group = <<>> THEN <<(<<>>)>> ELSE Firsts(keys)
        Row(key) ==
            LET rows == SelectSeq(result.rows, LAMBDA row: Key(row) = key)
            IN  key \o [i \in DOMAIN spec.aggregates |->
                           ComputeAggregate(spec.aggregates[i], result, rows)]
    IN  Result([i \in DOMAIN spec.group |-> spec.group[i].column]
               \o [i \in DOMAIN spec.aggregates |-> spec.aggregates[i].name],
               [i \in DOMAIN groups |-> Row(groups[i])])

(* _exec_project; an aggregate is evaluated again, as NULL.                  *)
ExecProject(columns, result) ==
    LET Spread(Part(_)) == FlattenSeq([i \in DOMAIN columns |-> Part(columns[i])])
    IN  Result(Spread(LAMBDA c: CASE c = Star -> result.columns
                                  [] c.kind = "column" -> <<c.column>>
                                  [] OTHER -> <<"expression">>),
               [n \in DOMAIN result.rows |->
                   Spread(LAMBDA c: IF c = Star THEN result.rows[n]
                                    ELSE <<EvalExpr(c, result.columns, result.rows[n])>>)])

(* _exec_sort: NULLs last, descending numbers negated, and the whole reversed *)
(* when every key is descending.                                            *)
PairLess(x, y) == x[1] < y[1] \/ (x[1] = y[1] /\ x[2] < y[2])
LexLess(x, y) == \E n \in DOMAIN x: PairLess(x[n], y[n]) /\ \A m \in 1..(n - 1): x[m] = y[m]

SortKey(order, result, row) ==
    [n \in DOMAIN order |->
        LET value == EvalExpr(order[n].expr, result.columns, row)
        IN  IF value = Null THEN <<1, 0>>
            ELSE <<0, IF order[n].descending THEN -value ELSE value>>]

ExecSort(order, result) ==
    LET sorted == Sorted(result.rows, LAMBDA row: SortKey(order, result, row), LexLess)
    IN  [result EXCEPT !.rows = IF \A n \in DOMAIN order: order[n].descending
                                THEN Reverse(sorted) ELSE sorted]

(* _exec_limit: limit or len(rows), so a limit of 0 is none.                 *)
ExecLimit(spec, result) ==
    LET limit == IF spec.limit = 0 THEN Len(result.rows) ELSE spec.limit
        last == IF spec.offset + limit > Len(result.rows) THEN Len(result.rows)
                ELSE spec.offset + limit
    IN  [result EXCEPT !.rows = SubSeq(@, spec.offset + 1, last)]

ExecDistinct(result) == [result EXCEPT !.rows = Firsts(@)]

(* _execute_node of a SELECT plan: the children first.                       *)
ExecUnary(plan, below) ==
    IF Failed(below) THEN NoResult
    ELSE CASE plan.type = "filter" -> Passing(below, plan.predicate)
           [] plan.type = "aggregate" -> ExecAggregate(plan.spec, below)
           [] plan.type = "project" -> ExecProject(plan.spec, below)
           [] plan.type = "sort" -> ExecSort(plan.spec, below)
           [] plan.type = "distinct" -> ExecDistinct(below)
           [] plan.type = "limit" -> ExecLimit(plan.spec, below)

RECURSIVE Execute(_, _)
Execute(plan, data) ==
    CASE plan = CannotPlan -> NoResult
      [] plan.type = "seq scan" ->
            Passing(Result(Schema[plan.table], data[plan.table]), plan.predicate)
      [] plan.type = "index scan" -> ExecIndexScan(plan, data)
      [] IsJoin(plan) -> ExecJoin(plan, Execute(plan.left, data), Execute(plan.right, data))
      [] HasChild(plan) -> ExecUnary(plan, Execute(plan.child, data))
=============================================================================
