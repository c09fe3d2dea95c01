------------------------------- MODULE Vectorized -------------------------------
(***************************************************************************)
(* pysql.vectorized: the columnar engine, which filters and projects rows in  *)
(* batches of columns.  A vector keeps a 0 where a value is NULL, and marks   *)
(* the place in its validity mask.                                          *)
(***************************************************************************)
EXTENDS Executor

CONSTANT VectorSize     \* rows of a batch (2048 in the code)

(* Append to an empty vector, value by value; the kind is that of the first   *)
(* value that is not NULL, or a string vector for none.                      *)
KindOf(values) == IF \A i \in DOMAIN values: values[i] = Null THEN "string" ELSE "int64"
Vector(kind, values) ==
    [kind |-> kind,
     data |-> [i \in DOMAIN values |-> IF values[i] = Null THEN 0 ELSE values[i]],
     nulls |-> {i \in DOMAIN values: values[i] = Null}]
Get(vector, i) == IF i \in vector.nulls THEN Null ELSE vector.data[i]

SliceOfData(vector, selection) ==     \* fault: the mask is not carried over
    Vector(vector.kind, [n \in DOMAIN selection |-> vector.data[selection[n]]])
Slice(vector, selection) ==
    Vector(vector.kind, [n \in DOMAIN selection |-> Get(vector, selection[n])])

(* RecordBatch: columns under their names, and back to rows.                 *)
FromRows(schema, rows) ==
    LET Column(c) == [i \in DOMAIN rows |-> rows[i][c]]
    IN  [schema |-> schema, size |-> Len(rows),
         vectors |-> [c \in DOMAIN schema |-> Vector(KindOf(Column(c)), Column(c))]]
ToRows(batch) ==
    [i \in 1..batch.size |-> [c \in DOMAIN batch.vectors |-> Get(batch.vectors[c], i)]]
FilterBySelection(batch, selection) ==
    [batch EXCEPT !.vectors = [c \in DOMAIN @ |-> Slice(@[c], selection)],
                  !.size = Len(selection)]

----------------------------------------------------------------------------
(* _eval_scalar_expr: what it does not know is true, and its operands are     *)
(* columns and literals only.                                               *)
EvalVal(e, columns, row) == CASE e.kind = "literal" -> e.value
                              [] e.kind = "column" -> Lookup(columns, row, e.column)
                              [] OTHER -> Null
EvalScalarExpr(e, columns, row) ==
    e.kind = "binary" =>
        LET left == EvalVal(e.left, columns, row)
            right == EvalVal(e.right, columns, row)
        IN  /\ Null \notin {left, right}
            /\ CASE e.op = ">" -> left > right
                 [] e.op = "=" -> left = right
                 [] e.op = "<" -> left < right
                 [] OTHER -> TRUE       \* AND of numbers, and the operators it ignores

(* _eval_vector_predicate: > and = of an integer vector and a number in one   *)
(* loop, all else row by row.                                               *)
IsVectorComparison(e, batch) ==
    /\ e.kind = "binary" /\ e.op \in {">", "="}
    /\ e.left.kind = "column" /\ e.left.column \in ToSet(batch.schema)
    /\ e.right.kind = "literal" /\ e.right.value # Null
    /\ batch.vectors[KeyAt(batch.schema, e.left.column)].kind = "int64"

EvalVectorPredicate(e, batch) ==
    LET indices == [i \in 1..batch.size |-> i]
        rows == ToRows(batch)
        vector == batch.vectors[KeyAt(batch.schema, e.left.column)]
        Matches(i) == /\ i \notin vector.nulls
                      /\ IF e.op = ">" THEN vector.data[i] > e.right.value
                         ELSE vector.data[i] = e.right.value
    IN  IF IsVectorComparison(e, batch) THEN SelectSeq(indices, Matches)
        ELSE SelectSeq(indices, LAMBDA i: EvalScalarExpr(e, batch.schema, rows[i]))

ProjectBatch(batch, names) ==
    LET known == SelectSeq(names, LAMBDA name: name \in ToSet(batch.schema))
    IN  [batch EXCEPT !.schema = known,
                      !.vectors = [c \in DOMAIN known |-> @[KeyAt(batch.schema, known[c])]]]

(* The pipeline of VectorizedEngine: next_batch until there is none; a batch  *)
(* of which nothing is selected is passed over.                             *)
Batches(rows) ==
    [b \in 1..((Len(rows) + VectorSize - 1) \div VectorSize) |->
        SubSeq(rows, (b - 1) * VectorSize + 1,
               IF b * VectorSize < Len(rows) THEN b * VectorSize ELSE Len(rows))]

ExecutePipeline(schema, rows, predicate, names) ==
    LET Filtering(batch) ==
            IF predicate = NoPredicate THEN batch
            ELSE FilterBySelection(batch, EvalVectorPredicate(predicate, batch))
        Projecting(batch) == IF names = <<>> THEN batch ELSE ProjectBatch(batch, names)
        RowsOf(chunk) == ToRows(Projecting(Filtering(FromRows(schema, chunk))))
        chunks == Batches(rows)
    IN  FlattenSeq([b \in DOMAIN chunks |-> RowsOf(chunks[b])])
=============================================================================
