-------------------------------- MODULE Database --------------------------------
(***************************************************************************)
(* pysql.engine.Database with its Executor: auto-commit statements over the  *)
(* heap pages in the buffer pool, the catalog and the B+ trees in memory.    *)
(*                                                                          *)
(* The pool is what it promises (PageStore): mem is what callers see, disk   *)
(* the file, dirty the pages it knows to be changed.  The trees are sets of  *)
(* key and record id (BTree), and live in memory only.  Undo does not exist  *)
(* for heap and indexes, and restart redoes nothing, so transactions and the *)
(* log leave no trace here.                                                 *)
(***************************************************************************)
EXTENDS HeapFile, Catalog

CONSTANTS
    Tables,
    Edited,         \* tables whose rows are updated, deleted and indexed by k
    Texts,          \* values of column k (a text of that length)
    GivenIds,       \* ids that statements give explicitly
    MaxAuto,        \* bound on ids given by AUTOINCREMENT
    MaxPages,       \* bound on the pages of the file
    MaxRows,        \* bound on the estimated rows of all tables
    Habits          \* what callers of index scans do not avoid:
                    \*   "update"   change an indexed column
                    \*   "reuse"    insert where an index has stale record ids
                    \*   "same id"  give an id twice
                    \*   "reindex"  create an index twice
                    \*   "lost row" create an index while an update has failed

ASSUME DatabaseAssumption ==
    /\ Edited \subseteq Tables
    /\ Texts \subseteq Nat \ {0}
    /\ GivenIds \subseteq Nat /\ {MaxAuto, MaxPages, MaxRows} \subseteq Nat
    /\ \A id \in GivenIds: id > MaxAuto
    /\ Habits \subseteq {"update", "reuse", "same id", "reindex", "lost row"}

VARIABLES
    mem,            \* the pages as the pool shows them
    disk,           \* the pages in the file
    dirty,          \* pages marked as changed
    catalog,        \* Catalog._tables and _indexes
    catalogFile,    \* the JSON file
    heaps,          \* Executor._heap_files: the page ids of loaded tables
    indexes,        \* Executor._indexes: the entries of each tree
    kept            \* rows of each table at the last checkpoint that no
                    \* statement has touched since

vars == <<mem, disk, dirty, catalog, catalogFile, heaps, indexes, kept>>

Index(t, column) == [table |-> t, column |-> column]
PrimaryKey(t) == Index(t, "id")
IsUnique(i) == i.column = "id"

Put(f, x, value) == [y \in DOMAIN f \union {x} |-> IF y = x THEN value ELSE f[y]]
Without(f, S) == [x \in DOMAIN f \ S |-> f[x]]

(* _get_heap_file: the list in memory, or the chain on the pages.            *)
HeapOf(t) == IF t \in DOMAIN heaps THEN heaps[t] ELSE Chain(mem, catalog.tables[t].first)

RowsIn(pages, chain) == {Read(pages, rid): rid \in RidsOf(pages, chain)}
RowsOf(t) == RowsIn(mem, HeapOf(t))

Init ==
    /\ mem = <<>> /\ disk = <<>> /\ dirty = {}
    /\ catalog = NoCatalog /\ catalogFile = NoCatalog
    /\ heaps = <<>> /\ indexes = <<>>
    /\ kept = [t \in Tables |-> {}]

Save(c) == catalog' = c /\ catalogFile' = c

(* BufferPool.new_page: the file grows by an empty page.                     *)
Grown(pages) == Put(pages, Cardinality(DOMAIN pages), EmptyPage)
CanGrow == Cardinality(DOMAIN disk) < MaxPages

----------------------------------------------------------------------------
(* Statements that change the schema.                                        *)

(* CREATE TABLE: a heap page, the table, the tree of its primary key and, in *)
(* a second save, its name.                                                  *)
TableCreatedNext(t) ==      \* fault: the page that the next allocation will give
    CreateTable(catalog, t, Cardinality(DOMAIN mem) + 1)
TableCreated(t) == CreateTable(catalog, t, Cardinality(DOMAIN mem))

CreateTableStatement(t) ==
    /\ ~HasTable(catalog, t) /\ CanGrow
    /\ LET first == Cardinality(DOMAIN mem)
       IN  /\ mem' = Grown(mem) /\ disk' = Grown(disk)
           /\ dirty' = dirty \union {first}
           /\ heaps' = Put(heaps, t, <<first>>)
    /\ indexes' = Put(indexes, PrimaryKey(t), {})
    /\ Save(CreateIndex(TableCreated(t), PrimaryKey(t)))
    /\ UNCHANGED kept

(* DROP TABLE: the pages are not given back.                                 *)
DropTableStatement(t) ==
    /\ HasTable(catalog, t)
    /\ indexes' = Without(indexes, IndexesOf(catalog, t))
    /\ heaps' = Without(heaps, {t})
    /\ Save(DropTable(catalog, t))
    /\ kept' = [kept EXCEPT ![t] = {}]
    /\ UNCHANGED <<mem, disk, dirty>>

(* CREATE INDEX on column k.  The new, empty tree replaces one of that name  *)
(* before the catalog refuses the name.                                      *)
MayRevert(p) == p \notin dirty /\ mem[p] # disk[p]     \* an update of p has failed
EntriesOf(t, column) == {<<Read(mem, rid)[column], rid>>: rid \in RidsOf(mem, HeapOf(t))}

CreateIndexStatement(t) ==
    /\ LET i == Index(t, "k")
       IN  IF i \in catalog.indexes
           THEN /\ "reindex" \in Habits
                /\ indexes' = Put(indexes, i, {})
                /\ UNCHANGED <<catalog, catalogFile, heaps>>
           ELSE /\ Save(CreateIndex(catalog, i))
                /\ IF HasTable(catalog, t)
                   THEN /\ "lost row" \in Habits \/ \A p \in ToSet(HeapOf(t)): ~MayRevert(p)
                        /\ indexes' = Put(indexes, i, EntriesOf(t, "k"))
                        /\ heaps' = Put(heaps, t, HeapOf(t))
                   ELSE /\ indexes' = Put(indexes, i, {})
                        /\ UNCHANGED heaps
    /\ UNCHANGED <<mem, disk, dirty, kept>>

----------------------------------------------------------------------------
(* Statements that change rows.                                              *)

(* An entry is stale when its row is gone or has another key.                *)
IsStale(i, entry) ==
    LET row == Read(mem, entry[2])
    IN  row = Tombstone \/ row[i.column] # entry[1]
InMemory(t) == {i \in DOMAIN indexes: i.table = t}
HasStaleEntries(t) == \E i \in InMemory(t): \E entry \in indexes[i]: IsStale(i, entry)

(* _update_indexes_on_insert: the trees that are in memory; insert_unique    *)
(* refuses a key that is there, and nobody looks.                            *)
IndexedUnlessAbsent(t, row, rid) ==   \* fault: only the primary key's tree
    [i \in DOMAIN indexes |->
        IF i = PrimaryKey(t) THEN indexes[i] \union {<<row.id, rid>>} ELSE indexes[i]]
Indexed(t, row, rid) ==
    [i \in DOMAIN indexes |->
        IF \/ i \notin IndexesOf(catalog, t)
           \/ IsUnique(i) /\ \E entry \in indexes[i]: entry[1] = row.id
        THEN indexes[i]
        ELSE indexes[i] \union {<<row[i.column], rid>>}]

(* INSERT of one row; id is the given one or, without one, the next of the   *)
(* counter, which is saved first.  A record larger than a page raises after  *)
(* the heap has grown.                                                       *)
Insert(t, row, numbered) ==
    LET done == InsertRow(mem, HeapOf(t), row)
    IN  /\ DOMAIN done.pages # DOMAIN mem => CanGrow
        /\ mem' = done.pages
        /\ disk' = IF DOMAIN done.pages = DOMAIN mem THEN disk ELSE Grown(disk)
        /\ dirty' = dirty \union done.dirty
        /\ heaps' = Put(heaps, t, done.chain)
        /\ IF done.stored
           THEN /\ Save(UpdateTableStats(numbered, t, numbered.tables[t].rows + 1))
                /\ indexes' = Indexed(t, row, done.rid)
           ELSE /\ IF numbered = catalog THEN UNCHANGED <<catalog, catalogFile>>
                   ELSE Save(numbered)
                /\ UNCHANGED indexes
        /\ UNCHANGED kept

EstimatedRows == FoldFunction(LAMBDA table, sum: table.rows + sum, 0, catalog.tables)

InsertStatement(t) ==
    /\ HasTable(catalog, t) /\ EstimatedRows < MaxRows
    /\ "reuse" \in Habits \/ ~HasStaleEntries(t)
    /\ \E k \in Texts:
          \/ LET numbered == IncrementAutoCounter(catalog, t)
                 id == numbered.tables[t].auto
             IN  id <= MaxAuto /\ Insert(t, [id |-> id, k |-> k], numbered)
          \/ \E id \in GivenIds:
                /\ "same id" \in Habits \/ \A row \in RowsOf(t): row.id # id
                /\ Insert(t, [id |-> id, k |-> k], catalog)

(* UPDATE t SET k = new WHERE k = old: whether a row's update succeeds, and  *)
(* that an index names it, is not looked at.                                 *)
UpdateStatement(t, old, new) ==
    /\ HasTable(catalog, t)
    /\ "update" \in Habits \/ Index(t, "k") \notin DOMAIN indexes
    /\ LET done(p) == UpdateRows(mem[p], old, new)
           pages == ToSet(HeapOf(t))
       IN  /\ mem' = [p \in DOMAIN mem |-> IF p \in pages THEN done(p).page ELSE mem[p]]
           /\ dirty' = dirty \union {p \in pages: done(p).dirty}
    /\ heaps' = Put(heaps, t, HeapOf(t))
    /\ kept' = [kept EXCEPT ![t] = {row \in @: row.k # old}]
    /\ UNCHANGED <<disk, catalog, catalogFile, indexes>>

(* DELETE FROM t WHERE k = key: the indexes stay as they are.                *)
DeleteStatement(t, key) ==
    /\ HasTable(catalog, t)
    /\ LET after(p) == DeleteRows(mem[p], key)
           pages == ToSet(HeapOf(t))
           deleted == {rid \in RidsOf(mem, HeapOf(t)): Read(mem, rid).k = key}
           left == catalog.tables[t].rows - Cardinality(deleted)
       IN  /\ mem' = [p \in DOMAIN mem |-> IF p \in pages THEN after(p) ELSE mem[p]]
           /\ dirty' = dirty \union {rid.page: rid \in deleted}
           /\ Save(UpdateTableStats(catalog, t, IF left < 0 THEN 0 ELSE left))
    /\ heaps' = Put(heaps, t, HeapOf(t))
    /\ kept' = [kept EXCEPT ![t] = {row \in @: row.k # key}]
    /\ UNCHANGED <<disk, indexes>>

----------------------------------------------------------------------------
(* The pool, checkpoints, crashes.                                           *)

(* A frame is taken for another page: a changed page is written, one that is *)
(* not marked as changed is dropped.                                         *)
Evict(p) ==
    /\ p \in DOMAIN mem
    /\ IF p \in dirty
       THEN disk' = [disk EXCEPT ![p] = mem[p]] /\ dirty' = dirty \ {p} /\ UNCHANGED mem
       ELSE /\ MayRevert(p)
            /\ mem' = [mem EXCEPT ![p] = disk[p]] /\ UNCHANGED <<disk, dirty>>
    /\ UNCHANGED <<catalog, catalogFile, heaps, indexes, kept>>

(* checkpoint: flush_all writes the pages marked as changed.                 *)
Flushed == [p \in DOMAIN disk |-> IF p \in dirty THEN mem[p] ELSE disk[p]]

Checkpoint ==
    /\ disk' = Flushed
    /\ dirty' = {}
    /\ kept' = [t \in Tables |-> IF HasTable(catalog, t) THEN RowsOf(t) ELSE {}]
    /\ UNCHANGED <<mem, catalog, catalogFile, heaps, indexes>>

(* Database.__init__ on the files that are left: pages as on disk, the       *)
(* catalog of the file, no heap loaded, no tree rebuilt, and a _recover that *)
(* drops what it learns from the log.                                        *)
Restart(pages, file) ==
    /\ mem' = pages /\ disk' = pages /\ dirty' = {}
    /\ catalogFile' = file /\ catalog' = Load(file)
    /\ heaps' = <<>> /\ indexes' = <<>>
    /\ kept' = IF file = Torn THEN [t \in Tables |-> {}] ELSE kept

Crash == Restart(disk, catalogFile)

(* A crash inside CREATE TABLE: the page is there, the catalog is one of its *)
(* versions, or torn.                                                        *)
CrashInCreateTable(t) ==
    /\ ~HasTable(catalog, t) /\ CanGrow
    /\ \E file \in FilesOf({catalogFile, TableCreated(t)}): Restart(Grown(disk), file)

(* A crash inside INSERT: the counter may be saved, the file grown.          *)
CrashInInsert(t) ==
    /\ HasTable(catalog, t) /\ catalog.tables[t].auto < MaxAuto
    /\ \E k \in Texts, file \in FilesOf({IncrementAutoCounter(catalog, t)}):
          Restart(IF CanGrow /\ RoomyAt(mem, HeapOf(t), [k |-> k]) = {} /\ file # Torn
                  THEN Grown(disk) ELSE disk, file)

Next ==
    \/ \E t \in Tables:
          \/ CreateTableStatement(t)
          \/ DropTableStatement(t)
          \/ InsertStatement(t)
          \/ CrashInCreateTable(t)
          \/ CrashInInsert(t)
    \/ \E t \in Edited:
          \/ CreateIndexStatement(t)
          \/ \E old, new \in Texts: old # new /\ UpdateStatement(t, old, new)
          \/ \E key \in Texts: DeleteStatement(t, key)
    \/ \E p \in DOMAIN mem: Evict(p)
    \/ Checkpoint
    \/ Crash

Spec == Init /\ [][Next]_vars

----------------------------------------------------------------------------
(* SELECT ... WHERE column = key, as planned: an index of the column that the *)
(* catalog names is scanned if its tree is in memory, else the table.        *)
SeqScan(t, column, key) ==
    {rid \in RidsOf(mem, HeapOf(t)): Read(mem, rid)[column] = key}

IndexScan(t, column, key) ==
    IF Index(t, column) \notin DOMAIN indexes THEN SeqScan(t, column, key)
    ELSE {entry[2]: entry \in {e \in indexes[Index(t, column)]:
                                  e[1] = key /\ Read(mem, e[2]) # Tombstone}}

(* The cost of an index scan is max(1, 0.33 * rows).bit_length(), which a     *)
(* float does not have: no plan for more than three estimated rows.          *)
CanPlanIndexScan(t) == catalog.tables[t].rows * 33 <= 100

----------------------------------------------------------------------------
(* Types: pages are numbered from 0, in memory as on disk, and a catalog     *)
(* names pages of the file (the fields of executor.py:127 and catalog.py).   *)
TypeOK ==
    /\ DOMAIN mem = 0..(Cardinality(DOMAIN mem) - 1)
    /\ DOMAIN disk = DOMAIN mem
    /\ dirty \subseteq DOMAIN mem
    /\ catalogFile \in {catalog, Torn}
    /\ DOMAIN heaps \subseteq DOMAIN catalog.tables
    /\ \A t \in DOMAIN catalog.tables: catalog.tables[t].first \in DOMAIN mem
    /\ DOMAIN kept = Tables

(* A crash, also one inside a statement, and evictions in any order before    *)
(* it, lose no row that was there at the last checkpoint and that no          *)
(* statement has touched since (engine.py:144 checkpoint, heap.py:204 the     *)
(* link of a new page, catalog.py:171 _save); a torn catalog file excepted.   *)
CheckpointedRowsSurvive ==
    \A t \in Tables: kept[t] # {} => HasTable(catalog, t) /\ kept[t] \subseteq RowsOf(t)

(* The chain of each table is finite, the list in memory is the chain on the  *)
(* pages, and no page is in two tables, now and after a crash (heap.py:204,   *)
(* 286; a page is allocated before the catalog names it, executor.py:221).    *)
ChainsAreSound ==
    \A pages \in {mem, disk}:
        LET chain(t) == Chain(pages, catalog.tables[t].first)
        IN  \A t \in DOMAIN catalog.tables:
                /\ IsInjective(chain(t)) /\ ToSet(chain(t)) \subseteq DOMAIN pages
                /\ pages = mem /\ t \in DOMAIN heaps => heaps[t] = chain(t)
                /\ \A u \in DOMAIN catalog.tables \ {t}:
                      ToSet(chain(t)) \intersect ToSet(chain(u)) = {}

(* A query answered by an index returns the rows a sequential scan returns,   *)
(* for callers without Habits: after crashes, restarts and drops, with trees  *)
(* that are gone while the catalog names them (executor.py:502), and with     *)
(* deleted rows that the trees still name (executor.py:512).                 *)
IndexScanAgrees ==
    \A i \in catalog.indexes:
        HasTable(catalog, i.table) /\ CanPlanIndexScan(i.table) =>
            \A key \in IF i.column = "k" THEN Texts ELSE GivenIds \union 1..MaxAuto:
                IndexScan(i.table, i.column, key) = SeqScan(i.table, i.column, key)

(* An id that AUTOINCREMENT gave to a row is covered by the counter in the    *)
(* file, so no later process gives it again (catalog.py:154: the counter is   *)
(* saved before the row is stored).                                          *)
CounterCoversRows ==
    catalogFile # Torn =>
        \A t \in DOMAIN catalogFile.tables, pages \in {mem, disk}:
            \A row \in RowsIn(pages, Chain(pages, catalogFile.tables[t].first)):
                row.id \in GivenIds \/ row.id <= catalogFile.tables[t].auto

(* engine.py: "Recover from any crash": what a statement has stored and       *)
(* auto-committed is there after a crash.                                    *)
CommittedRowsSurvive ==
    [][Crash => \A t \in DOMAIN catalog.tables: RowsOf(t) \subseteq RowsOf(t)']_vars
=============================================================================
