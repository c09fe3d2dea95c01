-------------------------------- MODULE Catalog ---------------------------------
(***************************************************************************)
(* pysql.catalog.Catalog: the tables and indexes by name, kept in memory and *)
(* written to a JSON file as a whole after each change.  A table is its      *)
(* first page, its auto-increment counter and its estimated number of rows;  *)
(* an index is named by its table and column (pk_<table>_<column> for the    *)
(* primary key).                                                            *)
(***************************************************************************)
EXTENDS Integers

CONSTANT Torn       \* a catalog file that is no JSON document

NoCatalog == [tables |-> <<>>, indexes |-> {}]

HasTable(c, t) == t \in DOMAIN c.tables

CreateTable(c, t, first) ==
    [c EXCEPT !.tables = [u \in DOMAIN @ \union {t} |->
        IF u = t THEN [first |-> first, auto |-> 0, rows |-> 0] ELSE @[u]]]

DropTable(c, t) ==
    [tables |-> [u \in DOMAIN c.tables \ {t} |-> c.tables[u]],
     indexes |-> {i \in c.indexes: i.table # t}]

CreateIndex(c, i) == [c EXCEPT !.indexes = @ \union {i}]

UpdateTableStats(c, t, n) == [c EXCEPT !.tables[t].rows = n]

IncrementAutoCounter(c, t) == [c EXCEPT !.tables[t].auto = @ + 1]

IndexesOf(c, t) == {i \in c.indexes: i.table = t}

(* _save truncates the file and then writes it: a crash between the two, or  *)
(* between two saves of a statement, leaves any of these.                    *)
FilesOf(saves) == saves \union {Torn}

(* _load takes a file that does not parse for an empty catalog.              *)
LoadWithoutCounters(file) ==     \* fault: counters start at 0 again
    IF file = Torn THEN NoCatalog
    ELSE [file EXCEPT !.tables = [t \in DOMAIN @ |-> [@[t] EXCEPT !.auto = 0]]]
Load(file) == IF file = Torn THEN NoCatalog ELSE file
=============================================================================
