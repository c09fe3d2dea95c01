-------------------------------- MODULE BTree --------------------------------
(***************************************************************************)
(* pysql.storage.btree.BPlusTree: nodes that refer to each other, changed in *)
(* place by splits, borrowing and merging that climb from a leaf to the root. *)
(*                                                                          *)
(* A node is an entry of tree.nodes; a reference is its id, Nil is None.     *)
(* Nodes that nothing refers to any more are taken out.  A value is a row of *)
(* the key it is stored under, so that a value beside the wrong key shows.   *)
(***************************************************************************)
EXTENDS Integers, Sequences, FiniteSets, FiniteSetsExt, SequencesExt

CONSTANTS
    Order,          \* order: children of an internal node
    MaxKey,         \* bound: keys are 1..MaxKey
    Copies,         \* bound: rows that may be stored under one key
    MaxBulk,        \* bound: rows given to bulk_load
    MaxNodes        \* bound: nodes at a time

ASSUME BTreeAssumption ==
    /\ Order \in Nat /\ Order >= 3
    /\ {MaxKey, Copies, MaxBulk, MaxNodes} \subseteq Nat

VARIABLES
    tree,           \* _root, _height, _size and the nodes
    entries         \* callers: the rows they inserted and did not delete

vars == <<tree, entries>>

Nil == 0
Keys == 1..MaxKey
Rows == Keys \X (1..Copies)
MinKeys == (Order - 1) \div 2

Leaf(keys, values, next, prev) ==
    [is_leaf |-> TRUE, keys |-> keys, values |-> values, children |-> <<>>,
     next |-> next, prev |-> prev, parent |-> Nil]
Internal(keys, children) ==
    [is_leaf |-> FALSE, keys |-> keys, values |-> <<>>, children |-> children,
     next |-> Nil, prev |-> Nil, parent |-> Nil]

(* Rows of different keys, as a list sorted by key.                          *)
SortedByKey(rows) ==
    LET keys == {row[1] : row \in rows}
        rank(row) == Cardinality({k \in keys : k <= row[1]})
    IN  [i \in 1..Cardinality(rows) |-> CHOOSE row \in rows: rank(row) = i]

Fresh(t) == CHOOSE n \in 1..MaxNodes: /\ n \notin DOMAIN t.nodes
                                      /\ 1..(n - 1) \subseteq DOMAIN t.nodes
IndexIn(seq, e) == CHOOSE i \in DOMAIN seq: seq[i] = e
Without(t, n) == [t EXCEPT !.nodes = [m \in DOMAIN @ \ {n} |-> @[m]]]

(* The same nodes, those of children under a new parent.                     *)
Adopted(ns, children, parent) ==
    [n \in DOMAIN ns |-> IF n \in ToSet(children) THEN [ns[n] EXCEPT !.parent = parent]
                                                  ELSE ns[n]]

----------------------------------------------------------------------------
(* _bisect_right, on a sorted list.                                          *)
BisectRight(keys, key) == Len(SelectSeq(keys, LAMBDA k: k <= key))

(* _find_leaf.                                                               *)
RECURSIVE Descend(_, _, _)
Descend(ns, n, key) ==
    IF ns[n].is_leaf THEN n
    ELSE Descend(ns, ns[n].children[BisectRight(ns[n].keys, key) + 1], key)

FindLeaf(t, key) == Descend(t.nodes, t.root, key)

(* Where search and delete find the key in a leaf.                           *)
FirstAt(keys, key) ==
    LET at == {i \in DOMAIN keys : keys[i] = key}
    IN  IF at = {} THEN 0 ELSE CHOOSE i \in at: \A j \in at: i <= j

(* search.                                                                   *)
Search(t, key) ==
    LET leaf == t.nodes[FindLeaf(t, key)]
        i == FirstAt(leaf.keys, key)
    IN  IF i = 0 THEN {} ELSE {leaf.values[i]}

(* range_scan: along the leaves, up to the first key beyond high.  A bound   *)
(* None is one outside Keys.                                                *)
RECURSIVE Items(_, _)
Items(ns, n) ==
    IF n = Nil THEN <<>>
    ELSE Zip(ns[n].keys, ns[n].values) \o Items(ns, ns[n].next)

Below(k, low, include) == IF include THEN k < low ELSE k <= low
Beyond(k, high, include) == IF include THEN k > high ELSE k >= high

RangeScan(t, low, high, include_low, include_high) ==
    LET items == Items(t.nodes, FindLeaf(t, low))
        end == SelectInSeq(items, LAMBDA e: Beyond(e[1], high, include_high))
        read == IF end = 0 THEN items ELSE SubSeq(items, 1, end - 1)
    IN  SelectSeq(read, LAMBDA e: ~Below(e[1], low, include_low))

(* search_all.                                                               *)
SearchAll(t, key) == RangeScan(t, key, key, TRUE, TRUE)

----------------------------------------------------------------------------
(* _insert_into_parent and _split_internal.                                  *)
RECURSIVE InsertIntoParent(_, _, _, _)

SplitInternal(t, n) ==
    LET node == t.nodes[n]
        mid == Len(node.keys) \div 2
        new == Fresh(t)
        right == Internal(SubSeq(node.keys, mid + 2, Len(node.keys)),
                          SubSeq(node.children, mid + 2, Len(node.children)))
        left == [node EXCEPT !.keys = SubSeq(@, 1, mid),
                             !.children = SubSeq(@, 1, mid + 1)]
        nodes == Adopted((n :> left) @@ (new :> right) @@ t.nodes, right.children, new)
    IN  InsertIntoParent([t EXCEPT !.nodes = nodes], n, node.keys[mid + 1], new)

InsertIntoParent(t, left, key, right) ==
    LET parent == t.nodes[left].parent
        new == Fresh(t)
        pos == IndexIn(t.nodes[parent].children, left)
        grown == [t EXCEPT !.nodes[right].parent = parent,
                           !.nodes[parent].keys = InsertAt(@, pos, key),
                           !.nodes[parent].children = InsertAt(@, pos + 1, right)]
    IN  IF parent = Nil
        THEN [t EXCEPT !.nodes = Adopted((new :> Internal(<<key>>, <<left, right>>)) @@ @,
                                         <<left, right>>, new),
                       !.root = new, !.height = @ + 1]
        ELSE IF Len(grown.nodes[parent].keys) >= Order THEN SplitInternal(grown, parent)
        ELSE grown

(* fault: the new leaf is not linked from the one before it                  *)
RelinkedBackward(ns, leaf, new) ==
    [n \in DOMAIN ns |-> IF n = ns[leaf].next THEN [ns[n] EXCEPT !.prev = new] ELSE ns[n]]

(* The new leaf between leaf and its successor.                              *)
Relinked(ns, leaf, new) ==
    LET next == ns[leaf].next
    IN  [n \in DOMAIN ns |-> IF n = leaf THEN [ns[n] EXCEPT !.next = new]
                             ELSE IF n = next THEN [ns[n] EXCEPT !.prev = new]
                             ELSE ns[n]]

SplitLeaf(t, n) ==
    LET leaf == t.nodes[n]
        mid == (Len(leaf.keys) + 1) \div 2
        new == Fresh(t)
        right == Leaf(SubSeq(leaf.keys, mid + 1, Len(leaf.keys)),
                      SubSeq(leaf.values, mid + 1, Len(leaf.values)), leaf.next, n)
        left == [leaf EXCEPT !.keys = SubSeq(@, 1, mid), !.values = SubSeq(@, 1, mid)]
        nodes == (new :> right) @@ Relinked((n :> left) @@ t.nodes, n, new)
    IN  InsertIntoParent([t EXCEPT !.nodes = nodes], n, right.keys[1], new)

(* _insert_into_leaf, and the count that insert and insert_unique keep.      *)
Inserted(t, key, value) ==
    LET n == FindLeaf(t, key)
        pos == BisectRight(t.nodes[n].keys, key) + 1
        full == [t EXCEPT !.nodes[n].keys = InsertAt(@, pos, key),
                          !.nodes[n].values = InsertAt(@, pos, value),
                          !.size = @ + 1]
    IN  IF Len(full.nodes[n].keys) > Order - 1 THEN SplitLeaf(full, n) ELSE full

----------------------------------------------------------------------------
(* _redistribute_from_left: the last entry, or the last child, of the left    *)
(* sibling moves over; the separator between the two follows.                *)
FromLeft(t, n, left, parent, idx) ==
    LET node == t.nodes[n]
        l == t.nodes[left]
        sep == t.nodes[parent].keys[idx - 1]
        child == Last(l.children)
    IN  IF node.is_leaf
        THEN [t EXCEPT !.nodes[n].keys = <<Last(l.keys)>> \o @,
                       !.nodes[n].values = <<Last(l.values)>> \o @,
                       !.nodes[left].keys = Front(@), !.nodes[left].values = Front(@),
                       !.nodes[parent].keys[idx - 1] = Last(l.keys)]
        ELSE [t EXCEPT !.nodes[n].keys = <<sep>> \o @,
                       !.nodes[n].children = <<child>> \o @,
                       !.nodes[left].keys = Front(@), !.nodes[left].children = Front(@),
                       !.nodes[parent].keys[idx - 1] = Last(l.keys),
                       !.nodes[child].parent = n]

(* fault: the separator is the key that moved, not the one after it          *)
NewSeparatorMoved(r) == Head(r.keys)

(* The separator before a leaf that gives its first entry away.              *)
NewSeparator(r) == r.keys[2]

(* _redistribute_from_right.                                                 *)
FromRight(t, n, right, parent, idx) ==
    LET node == t.nodes[n]
        r == t.nodes[right]
        sep == t.nodes[parent].keys[idx]
        child == Head(r.children)
    IN  IF node.is_leaf
        THEN [t EXCEPT !.nodes[n].keys = Append(@, Head(r.keys)),
                       !.nodes[n].values = Append(@, Head(r.values)),
                       !.nodes[right].keys = Tail(@), !.nodes[right].values = Tail(@),
                       !.nodes[parent].keys[idx] = NewSeparator(r)]
        ELSE [t EXCEPT !.nodes[n].keys = Append(@, sep),
                       !.nodes[n].children = Append(@, child),
                       !.nodes[right].keys = Tail(@), !.nodes[right].children = Tail(@),
                       !.nodes[parent].keys[idx] = Head(r.keys),
                       !.nodes[child].parent = n]

(* The two nodes of _merge_nodes as one.                                     *)
Joined(ns, left, right, separator) ==
    LET l == ns[left]
        r == ns[right]
        leaf == [l EXCEPT !.keys = @ \o r.keys, !.values = @ \o r.values, !.next = r.next]
        node == [l EXCEPT !.keys = Append(@, separator) \o r.keys,
                          !.children = @ \o r.children]
    IN  IF ~l.is_leaf THEN Adopted([ns EXCEPT ![left] = node], r.children, left)
        ELSE [n \in DOMAIN ns |-> IF n = left THEN leaf
                                  ELSE IF n = r.next THEN [ns[n] EXCEPT !.prev = left]
                                  ELSE ns[n]]

(* fault: an empty root stays above its only child                           *)
RootKept(t, left) == t

(* A root without keys gives way to its only child.                          *)
RootReplaced(t, left) ==
    [Without(t, t.root) EXCEPT !.root = left, !.nodes[left].parent = Nil, !.height = @ - 1]

(* _handle_underflow and _merge_nodes.  A node that has no sibling raises     *)
(* IndexError, and the nodes stay as they are.                               *)
RECURSIVE HandleUnderflow(_, _)

MergeNodes(t, left, right, parent, idx) ==
    LET nodes == Joined(t.nodes, left, right, t.nodes[parent].keys[idx])
        merged == [Without([t EXCEPT !.nodes = nodes], right) EXCEPT
                     !.nodes[parent].keys = RemoveAt(@, idx),
                     !.nodes[parent].children = RemoveAt(@, idx + 1)]
        left_keys == Len(merged.nodes[parent].keys)
    IN  IF parent = t.root
        THEN IF left_keys = 0 THEN RootReplaced(merged, left) ELSE merged
        ELSE IF left_keys < MinKeys THEN HandleUnderflow(merged, parent) ELSE merged

HandleUnderflow(t, n) ==
    LET parent == t.nodes[n].parent
        siblings == t.nodes[parent].children
        idx == IndexIn(siblings, n)
        Lends(i) == i \in DOMAIN siblings /\ Len(t.nodes[siblings[i]].keys) > MinKeys
    IN  IF parent = Nil THEN t
        ELSE IF Lends(idx - 1) THEN FromLeft(t, n, siblings[idx - 1], parent, idx)
        ELSE IF Lends(idx + 1) THEN FromRight(t, n, siblings[idx + 1], parent, idx)
        ELSE IF idx > 1 THEN MergeNodes(t, siblings[idx - 1], n, parent, idx - 1)
        ELSE IF Len(siblings) > 1 THEN MergeNodes(t, n, siblings[2], parent, 1)
        ELSE t

(* _update_parent_key: the separator before a leaf whose first key is gone.  *)
UpdateParentKey(t, n) ==
    LET parent == t.nodes[n].parent
        idx == IndexIn(t.nodes[parent].children, n)
    IN  IF parent = Nil \/ idx = 1 THEN t
        ELSE [t EXCEPT !.nodes[parent].keys[idx - 1] = t.nodes[n].keys[1]]

(* delete, of a key that is at position i of leaf n.                         *)
Deleted(t, n, i) ==
    LET cut == [t EXCEPT !.nodes[n].keys = RemoveAt(@, i),
                         !.nodes[n].values = RemoveAt(@, i),
                         !.size = @ - 1]
        keys == cut.nodes[n].keys
    IN  IF n = t.root \/ Len(keys) >= MinKeys
        THEN IF i = 1 /\ keys # <<>> THEN UpdateParentKey(cut, n) ELSE cut
        ELSE HandleUnderflow(cut, n)

----------------------------------------------------------------------------
(* bulk_load: the list in pieces of n, the last one maybe shorter.           *)
Pieces(list, n) ==
    [i \in 1..((Len(list) + n - 1) \div n) |->
        SubSeq(list, (i - 1) * n + 1, IF i * n <= Len(list) THEN i * n ELSE Len(list))]

(* The leaves, numbered from 1 along the list.                               *)
LoadedLeaves(rows) ==
    LET pieces == Pieces(rows, Order - 1)
    IN  [i \in DOMAIN pieces |->
            Leaf([j \in DOMAIN pieces[i] |-> pieces[i][j][1]], pieces[i],
                 IF i < Len(pieces) THEN i + 1 ELSE Nil, i - 1)]

(* The levels above.  The separator before a child is the first key of that  *)
(* child, also when the child is an internal node; for a child without keys  *)
(* that raises IndexError, and _root stays what it was.                      *)
RECURSIVE LoadedLevels(_, _, _)
LoadedLevels(ns, level, height) ==
    LET groups == Pieces(level, Order)
        parents == [i \in DOMAIN groups |-> Len(ns) + i]
        raises == \E i \in DOMAIN groups: \E j \in 2..Len(groups[i]): ns[groups[i][j]].keys = <<>>
        node(i) == Internal([j \in 1..(Len(groups[i]) - 1) |-> ns[groups[i][j + 1]].keys[1]],
                            groups[i])
        linked == [n \in DOMAIN ns |->
                      IF \E i \in DOMAIN groups: n \in ToSet(groups[i])
                      THEN [ns[n] EXCEPT !.parent =
                              parents[CHOOSE i \in DOMAIN groups: n \in ToSet(groups[i])]]
                      ELSE ns[n]]
    IN  IF Len(level) = 1 THEN [nodes |-> ns, root |-> level[1], height |-> height]
        ELSE IF raises THEN [nodes |-> ns, root |-> Nil, height |-> height + 1]
        ELSE LoadedLevels(linked \o [i \in DOMAIN groups |-> node(i)], parents, height + 1)

Loaded(rows) ==
    LET leaves == LoadedLeaves(rows)
    IN  LoadedLevels(leaves, [i \in DOMAIN leaves |-> i], 1)

----------------------------------------------------------------------------
Init ==
    /\ tree = [nodes |-> [n \in {1} |-> Leaf(<<>>, <<>>, Nil, Nil)], root |-> 1,
               height |-> 1, size |-> 0]
    /\ entries = {}

(* insert; a caller stores a row once.                                       *)
Insert(row) ==
    /\ row \notin entries
    /\ tree' = Inserted(tree, row[1], row)
    /\ entries' = entries \union {row}

(* insert_unique; it returns False when the leaf has the key.                *)
InsertUnique(row) ==
    /\ Search(tree, row[1]) = {}
    /\ tree' = Inserted(tree, row[1], row)
    /\ entries' = entries \union {row}

(* delete; it returns False when the leaf does not have the key.             *)
Delete(key) ==
    LET n == FindLeaf(tree, key)
        i == FirstAt(tree.nodes[n].keys, key)
    IN  /\ i # 0
        /\ tree' = Deleted(tree, n, i)
        /\ entries' = entries \ {tree.nodes[n].values[i]}

(* bulk_load, "for initial index construction", of a sorted list.            *)
BulkLoad(rows) ==
    LET list == SortedByKey(rows)
        loaded == Loaded(list)
    IN  /\ entries = {} /\ tree.size = 0
        /\ IF loaded.root = Nil
           THEN /\ tree' = [tree EXCEPT !.size = Len(list), !.height = loaded.height]
                /\ UNCHANGED entries
           ELSE /\ tree' = [nodes |-> loaded.nodes, root |-> loaded.root,
                            height |-> loaded.height, size |-> Len(list)]
                /\ entries' = rows

Next ==
    \/ \E row \in Rows: Insert(row) \/ InsertUnique(row)
    \/ \E key \in Keys: Delete(key)
    \/ \E n \in 1..MaxBulk: \E keys \in kSubset(n, Keys): BulkLoad(keys \X {1})

Spec == Init /\ [][Next]_vars

----------------------------------------------------------------------------
NodeType(n) ==
    /\ n.is_leaf \in BOOLEAN
    /\ n.keys \in Seq(Keys) /\ n.values \in Seq(Rows)
    /\ n.children \in Seq(1..MaxNodes)
    /\ {n.next, n.prev, n.parent} \subseteq 0..MaxNodes

TypeOK ==
    /\ DOMAIN tree.nodes \subseteq 1..MaxNodes
    /\ tree.root \in DOMAIN tree.nodes
    /\ \A n \in DOMAIN tree.nodes: NodeType(tree.nodes[n])
    /\ tree.height \in 1..Cardinality(DOMAIN tree.nodes)
    /\ tree.size \in Nat
    /\ entries \subseteq Rows

(* search finds exactly the rows that were inserted and not deleted          *)
(* (tests/test_pysql.py:312, :320), whatever splits, loans and merges moved. *)
SearchAgrees ==
    \A key \in Keys: Search(tree, key) = {row \in entries : row[1] = key}

(* A range scan yields the rows between its bounds, in key order, each once  *)
(* ("yielding (key, value) pairs in sorted order", btree.py:144).            *)
RangeScanAgrees ==
    \A low \in 0..(MaxKey + 1): \A high \in low..(MaxKey + 1): \A include \in BOOLEAN:
        LET found == RangeScan(tree, low, high, include, include)
        IN  [i \in DOMAIN found |-> found[i][2]] =
                SortedByKey({row \in entries : ~Below(row[1], low, include)
                                          /\ ~Beyond(row[1], high, include)})

(* search_all finds every row of a key ("Find all values associated with a   *)
(* key", btree.py:114).                                                      *)
SearchAllAgrees ==
    \A key \in Keys:
        {e[2] : e \in ToSet(SearchAll(tree, key))} = {row \in entries : row[1] = key}

(* The invariants of the class (btree.py:64-71): leaves at one depth; nodes   *)
(* half full (rounded down), but for the root; a separator between a child   *)
(* and the next one.                                                        *)
(* height and size are those of the tree.                                    *)
RECURSIVE Depths(_, _)
Depths(ns, n) ==
    IF ns[n].is_leaf THEN {1}
    ELSE {d + 1 : d \in UNION {Depths(ns, c) : c \in ToSet(ns[n].children)}}

TreeIsBalanced ==
    /\ Depths(tree.nodes, tree.root) = {tree.height}
    /\ tree.size = Cardinality(entries)
    /\ \A n \in DOMAIN tree.nodes:
          LET node == tree.nodes[n]
          IN  /\ Len(node.keys) <= Order - 1
              /\ Len(node.keys) >= IF n # tree.root THEN MinKeys
                                   ELSE IF node.is_leaf THEN 0 ELSE 1
              /\ IF node.is_leaf THEN Len(node.values) = Len(node.keys)
                                 ELSE Len(node.children) = Len(node.keys) + 1

(* Parents and children name each other, and so do neighbouring leaves: what *)
(* underflow and merging go by.                                              *)
LinksAgree ==
    /\ tree.nodes[tree.root].parent = Nil
    /\ \A n \in DOMAIN tree.nodes:
          LET node == tree.nodes[n]
          IN  /\ \A c \in ToSet(node.children): tree.nodes[c].parent = n
              /\ node.next # Nil => tree.nodes[node.next].prev = n
              /\ node.prev # Nil => tree.nodes[node.prev].next = n

(* Between two operations the tree is well formed, balanced and linked, so    *)
(* that the next descent, loan or merge finds what it goes by                *)
(* (btree.py:64-71).                                                        *)
TreeIsSound == TypeOK /\ TreeIsBalanced /\ LinksAgree
=============================================================================
