----------------------------- MODULE DatabaseProofs -----------------------------
(***************************************************************************)
(* The database of Database.tla for every value of its constants.          *)
(*                                                                         *)
(* Three inductive invariants, each on top of the one before:              *)
(*   StorageInv  each table is a chain of pages of its own, and a link     *)
(*               that is not on disk is of a dirty page;                   *)
(*   RowsInv     a clean page is the page on disk but for the rows of      *)
(*               failed updates, the counters cover the rows, and a        *)
(*               checkpointed row is on disk behind links that are on      *)
(*               disk;                                                     *)
(*   IndexInv    each tree follows the pages in the pool, and those on     *)
(*               disk that an eviction may bring back.                     *)
(* What the module promises follows from them: TypeOK and ChainsAreSound   *)
(* from StorageInv, CheckpointedRowsSurvive and CounterCoversRows from     *)
(* RowsInv, IndexScanAgrees from IndexInv.                                 *)
(***************************************************************************)
EXTENDS Database, SequenceFacts
(* Rows, what a slot holds, pages, and the names an index can have.          *)
Row == [id: GivenIds \union 1..MaxAuto, k: Texts]
Slot == Row \union {Tombstone}
HeapPage == [slots: Seq(Slot), next: Int]
IndexNames == [table: Tables, column: {"id", "k"}]

FileSize == Cardinality(DOMAIN mem)
First(t) == catalog.tables[t].first
PagesOf(t) == Chain(mem, First(t))

----------------------------------------------------------------------------
(* The file, the pool and the catalog.                                       *)
FileIsTyped ==
    /\ FileSize \in Nat
    /\ mem \in [0..(FileSize - 1) -> HeapPage] /\ disk \in [0..(FileSize - 1) -> HeapPage]
    /\ dirty \subseteq 0..(FileSize - 1)

IsTable(x, pages) ==
    /\ x = [first |-> x.first, auto |-> x.auto, rows |-> x.rows]
    /\ x.first \in pages /\ x.auto \in 0..MaxAuto

IsCatalog(c, pages) ==
    /\ c = [tables |-> c.tables, indexes |-> c.indexes]
    /\ c.tables = [t \in DOMAIN c.tables |-> c.tables[t]]
    /\ DOMAIN c.tables \subseteq Tables /\ c.indexes \subseteq IndexNames
    /\ \A t \in DOMAIN c.tables: IsTable(c.tables[t], pages)

CatalogIsTyped == IsCatalog(catalog, 0..(FileSize - 1)) /\ catalogFile \in {catalog, Torn}

(* A chain: pages of the file, each once, linked by next_page.               *)
IsChain(pages, chain, first) ==
    /\ chain \in Seq(DOMAIN pages) /\ Len(chain) > 0 /\ chain[1] = first
    /\ \A k \in 1..(Len(chain) - 1): pages[chain[k]].next = chain[k + 1]
    /\ pages[chain[Len(chain)]].next = NoPage
    /\ \A j, k \in 1..Len(chain): chain[j] = chain[k] => j = k

(* The k-th page of a chain in pages is reached along the links in other.     *)
Reached(pages, other, chain, k) ==
    \A j \in 1..(k - 1): other[chain[j]].next = pages[chain[j]].next

ChainsInMemory ==
    /\ \A t \in DOMAIN catalog.tables: IsChain(mem, PagesOf(t), First(t))
    /\ \A t, u \in DOMAIN catalog.tables:
          t # u => ToSet(PagesOf(t)) \intersect ToSet(PagesOf(u)) = {}

(* A link is on disk, or its page is still to be written.                    *)
Links ==
    \A p \in DOMAIN mem:
        \/ disk[p].next = mem[p].next
        \/ p \in dirty /\ disk[p].next = NoPage

HeapsAreChains ==
    /\ DOMAIN heaps \subseteq DOMAIN catalog.tables
    /\ heaps = [t \in DOMAIN heaps |-> PagesOf(t)]

KeptIsTyped == kept = [t \in Tables |-> kept[t]]

StorageInv ==
    /\ FileIsTyped /\ CatalogIsTyped /\ ChainsInMemory /\ Links /\ HeapsAreChains
    /\ KeptIsTyped

----------------------------------------------------------------------------
(* The rows.                                                                 *)

(* A page that is not marked as changed has the slots of the disk; the rows  *)
(* of failed updates are missing.                                            *)
IsPruned(page, of) ==
    /\ Len(page.slots) = Len(of.slots)
    /\ \A i \in 1..Len(page.slots): page.slots[i] = of.slots[i] \/ page.slots[i] = Tombstone
CleanPages == \A p \in DOMAIN mem \ dirty: IsPruned(mem[p], disk[p])

(* The counter covers the ids in a page.                                     *)
Covers(auto, page) ==
    \A i \in 1..Len(page.slots):
        page.slots[i] # Tombstone => page.slots[i].id \in GivenIds \/ page.slots[i].id <= auto
CountersCover ==
    \A t \in DOMAIN catalog.tables: \A p \in ToSet(PagesOf(t)):
        Covers(catalog.tables[t].auto, mem[p]) /\ Covers(catalog.tables[t].auto, disk[p])

Holds(page, i, row) == i \in 1..Len(page.slots) /\ page.slots[i] = row
IsSafe(t, row) ==
    \E k \in 1..Len(PagesOf(t)):
        /\ Reached(mem, disk, PagesOf(t), k)
        /\ \E i \in Nat: Holds(mem[PagesOf(t)[k]], i, row) /\ Holds(disk[PagesOf(t)[k]], i, row)
KeptRowsAreSafe ==
    \A t \in Tables: \A row \in kept[t]:
        row # Tombstone /\ HasTable(catalog, t) /\ IsSafe(t, row)

RowsInv == StorageInv /\ CleanPages /\ CountersCover /\ KeptRowsAreSafe

----------------------------------------------------------------------------
(* The indexes.                                                              *)

(* Each row of a page has its entry, and an entry for a slot of the page is   *)
(* that of the row or the slot is deleted.                                   *)
HasEntries(entries, column, p, page) ==
    \A i \in 1..Len(page.slots):
        page.slots[i] # Tombstone => <<page.slots[i][column], Rid(p, i)>> \in entries
Matches(entry, column, p, page) ==
    \A i \in 1..Len(page.slots):
        entry[2] = Rid(p, i) /\ page.slots[i] # Tombstone => page.slots[i][column] = entry[1]
Follows(entries, column, p, page) ==
    /\ HasEntries(entries, column, p, page)
    /\ \A entry \in entries: Matches(entry, column, p, page)

PageFollows(i, p) ==
    /\ Follows(indexes[i], i.column, p, mem[p])
    /\ p \notin dirty => Follows(indexes[i], i.column, p, disk[p])
IndexFollows(i) == \A p \in ToSet(PagesOf(i.table)): PageFollows(i, p)
NamesPages(i) ==
    \A entry \in indexes[i]: \E p \in ToSet(PagesOf(i.table)), s \in Nat:
        entry = <<entry[1], Rid(p, s)>>
IndexesFollow ==
    /\ DOMAIN indexes \subseteq catalog.indexes
    /\ indexes = [i \in DOMAIN indexes |-> indexes[i]]
    /\ \A i \in DOMAIN indexes:
          IF HasTable(catalog, i.table) THEN IndexFollows(i) /\ NamesPages(i)
          ELSE indexes[i] = {}

IndexInv == RowsInv /\ IndexesFollow
----------------------------------------------------------------------------
(* Chains.                                                                   *)

(* What a walk along a chain has seen after k steps, and its next step.      *)
Prefix(chain, k) == SubSeq(chain, 1, IF k < Len(chain) THEN k + 1 ELSE Len(chain))
WalkOn(pages, walked) ==
    LET last == Last(walked)
    IN  IF last \notin DOMAIN pages \/ pages[last].next = NoPage THEN walked
        ELSE Append(walked, pages[last].next)

(* The prefixes of a chain.                                                  *)
LEMMA PrefixParts ==
    ASSUME NEW S, NEW chain \in Seq(S), Len(chain) > 0, NEW k \in Nat
    PROVE  /\ Prefix(chain, k) \in Seq(S)
           /\ Len(Prefix(chain, k)) = IF k < Len(chain) THEN k + 1 ELSE Len(chain)
           /\ \A i \in 1..Len(Prefix(chain, k)): Prefix(chain, k)[i] = chain[i]
           /\ Last(Prefix(chain, k)) = chain[Len(Prefix(chain, k))]
<1>1. Len(chain) \in Nat
  BY LenProperties
<1>2. PICK n \in Nat : n = IF k < Len(chain) THEN k + 1 ELSE Len(chain)
  BY <1>1
<1>3. n > 0 /\ n <= Len(chain) /\ Prefix(chain, k) = SubSeq(chain, 1, n)
  BY <1>1, <1>2 DEF Prefix
<1>4. /\ SubSeq(chain, 1, n) \in Seq(S) /\ Len(SubSeq(chain, 1, n)) = n - 1 + 1
      /\ \A i \in 1..(n - 1 + 1): SubSeq(chain, 1, n)[i] = chain[1 + i - 1]
  BY <1>1, <1>3, SubSeqParts
<1>5. Len(SubSeq(chain, 1, n)) = n /\ \A i \in 1..n: SubSeq(chain, 1, n)[i] = chain[i]
  BY <1>4
<1>6. n \in 1..n
  BY <1>3
<1> QED BY <1>2, <1>3, <1>4, <1>5, <1>6 DEF Last

(* A walk adds the next page of the chain, until there is none.              *)
LEMMA PrefixStep ==
    ASSUME NEW n \in Nat, NEW pages \in [0..(n - 1) -> HeapPage], NEW chain, NEW first,
           IsChain(pages, chain, first), NEW k \in Nat \ {0}
    PROVE  Prefix(chain, k) = WalkOn(pages, Prefix(chain, k - 1))
<1>1. /\ chain \in Seq(0..(n - 1)) /\ Len(chain) > 0 /\ Len(chain) \in Nat
      /\ DOMAIN pages = 0..(n - 1)
  BY LenProperties DEF IsChain
<1>2. k - 1 \in Nat /\ k \in Nat /\ k - 1 + 1 = k
  OBVIOUS
<1> DEFINE before == Prefix(chain, k - 1)
           m == Len(before)
<1>3. /\ before \in Seq(0..(n - 1))
      /\ m = IF k - 1 < Len(chain) THEN k - 1 + 1 ELSE Len(chain)
      /\ \A i \in 1..m: before[i] = chain[i]
      /\ Last(before) = chain[m]
  BY <1>1, <1>2, PrefixParts
<1>4. /\ Prefix(chain, k) \in Seq(0..(n - 1))
      /\ Len(Prefix(chain, k)) = IF k < Len(chain) THEN k + 1 ELSE Len(chain)
      /\ \A i \in 1..Len(Prefix(chain, k)): Prefix(chain, k)[i] = chain[i]
  BY <1>1, <1>2, PrefixParts
<1>5. m \in 1..Len(chain)
  BY <1>1, <1>2, <1>3
<1>6. chain[m] \in DOMAIN pages
  BY <1>1, <1>5, ElementOfSeq
<1> HIDE DEF before
<1>7. CASE k < Len(chain)
  <2>1. m = k /\ k \in 1..(Len(chain) - 1) /\ k + 1 \in 1..Len(chain)
    BY <1>1, <1>2, <1>3, <1>7
  <2>2. pages[chain[m]].next = chain[k + 1] /\ chain[k + 1] \in 0..(n - 1)
    BY <1>1, <2>1, ElementOfSeq DEF IsChain
  <2>3. chain[k + 1] # NoPage
    BY <2>2 DEF NoPage
  <2>4. WalkOn(pages, before) = Append(before, chain[k + 1])
    BY <1>3, <1>6, <2>2, <2>3 DEF WalkOn
  <2>5. /\ Append(before, chain[k + 1]) \in Seq(0..(n - 1))
        /\ Len(Append(before, chain[k + 1])) = m + 1
        /\ \A i \in 1..m: Append(before, chain[k + 1])[i] = before[i]
        /\ Append(before, chain[k + 1])[m + 1] = chain[k + 1]
    BY <1>3, <2>2, AppendParts
  <2>6. Len(Prefix(chain, k)) = m + 1
    BY <1>4, <1>7, <2>1
  <2>7. ASSUME NEW i \in 1..(m + 1)
        PROVE  Prefix(chain, k)[i] = Append(before, chain[k + 1])[i]
    <3>1. Prefix(chain, k)[i] = chain[i]
      BY <1>4, <2>6
    <3>2. CASE i = m + 1
      BY <2>1, <2>5, <3>1, <3>2
    <3>3. CASE i # m + 1
      <4>1. i \in 1..m
        BY <1>5, <3>3
      <4> QED BY <1>3, <2>5, <3>1, <4>1
    <3> QED BY <3>2, <3>3
  <2>8. Prefix(chain, k) = Append(before, chain[k + 1])
    BY <1>4, <2>5, <2>6, <2>7, SeqEqual
  <2> QED BY <2>4, <2>8 DEF before
<1>8. CASE ~(k < Len(chain))
  <2>1. m = Len(chain) /\ Len(Prefix(chain, k)) = Len(chain)
    BY <1>1, <1>2, <1>3, <1>4, <1>8
  <2>2. pages[chain[m]].next = NoPage
    BY <2>1 DEF IsChain
  <2>3. WalkOn(pages, before) = before
    BY <1>3, <2>2 DEF WalkOn
  <2>4. Prefix(chain, k) = before
    BY <1>3, <1>4, <2>1, SeqEqual
  <2> QED BY <2>3, <2>4 DEF before
<1> QED BY <1>7, <1>8

(* A chain has no more pages than the file.                                  *)
LEMMA ChainFits ==
    ASSUME NEW n \in Nat, NEW pages \in [0..(n - 1) -> HeapPage], NEW chain, NEW first,
           IsChain(pages, chain, first)
    PROVE  Cardinality(DOMAIN pages) = n /\ Len(chain) <= n
<1>1. DOMAIN pages = 0..(n - 1) /\ chain \in Seq(0..(n - 1)) /\ Len(chain) \in Nat
  BY LenProperties DEF IsChain
<1>2. IsFiniteSet(0..(n - 1)) /\ Cardinality(0..(n - 1)) = n
  <2>1. n - 1 \in Int /\ (IF 0 > n - 1 THEN 0 ELSE n - 1 - 0 + 1) = n
    OBVIOUS
  <2> QED BY <2>1, FS_Interval
<1>3. Cardinality(1..Len(chain)) = Len(chain)
  <2>1. PICK m \in Nat : m = Len(chain)
    BY <1>1
  <2>2. Cardinality(1..m) = IF 1 > m THEN 0 ELSE m - 1 + 1
    BY FS_Interval
  <2>3. Cardinality(1..m) = m
    BY <2>2
  <2> QED BY <2>1, <2>3
<1>4. chain \in Injection(1..Len(chain), 0..(n - 1))
  <2>1. chain \in [1..Len(chain) -> 0..(n - 1)]
    BY <1>1, LenProperties
  <2>2. \A j, k \in 1..Len(chain): chain[j] = chain[k] => j = k
    BY DEF IsChain
  <2> QED BY <2>1, <2>2 DEF Injection, IsInjective
<1>5. Cardinality(1..Len(chain)) <= Cardinality(0..(n - 1))
  BY <1>2, <1>4, FS_Injection
<1> QED BY <1>1, <1>2, <1>3, <1>5

(* _load_page_chain finds the chain.                                         *)
LEMMA ChainIs ==
    ASSUME NEW n \in Nat, NEW pages \in [0..(n - 1) -> HeapPage], NEW chain, NEW first,
           IsChain(pages, chain, first)
    PROVE  Chain(pages, first) = chain
<1> DEFINE N == Cardinality(DOMAIN pages)
           step(f) == [k \in 0..N |-> IF k = 0 THEN <<first>> ELSE WalkOn(pages, f[k - 1])]
           walk == CHOOSE f : f = step(f)
<1>1. N = n /\ Len(chain) <= n /\ Len(chain) \in Nat /\ Len(chain) > 0
  BY ChainFits, LenProperties DEF IsChain
<1>2. Chain(pages, first) = walk[N]
  BY DEF Chain, WalkOn
<1>3. Prefix(chain, 0) = <<first>>
  <2>1. chain \in Seq(0..(n - 1)) /\ chain[1] = first
    BY DEF IsChain
  <2>2. /\ Prefix(chain, 0) \in Seq(0..(n - 1)) /\ Len(Prefix(chain, 0)) = 1
        /\ Prefix(chain, 0)[1] = chain[1]
    <3>1. (IF 0 < Len(chain) THEN 0 + 1 ELSE Len(chain)) = 1 /\ 1 \in 1..1 /\ 0 \in Nat
      BY <1>1
    <3>2. /\ Prefix(chain, 0) \in Seq(0..(n - 1))
          /\ Len(Prefix(chain, 0)) = IF 0 < Len(chain) THEN 0 + 1 ELSE Len(chain)
          /\ \A i \in 1..Len(Prefix(chain, 0)): Prefix(chain, 0)[i] = chain[i]
      BY <1>1, <2>1, <3>1, PrefixParts
    <3> QED BY <3>1, <3>2
  <2>3. first \in 0..(n - 1)
    BY <1>1, <2>1, ElementOfSeq
  <2>4. <<first>> \in Seq(0..(n - 1)) /\ Len(<<first>>) = 1 /\ <<first>>[1] = first
    BY <2>3
  <2>5. \A i \in 1..1: Prefix(chain, 0)[i] = <<first>>[i]
    BY <2>1, <2>2
  <2> QED BY <2>2, <2>4, <2>5, SeqEqual
<1>4. \E f: f = step(f)
  <2> DEFINE g == [k \in 0..N |-> Prefix(chain, k)]
  <2>1. ASSUME NEW k \in 0..N
        PROVE  g[k] = IF k = 0 THEN <<first>> ELSE WalkOn(pages, g[k - 1])
    <3>1. CASE k = 0
      BY <1>3, <3>1
    <3>2. CASE k # 0
      <4>1. k \in Nat \ {0} /\ k - 1 \in 0..N
        BY <1>1, <3>2
      <4>2. g[k - 1] = Prefix(chain, k - 1)
        BY <4>1
      <4> QED BY <3>2, <4>1, <4>2, PrefixStep
    <3> QED BY <3>1, <3>2
  <2>2. g = step(g)
    BY <2>1
  <2> HIDE DEF g, step
  <2> QED BY <2>2
<1>5. walk = step(walk)
  <2> HIDE DEF step
  <2> QED BY <1>4
<1>6. PICK f : f = walk
  OBVIOUS
<1>7. f = [k \in 0..N |-> IF k = 0 THEN <<first>> ELSE WalkOn(pages, f[k - 1])]
  BY <1>5, <1>6
<1> HIDE DEF walk, step
<1> DEFINE bad == {k \in 0..N: f[k] # Prefix(chain, k)}
<1>8. bad = {}
  <2> SUFFICES ASSUME bad # {} PROVE FALSE
    OBVIOUS
  <2>1. bad \in SUBSET Nat
    BY <1>1
  <2>2. PICK k \in bad : \A j \in bad: k <= j
    <3> HIDE DEF bad
    <3> QED BY <2>1, LeastOfSet
  <2>3. k \in 0..N /\ f[k] # Prefix(chain, k)
    OBVIOUS
  <2>4. k # 0
    <3>1. 0 \in 0..N
      BY <1>1
    <3>2. f[0] = <<first>>
      BY <1>7, <3>1
    <3> QED BY <1>3, <2>3, <3>2
  <2>5. k - 1 \in 0..N /\ ~(k <= k - 1) /\ k \in Nat \ {0}
    BY <1>1, <2>3, <2>4
  <2>6. f[k - 1] = Prefix(chain, k - 1)
    BY <2>2, <2>5
  <2>7. f[k] = WalkOn(pages, f[k - 1])
    BY <1>7, <2>3, <2>4
  <2> QED BY <2>3, <2>5, <2>6, <2>7, PrefixStep
<1>9. N \in 0..N
  BY <1>1
<1>10. f[N] = Prefix(chain, N)
  BY <1>8, <1>9
<1>11. Prefix(chain, N) = chain
  <2>1. (IF N < Len(chain) THEN N + 1 ELSE Len(chain)) = Len(chain)
    BY <1>1
  <2>2. SubSeq(chain, 1, Len(chain)) = chain
    BY SubSeqFull DEF IsChain
  <2> QED BY <2>1, <2>2 DEF Prefix
<1> QED BY <1>2, <1>6, <1>10, <1>11

(* The pages of a chain.                                                     *)
LEMMA ToSetParts ==
    ASSUME NEW S, NEW s \in Seq(S)
    PROVE  /\ ToSet(s) \subseteq S
           /\ \A i \in 1..Len(s): s[i] \in ToSet(s)
           /\ \A x \in ToSet(s): \E i \in 1..Len(s): x = s[i]
BY LenProperties, ElementOfSeq DEF ToSet

(* What does not touch the links of its pages leaves a chain as it is.        *)
LEMMA ChainKept ==
    ASSUME NEW n \in Nat, NEW pages \in [0..(n - 1) -> HeapPage], NEW chain, NEW first,
           IsChain(pages, chain, first),
           NEW m \in Nat, n <= m, NEW other \in [0..(m - 1) -> HeapPage],
           \A p \in ToSet(chain): other[p].next = pages[p].next
    PROVE  IsChain(other, chain, first)
<1>1. /\ chain \in Seq(0..(n - 1)) /\ Len(chain) \in Nat
      /\ DOMAIN other = 0..(m - 1) /\ DOMAIN pages = 0..(n - 1)
  BY LenProperties DEF IsChain
<1>2. 0..(n - 1) \subseteq 0..(m - 1)
  OBVIOUS
<1>3. chain \in Seq(DOMAIN other)
  BY <1>1, <1>2, SeqMonotonic
<1>4. \A k \in 1..Len(chain): other[chain[k]].next = pages[chain[k]].next
  BY <1>1, ToSetParts
<1>5. \A k \in 1..(Len(chain) - 1): k \in 1..Len(chain)
  BY <1>1
<1>6. Len(chain) \in 1..Len(chain)
  BY <1>1 DEF IsChain
<1> QED BY <1>3, <1>4, <1>5, <1>6 DEF IsChain

(* A new page linked to its end is its last.                                 *)
LEMMA ChainExtended ==
    ASSUME NEW n \in Nat, NEW pages \in [0..(n - 1) -> HeapPage], NEW chain, NEW first,
           IsChain(pages, chain, first), NEW other \in [0..n -> HeapPage],
           \A p \in ToSet(chain): p # Last(chain) => other[p].next = pages[p].next,
           other[Last(chain)].next = n, other[n].next = NoPage
    PROVE  /\ IsChain(other, Append(chain, n), first)
           /\ ToSet(Append(chain, n)) = ToSet(chain) \union {n}
<1> DEFINE L == Len(chain)
           more == Append(chain, n)
<1>1. /\ chain \in Seq(0..(n - 1)) /\ L \in Nat /\ L > 0
      /\ DOMAIN other = 0..n /\ DOMAIN pages = 0..(n - 1)
  BY LenProperties DEF IsChain
<1>2. 0..(n - 1) \subseteq 0..n /\ n \in 0..n /\ n \notin 0..(n - 1)
  OBVIOUS
<1>3. chain \in Seq(0..n)
  BY <1>1, <1>2, SeqMonotonic
<1>4. /\ more \in Seq(0..n) /\ Len(more) = L + 1
      /\ \A i \in 1..L: more[i] = chain[i]
      /\ more[L + 1] = n
  BY <1>2, <1>3, AppendParts
<1>5. Last(chain) = chain[L] /\ L \in 1..L /\ \A i \in 1..L: chain[i] \in 0..(n - 1)
  BY <1>1, ElementOfSeq DEF Last
<1>6. \A j, k \in 1..L: chain[j] = chain[k] => j = k
  BY DEF IsChain
<1> HIDE DEF more
<1>7. more[1] = first
  <2>1. 1 \in 1..L
    BY <1>1
  <2> QED BY <1>4, <2>1 DEF IsChain
<1>8. ASSUME NEW k \in 1..(Len(more) - 1) PROVE other[more[k]].next = more[k + 1]
  <2>1. k \in 1..L /\ Len(more) - 1 = L
    BY <1>1, <1>4
  <2>2. more[k] = chain[k]
    BY <1>4, <2>1
  <2>3. CASE k = L
    BY <1>4, <1>5, <2>2, <2>3
  <2>4. CASE k # L
    <3>1. k \in 1..(L - 1) /\ k + 1 \in 1..L
      BY <1>1, <2>1, <2>4
    <3>2. chain[k] # Last(chain) /\ chain[k] \in ToSet(chain)
      BY <1>1, <1>5, <1>6, <2>1, <2>4, ToSetParts
    <3>3. pages[chain[k]].next = chain[k + 1] /\ more[k + 1] = chain[k + 1]
      BY <1>4, <3>1 DEF IsChain
    <3> QED BY <2>2, <3>2, <3>3
  <2> QED BY <2>3, <2>4
<1>9. other[more[Len(more)]].next = NoPage
  BY <1>4
<1>10. ASSUME NEW j \in 1..Len(more), NEW k \in 1..Len(more), more[j] = more[k] PROVE j = k
  <2>1. \A i \in 1..Len(more): i \in 1..L \/ i = L + 1
    BY <1>1, <1>4
  <2>2. \A i \in 1..L: more[i] # n
    BY <1>2, <1>4, <1>5
  <2>3. CASE j \in 1..L /\ k \in 1..L
    BY <1>4, <1>6, <1>10, <2>3
  <2>4. CASE j = L + 1 /\ k = L + 1
    BY <2>4
  <2>5. CASE j \in 1..L /\ k = L + 1
    BY <1>4, <1>10, <2>2, <2>5
  <2>6. CASE j = L + 1 /\ k \in 1..L
    BY <1>4, <1>10, <2>2, <2>6
  <2> QED BY <2>1, <2>3, <2>4, <2>5, <2>6
<1>11. IsChain(other, more, first)
  <2>1. more \in Seq(DOMAIN other) /\ Len(more) > 0
    BY <1>1, <1>4
  <2> QED BY <1>7, <1>8, <1>9, <1>10, <2>1 DEF IsChain
<1>12. ToSet(more) = ToSet(chain) \union {n}
  <2>1. ASSUME NEW x \in ToSet(more) PROVE x \in ToSet(chain) \union {n}
    <3>1. PICK i \in 1..Len(more) : x = more[i]
      BY <1>4, ToSetParts
    <3>2. i \in 1..L \/ i = L + 1
      BY <1>1, <1>4
    <3> QED BY <1>1, <1>4, <3>1, <3>2, ToSetParts
  <2>2. ASSUME NEW x \in ToSet(chain) PROVE x \in ToSet(more)
    <3>1. PICK i \in 1..L : x = chain[i]
      BY <1>1, ToSetParts
    <3>2. i \in 1..Len(more) /\ x = more[i]
      BY <1>1, <1>4, <3>1
    <3> QED BY <1>4, <3>2, ToSetParts
  <2>3. n \in ToSet(more)
    <3>1. L + 1 \in 1..Len(more)
      BY <1>1, <1>4
    <3> QED BY <1>4, <3>1, ToSetParts
  <2> QED BY <2>1, <2>2, <2>3
<1> QED BY <1>11, <1>12 DEF more

IsCut(other, chain, first, k) ==
    /\ IsChain(other, SubSeq(chain, 1, k), first)
    /\ Len(SubSeq(chain, 1, k)) = k
    /\ \A j \in 1..k: SubSeq(chain, 1, k)[j] = chain[j]

(* A chain that is cut at its k-th page.                                     *)
LEMMA ChainCut ==
    ASSUME NEW n \in Nat, NEW pages \in [0..(n - 1) -> HeapPage], NEW chain, NEW first,
           IsChain(pages, chain, first), NEW other \in [0..(n - 1) -> HeapPage],
           NEW k \in 1..Len(chain), other[chain[k]].next = NoPage,
           Reached(pages, other, chain, k)
    PROVE  IsCut(other, chain, first, k)
<1> DEFINE cut == SubSeq(chain, 1, k)
<1>1. /\ chain \in Seq(0..(n - 1)) /\ Len(chain) \in Nat /\ Len(chain) > 0
      /\ DOMAIN other = 0..(n - 1) /\ DOMAIN pages = 0..(n - 1)
  BY LenProperties DEF IsChain
<1>2. k \in Nat /\ k > 0 /\ k <= Len(chain)
  BY <1>1
<1>3. /\ cut \in Seq(0..(n - 1)) /\ Len(cut) = k - 1 + 1
      /\ \A i \in 1..(k - 1 + 1): cut[i] = chain[1 + i - 1]
  BY <1>1, <1>2, SubSeqParts
<1>4. Len(cut) = k /\ \A i \in 1..k: cut[i] = chain[i]
  BY <1>2, <1>3
<1> HIDE DEF cut
<1>5. 1 \in 1..k /\ k \in 1..k
  BY <1>2
<1>6. ASSUME NEW j \in 1..(Len(cut) - 1) PROVE other[cut[j]].next = cut[j + 1]
  <2>1. j \in 1..(k - 1) /\ j \in 1..k /\ j + 1 \in 1..k /\ j \in 1..(Len(chain) - 1)
    BY <1>1, <1>2, <1>4
  <2>2. pages[chain[j]].next = chain[j + 1]
    BY <2>1 DEF IsChain
  <2> QED BY <1>4, <2>1, <2>2 DEF Reached
<1>7. ASSUME NEW i \in 1..Len(cut), NEW j \in 1..Len(cut), cut[i] = cut[j] PROVE i = j
  <2>1. i \in 1..k /\ j \in 1..k
    BY <1>4
  <2>2. i \in 1..Len(chain) /\ j \in 1..Len(chain)
    BY <1>1, <1>2, <2>1
  <2>3. chain[i] = chain[j]
    BY <1>4, <1>7, <2>1
  <2> QED BY <2>2, <2>3 DEF IsChain
<1>8. cut[1] = first
  BY <1>4, <1>5 DEF IsChain
<1>9. other[cut[Len(cut)]].next = NoPage /\ Len(cut) > 0 /\ cut \in Seq(DOMAIN other)
  BY <1>1, <1>2, <1>3, <1>4, <1>5
<1>10. IsChain(other, cut, first)
  BY <1>6, <1>7, <1>8, <1>9 DEF IsChain
<1> QED BY <1>4, <1>10 DEF cut, IsCut

(* The links between the pages of the file and those of the pool.             *)
LinksAgree(pages, other) ==
    \A p \in DOMAIN pages: other[p].next = pages[p].next \/ other[p].next = NoPage

(* The chain on disk ends where the first link is still to be written.        *)
LEMMA ChainOnDisk ==
    ASSUME NEW n \in Nat, NEW pages \in [0..(n - 1) -> HeapPage], NEW chain, NEW first,
           IsChain(pages, chain, first), NEW other \in [0..(n - 1) -> HeapPage],
           LinksAgree(pages, other)
    PROVE  \E k \in 1..Len(chain):
              /\ IsCut(other, chain, first, k) /\ Reached(pages, other, chain, k)
              /\ \A l \in 1..Len(chain): Reached(pages, other, chain, l) => l <= k
<1> DEFINE ends == {k \in 1..Len(chain): other[chain[k]].next = NoPage}
<1>1. /\ chain \in Seq(0..(n - 1)) /\ Len(chain) \in Nat /\ Len(chain) > 0
      /\ DOMAIN other = 0..(n - 1) /\ DOMAIN pages = 0..(n - 1)
  BY LenProperties DEF IsChain
<1>2. Len(chain) \in ends
  <2>1. Len(chain) \in 1..Len(chain)
    BY <1>1
  <2>2. chain[Len(chain)] \in DOMAIN pages
    BY <1>1, <2>1, ElementOfSeq
  <2>3. pages[chain[Len(chain)]].next = NoPage
    BY DEF IsChain
  <2> QED BY <2>1, <2>2, <2>3 DEF LinksAgree
<1>3. ends \in SUBSET Nat /\ ends # {}
  BY <1>1, <1>2
<1>4. PICK k \in ends : \A j \in ends: k <= j
  <2> HIDE DEF ends
  <2> QED BY <1>3, LeastOfSet
<1>5. k \in 1..Len(chain) /\ other[chain[k]].next = NoPage
  OBVIOUS
<1>6. ASSUME NEW j \in 1..(k - 1) PROVE other[chain[j]].next = pages[chain[j]].next
  <2>1. j \in 1..Len(chain) /\ ~(k <= j)
    BY <1>1, <1>5
  <2>2. j \notin ends
    BY <1>4, <2>1
  <2>3. other[chain[j]].next # NoPage
    BY <2>1, <2>2
  <2>4. chain[j] \in DOMAIN pages
    BY <1>1, <2>1, ElementOfSeq
  <2> QED BY <2>3, <2>4 DEF LinksAgree
<1> HIDE DEF ends
<1>7. Reached(pages, other, chain, k)
  BY <1>6 DEF Reached
<1>8. IsCut(other, chain, first, k)
  BY <1>5, <1>7, ChainCut
<1>9. ASSUME NEW l \in 1..Len(chain), Reached(pages, other, chain, l) PROVE l <= k
  <2> SUFFICES ASSUME ~(l <= k) PROVE FALSE
    OBVIOUS
  <2>1. k \in 1..(l - 1) /\ k \in 1..(Len(chain) - 1) /\ k + 1 \in 1..Len(chain)
    BY <1>1, <1>5
  <2>2. pages[chain[k]].next = chain[k + 1] /\ other[chain[k]].next = pages[chain[k]].next
    BY <1>9, <2>1 DEF IsChain, Reached
  <2>3. chain[k + 1] \in 0..(n - 1)
    BY <1>1, <2>1, ElementOfSeq
  <2> QED BY <1>5, <2>2, <2>3 DEF NoPage
<1> QED BY <1>5, <1>7, <1>8, <1>9

----------------------------------------------------------------------------
(* Pages.                                                                    *)

(* The slots of a page.                                                      *)
LEMMA SlotsParts ==
    ASSUME NEW page \in HeapPage
    PROVE  /\ page.slots \in Seq(Slot) /\ Len(page.slots) \in Nat /\ page.next \in Int
           /\ DOMAIN page.slots = 1..Len(page.slots)
           /\ \A i \in 1..Len(page.slots): page.slots[i] \in Slot
<1>1. page.slots \in Seq(Slot) /\ page.next \in Int
  BY DEF HeapPage
<1> QED BY <1>1, LenProperties, ElementOfSeq

(* A page with other slots.                                                  *)
LEMMA OtherSlots ==
    ASSUME NEW page \in HeapPage, NEW slots \in Seq(Slot)
    PROVE  LET after == [page EXCEPT !.slots = slots]
           IN  after \in HeapPage /\ after.slots = slots /\ after.next = page.next
BY DEF HeapPage

(* A page with one slot changed, and what row or deletion it is.              *)
SetsSlot(page, after, s, v) ==
    /\ after \in HeapPage /\ after.next = page.next
    /\ Len(after.slots) = Len(page.slots)
    /\ \A i \in 1..Len(page.slots): after.slots[i] = IF i = s THEN v ELSE page.slots[i]

(* A slot that was set holds the value; the other slots and the link stay.   *)
LEMMA SetSlot ==
    ASSUME NEW page \in HeapPage, NEW s \in 1..Len(page.slots), NEW v \in Slot
    PROVE  SetsSlot(page, [page EXCEPT !.slots[s] = v], s, v)
<1> DEFINE slots == [page.slots EXCEPT ![s] = v]
           after == [page EXCEPT !.slots[s] = v]
<1>1. page.slots \in Seq(Slot)
  BY SlotsParts
<1>2. /\ slots \in Seq(Slot) /\ Len(slots) = Len(page.slots)
      /\ \A i \in 1..Len(page.slots): slots[i] = IF i = s THEN v ELSE page.slots[i]
  BY <1>1, ExceptSeq
<1>3. after = [page EXCEPT !.slots = slots]
  BY DEF HeapPage
<1>4. after \in HeapPage /\ after.slots = slots /\ after.next = page.next
  <2> HIDE DEF slots, after
  <2> QED BY <1>2, <1>3, OtherSlots
<1> HIDE DEF slots, after
<1>5. SetsSlot(page, after, s, v)
  BY <1>2, <1>4 DEF SetsSlot
<1> QED BY <1>5 DEF after

(* Page.update_record gives the slot the row or leaves it deleted.           *)
LEMMA UpdateRecordSets ==
    ASSUME NEW page \in HeapPage, NEW s \in 1..Len(page.slots), NEW row \in Row
    PROVE  \E v \in {row, Tombstone}: SetsSlot(page, UpdateRecord(page, s, row), s, v)
<1>1. row \in Slot /\ Tombstone \in Slot
  BY DEF Slot
<1>2. \/ UpdateRecord(page, s, row) = [page EXCEPT !.slots[s] = row]
      \/ UpdateRecord(page, s, row) = [page EXCEPT !.slots[s] = Tombstone]
  BY DEF UpdateRecord
<1> QED BY <1>1, <1>2, SetSlot

(* Page.insert_record takes a deleted slot or a new one.                     *)
PutsRow(page, after, s, row) ==
    /\ after \in HeapPage /\ after.next = page.next
    /\ s \in 1..Len(after.slots) /\ after.slots[s] = row
    /\ 1..Len(page.slots) \subseteq 1..Len(after.slots)
    /\ \A i \in 1..Len(after.slots):
          i # s => i \in 1..Len(page.slots) /\ after.slots[i] = page.slots[i]
    /\ s \in 1..Len(page.slots) => page.slots[s] = Tombstone

(* Page.insert_record puts the record into the slot it picks (page.py).      *)
LEMMA InsertRecordPuts ==
    ASSUME NEW page \in HeapPage, NEW row \in Row
    PROVE  PutsRow(page, InsertRecord(page, row), SlotFor(page), row)
<1> DEFINE deleted == DOMAIN page.slots \ Live(page)
           s == SlotFor(page)
           after == InsertRecord(page, row)
<1>1. /\ page.slots \in Seq(Slot) /\ Len(page.slots) \in Nat
      /\ DOMAIN page.slots = 1..Len(page.slots) /\ row \in Slot
  BY SlotsParts DEF Slot
<1>2. deleted \subseteq 1..Len(page.slots) /\ \A i \in deleted: page.slots[i] = Tombstone
  BY <1>1 DEF Live
<1>3. CASE deleted = {}
  <2>1. s = Len(page.slots) + 1
    BY <1>3 DEF SlotFor
  <2>2. s > Len(page.slots)
    BY <1>1, <2>1
  <2>3. after = [page EXCEPT !.slots = Append(page.slots, row)]
    BY <2>2 DEF InsertRecord, HeapPage
  <2>4. /\ Append(page.slots, row) \in Seq(Slot)
        /\ Len(Append(page.slots, row)) = Len(page.slots) + 1
        /\ \A i \in 1..Len(page.slots): Append(page.slots, row)[i] = page.slots[i]
        /\ Append(page.slots, row)[Len(page.slots) + 1] = row
    BY <1>1, AppendParts
  <2> HIDE DEF s, after
  <2>5. /\ after \in HeapPage /\ after.slots = Append(page.slots, row)
        /\ after.next = page.next
    BY <2>3, <2>4, OtherSlots
  <2>6. \A i \in 1..(Len(page.slots) + 1): i # s => i \in 1..Len(page.slots)
    BY <1>1, <2>1
  <2>7. /\ 1..Len(page.slots) \subseteq 1..(Len(page.slots) + 1)
        /\ s \in 1..(Len(page.slots) + 1)
        /\ s \notin 1..Len(page.slots)
    BY <1>1, <2>1
  <2>8. PutsRow(page, after, s, row)
    BY <2>1, <2>4, <2>5, <2>6, <2>7 DEF PutsRow
  <2> QED BY <2>8 DEF s, after
<1>4. CASE deleted # {}
  <2>1. PICK least \in deleted : \A j \in deleted: least <= j
    <3>1. deleted \in SUBSET Nat
      BY <1>1, <1>2
    <3> HIDE DEF deleted
    <3> QED BY <1>4, <3>1, LeastOfSet
  <2>2. s = CHOOSE i \in deleted: \A j \in deleted: i <= j
    BY <1>4 DEF SlotFor
  <2>3. s \in deleted
    BY <2>1, <2>2
  <2>4. s \in 1..Len(page.slots) /\ page.slots[s] = Tombstone /\ ~(s > Len(page.slots))
    BY <1>1, <1>2, <2>3
  <2>5. after = [page EXCEPT !.slots[s] = row]
    BY <2>4 DEF InsertRecord, HeapPage
  <2> HIDE DEF s, after
  <2>6. SetsSlot(page, after, s, row)
    BY <1>1, <2>4, <2>5, SetSlot
  <2>7. PutsRow(page, after, s, row)
    BY <1>1, <2>4, <2>6 DEF PutsRow, SetsSlot
  <2> QED BY <2>7 DEF s, after
<1> QED BY <1>3, <1>4

(* UPDATE and DELETE: rows with another key stay; the others keep their id,   *)
(* on a page that is then marked as changed, or are gone.                    *)
SlotRewritten(row, now, key, marked) ==
    /\ row = Tombstone \/ row.k # key => now = row
    /\ now # row => now = Tombstone \/ (marked /\ now.id = row.id)
Rewrites(page, after, key, marked) ==
    /\ after \in HeapPage /\ after.next = page.next
    /\ Len(after.slots) = Len(page.slots)
    /\ \A i \in 1..Len(page.slots): SlotRewritten(page.slots[i], after.slots[i], key, marked)

RewritesUpTo(page, done, i, key) ==
    /\ done.page \in HeapPage /\ done.page.next = page.next /\ done.dirty \in BOOLEAN
    /\ Len(done.page.slots) = Len(page.slots)
    /\ \A j \in 1..Len(page.slots):
          IF j <= i THEN SlotRewritten(page.slots[j], done.page.slots[j], key, done.dirty)
          ELSE done.page.slots[j] = page.slots[j]

(* HeapFile.update of one row.                                               *)
LEMMA UpdateRowRewrites ==
    ASSUME NEW page \in HeapPage, NEW done, NEW old \in Texts, NEW new \in Texts,
           NEW i \in 1..Len(page.slots), RewritesUpTo(page, done, i - 1, old)
    PROVE  RewritesUpTo(page, UpdateRow(done, i, old, new), i, old)
<1> DEFINE row == page.slots[i]
           changed == UpdateRecord(done.page, i, [row EXCEPT !.k = new])
           after == UpdateRow(done, i, old, new)
<1>1. /\ Len(page.slots) \in Nat /\ row \in Slot
      /\ i \in Int /\ \A j \in 1..Len(page.slots): j \in Int
  BY SlotsParts
<1>2. /\ done.page \in HeapPage /\ done.page.next = page.next /\ done.dirty \in BOOLEAN
      /\ Len(done.page.slots) = Len(page.slots)
  BY DEF RewritesUpTo
<1>3. \A j \in 1..Len(page.slots): j < i =>
         SlotRewritten(page.slots[j], done.page.slots[j], old, done.dirty)
  <2>1. \A j \in 1..Len(page.slots): j < i => j <= i - 1
    BY <1>1
  <2> QED BY <2>1 DEF RewritesUpTo
<1>4. \A j \in 1..Len(page.slots): ~(j < i) => done.page.slots[j] = page.slots[j]
  <2>1. \A j \in 1..Len(page.slots): ~(j < i) => ~(j <= i - 1)
    BY <1>1
  <2> QED BY <2>1 DEF RewritesUpTo
<1>5. done.page.slots[i] = row
  BY <1>1, <1>4
<1>6. CASE row = Tombstone \/ row.k # old
  <2>1. after = done
    BY <1>5, <1>6 DEF UpdateRow
  <2>2. SlotRewritten(row, row, old, done.dirty)
    BY DEF SlotRewritten
  <2>3. ASSUME NEW j \in 1..Len(page.slots)
        PROVE  IF j <= i THEN SlotRewritten(page.slots[j], done.page.slots[j], old, done.dirty)
               ELSE done.page.slots[j] = page.slots[j]
    <3>1. j < i \/ j = i \/ ~(j <= i)
      BY <1>1
    <3>2. ~(j <= i) => ~(j < i)
      BY <1>1
    <3>3. j < i => j <= i
      BY <1>1
    <3> QED BY <1>3, <1>4, <1>5, <2>2, <3>1, <3>2, <3>3
  <2> HIDE DEF after
  <2>4. RewritesUpTo(page, done, i, old)
    BY <1>2, <2>3 DEF RewritesUpTo
  <2> QED BY <2>1, <2>4 DEF after
<1>7. CASE ~(row = Tombstone \/ row.k # old)
  <2>1. row \in Row
    BY <1>1, <1>7 DEF Slot
  <2>2. [row EXCEPT !.k = new] \in Row /\ [row EXCEPT !.k = new].id = row.id
    BY <2>1 DEF Row
  <2>3. PICK v \in {[row EXCEPT !.k = new], Tombstone} : SetsSlot(done.page, changed, i, v)
    BY <1>2, <2>2, UpdateRecordSets
  <2>4. after = [page |-> changed, dirty |-> done.dirty \/ changed.slots[i] # Tombstone]
    BY <1>5, <1>7 DEF UpdateRow
  <2>5. /\ changed \in HeapPage /\ changed.next = page.next
        /\ Len(changed.slots) = Len(page.slots)
        /\ \A j \in 1..Len(page.slots): changed.slots[j] = IF j = i THEN v ELSE done.page.slots[j]
    BY <1>2, <2>3 DEF SetsSlot
  <2>6. PICK marked \in BOOLEAN : marked = (done.dirty \/ changed.slots[i] # Tombstone)
    OBVIOUS
  <2>7. after.page = changed /\ after.dirty = marked
    BY <2>4, <2>6
  <2>8. ASSUME NEW j \in 1..Len(page.slots)
        PROVE  IF j <= i THEN SlotRewritten(page.slots[j], changed.slots[j], old, marked)
               ELSE changed.slots[j] = page.slots[j]
    <3>1. CASE j = i
      <4>1. changed.slots[i] = v /\ j <= i
        BY <1>1, <2>5, <3>1
      <4>2. v = Tombstone \/ (marked /\ v.id = row.id)
        BY <2>2, <2>3, <2>6, <4>1
      <4> QED BY <1>7, <3>1, <4>1, <4>2 DEF SlotRewritten
    <3>2. CASE j < i
      <4>1. changed.slots[j] = done.page.slots[j] /\ j <= i
        BY <1>1, <2>5, <3>2
      <4>2. SlotRewritten(page.slots[j], done.page.slots[j], old, done.dirty)
        BY <1>3, <3>2
      <4>3. done.dirty => marked
        BY <2>6
      <4> QED BY <4>1, <4>2, <4>3 DEF SlotRewritten
    <3>3. CASE ~(j <= i)
      <4>1. changed.slots[j] = done.page.slots[j] /\ ~(j < i)
        BY <1>1, <2>5, <3>3
      <4> QED BY <1>4, <3>3, <4>1
    <3>4. j = i \/ j < i \/ ~(j <= i)
      BY <1>1
    <3> QED BY <3>1, <3>2, <3>3, <3>4
  <2> HIDE DEF after, changed
  <2>9. RewritesUpTo(page, after, i, old)
    BY <2>5, <2>7, <2>8 DEF RewritesUpTo
  <2> QED BY <2>9 DEF after
<1> QED BY <1>6, <1>7

(* HeapFile.update of the rows of a page, in scan order.                     *)
LEMMA UpdateRowsRewrites ==
    ASSUME NEW page \in HeapPage, NEW old \in Texts, NEW new \in Texts
    PROVE  /\ UpdateRows(page, old, new).dirty \in BOOLEAN
           /\ Rewrites(page, UpdateRows(page, old, new).page, old,
                       UpdateRows(page, old, new).dirty)
<1> DEFINE N == Len(page.slots)
           none == [page |-> page, dirty |-> FALSE]
           step(f) == [i \in 0..N |-> IF i = 0 THEN none ELSE UpdateRow(f[i - 1], i, old, new)]
           all == CHOOSE f : f = step(f)
<1>1. N \in Nat /\ \A i \in 1..N: i \in 0..N /\ i - 1 \in 0..N /\ i # 0
  BY SlotsParts
<1>2. UpdateRows(page, old, new) = all[N]
  BY DEF UpdateRows
<1>3. \E f: f = step(f)
  <2> DEFINE good == {k \in 0..N: \E f: /\ f = [i \in 0..k |-> f[i]]
                                        /\ f[0] = none
                                        /\ \A i \in 1..k: f[i] = UpdateRow(f[i - 1], i, old, new)}
             bad == (0..N) \ good
  <2>1. bad = {}
    <3> SUFFICES ASSUME bad # {} PROVE FALSE
      OBVIOUS
    <3>1. bad \in SUBSET Nat
      BY <1>1
    <3>2. PICK k \in bad : \A j \in bad: k <= j
      <4> HIDE DEF bad
      <4> QED BY <3>1, LeastOfSet
    <3>3. k \in 0..N /\ k \notin good
      OBVIOUS
    <3>4. k # 0
      <4> DEFINE f == [i \in 0..0 |-> none]
      <4>1. f = [i \in 0..0 |-> f[i]] /\ f[0] = none
        OBVIOUS
      <4>2. 0 \in 0..N /\ \A i \in 1..0: FALSE
        BY <1>1
      <4> HIDE DEF f, none
      <4>3. 0 \in good
        BY <4>1, <4>2
      <4> QED BY <3>3, <4>3
    <3>5. k - 1 \in 0..N /\ ~(k <= k - 1) /\ k \in 1..N
      BY <1>1, <3>3, <3>4
    <3>6. k - 1 \in good
      BY <3>2, <3>5
    <3>7. PICK f : /\ f = [i \in 0..(k - 1) |-> f[i]]
                   /\ f[0] = none
                   /\ \A i \in 1..(k - 1): f[i] = UpdateRow(f[i - 1], i, old, new)
      BY <3>6
    <3> DEFINE g == [i \in 0..k |-> IF i = k THEN UpdateRow(f[k - 1], k, old, new) ELSE f[i]]
    <3>8. g = [i \in 0..k |-> g[i]] /\ g[0] = none
      BY <3>4, <3>5, <3>7
    <3>9. ASSUME NEW i \in 1..k PROVE g[i] = UpdateRow(g[i - 1], i, old, new)
      <4>1. i - 1 \in 0..k /\ i - 1 # k /\ i \in 0..k
        BY <1>1, <3>5
      <4>2. g[i - 1] = f[i - 1]
        BY <4>1
      <4>3. CASE i = k
        BY <4>1, <4>2, <4>3
      <4>4. CASE i # k
        <5>1. i \in 1..(k - 1)
          BY <1>1, <3>5, <4>4
        <5> QED BY <3>7, <4>1, <4>2, <4>4, <5>1
      <4> QED BY <4>3, <4>4
    <3>10. k \in good
      <4> HIDE DEF g, none
      <4> QED BY <3>3, <3>8, <3>9
    <3> QED BY <3>3, <3>10
  <2>2. N \in good
    <3>1. N \in 0..N
      BY <1>1
    <3> HIDE DEF good
    <3> QED BY <2>1, <3>1
  <2>3. PICK f : /\ f = [i \in 0..N |-> f[i]]
                 /\ f[0] = none
                 /\ \A i \in 1..N: f[i] = UpdateRow(f[i - 1], i, old, new)
    BY <2>2
  <2>4. \A i \in 0..N: i # 0 => i \in 1..N
    BY <1>1
  <2>5. f = step(f)
    <3> HIDE DEF none
    <3> QED BY <2>3, <2>4
  <2> HIDE DEF step
  <2> QED BY <2>5
<1>4. all = step(all)
  <2> HIDE DEF step
  <2> QED BY <1>3
<1>5. PICK f : f = all
  OBVIOUS
<1>6. f = [i \in 0..N |-> IF i = 0 THEN none ELSE UpdateRow(f[i - 1], i, old, new)]
  BY <1>4, <1>5
<1> HIDE DEF all, step
<1> DEFINE bad == {i \in 0..N: ~RewritesUpTo(page, f[i], i, old)}
<1>7. bad = {}
  <2> SUFFICES ASSUME bad # {} PROVE FALSE
    OBVIOUS
  <2>1. bad \in SUBSET Nat
    BY <1>1
  <2>2. PICK k \in bad : \A j \in bad: k <= j
    <3> HIDE DEF bad
    <3> QED BY <2>1, LeastOfSet
  <2>3. k \in 0..N /\ ~RewritesUpTo(page, f[k], k, old)
    OBVIOUS
  <2>4. k # 0
    <3>1. f[0] = none
      <4>1. 0 \in 0..N
        BY <1>1
      <4> QED BY <1>6, <4>1
    <3>2. none.page = page /\ none.dirty = FALSE
      OBVIOUS
    <3>3. \A j \in 1..Len(page.slots): ~(j <= 0)
      BY <1>1
    <3> HIDE DEF none
    <3>4. RewritesUpTo(page, none, 0, old)
      BY <3>2, <3>3 DEF RewritesUpTo
    <3> QED BY <2>3, <3>1, <3>4
  <2>5. k - 1 \in 0..N /\ ~(k <= k - 1) /\ k \in 1..N
    BY <1>1, <2>3, <2>4
  <2>6. RewritesUpTo(page, f[k - 1], k - 1, old)
    BY <2>2, <2>5
  <2>7. f[k] = UpdateRow(f[k - 1], k, old, new)
    BY <1>6, <2>3, <2>4
  <2> HIDE DEF bad
  <2> QED BY <2>3, <2>5, <2>6, <2>7, UpdateRowRewrites
<1>8. RewritesUpTo(page, f[N], N, old)
  <2>1. N \in 0..N
    BY <1>1
  <2> QED BY <1>7, <2>1
<1>9. \A j \in 1..N: j <= N
  BY <1>1
<1>10. f[N].dirty \in BOOLEAN /\ Rewrites(page, f[N].page, old, f[N].dirty)
  BY <1>8, <1>9 DEF RewritesUpTo, Rewrites
<1> QED BY <1>2, <1>5, <1>10

(* HeapFile.delete of the rows of a page.                                    *)
LEMMA DeleteRowsRewrites ==
    ASSUME NEW page \in HeapPage, NEW key
    PROVE  /\ \A marked \in BOOLEAN: Rewrites(page, DeleteRows(page, key), key, marked)
           /\ \A i \in 1..Len(page.slots):
                 DeleteRows(page, key).slots[i] \in {page.slots[i], Tombstone}
<1> DEFINE slots == [i \in DOMAIN page.slots |->
                        IF page.slots[i] # Tombstone /\ page.slots[i].k = key THEN Tombstone
                        ELSE page.slots[i]]
           after == DeleteRows(page, key)
<1>1. /\ Len(page.slots) \in Nat /\ DOMAIN page.slots = 1..Len(page.slots)
      /\ \A i \in 1..Len(page.slots): page.slots[i] \in Slot
  BY SlotsParts
<1>2. /\ slots \in Seq(Slot) /\ Len(slots) = Len(page.slots)
  <2>1. Tombstone \in Slot
    BY DEF Slot
  <2>2. slots \in [1..Len(page.slots) -> Slot]
    BY <1>1, <2>1
  <2>3. slots \in Seq(Slot)
    <3> HIDE DEF slots
    <3> QED BY <1>1, <2>2, SeqDef
  <2>4. /\ DOMAIN slots = 1..Len(page.slots) /\ DOMAIN slots = 1..Len(slots)
        /\ Len(slots) \in Nat
    <3> HIDE DEF slots
    <3> QED BY <2>2, <2>3, LenProperties
  <2>5. Len(slots) = Len(page.slots)
    <3>1. PICK m \in Nat : m = Len(slots)
      BY <2>4
    <3>2. PICK n \in Nat : n = Len(page.slots)
      BY <1>1
    <3>3. 1..m = 1..n
      BY <2>4, <3>1, <3>2
    <3>4. CASE m < n
      <4>1. n \in 1..n /\ n \notin 1..m
        BY <3>4
      <4> QED BY <3>3, <4>1
    <3>5. CASE n < m
      <4>1. m \in 1..m /\ m \notin 1..n
        BY <3>5
      <4> QED BY <3>3, <4>1
    <3>6. m < n \/ n < m \/ m = n
      OBVIOUS
    <3> QED BY <3>1, <3>2, <3>4, <3>5, <3>6
  <2> QED BY <2>3, <2>5
<1>3. after = [page EXCEPT !.slots = slots]
  BY DEF DeleteRows, HeapPage
<1>4. \A i \in 1..Len(page.slots):
         slots[i] = IF page.slots[i] # Tombstone /\ page.slots[i].k = key THEN Tombstone
                    ELSE page.slots[i]
  BY <1>1
<1> HIDE DEF slots, after
<1>5. after \in HeapPage /\ after.slots = slots /\ after.next = page.next
  BY <1>2, <1>3, OtherSlots
<1>6. ASSUME NEW i \in 1..Len(page.slots), NEW marked \in BOOLEAN
      PROVE  SlotRewritten(page.slots[i], after.slots[i], key, marked)
  BY <1>4, <1>5 DEF SlotRewritten
<1>7. \A marked \in BOOLEAN: Rewrites(page, after, key, marked)
  BY <1>2, <1>5, <1>6 DEF Rewrites
<1>8. \A i \in 1..Len(page.slots): after.slots[i] \in {page.slots[i], Tombstone}
  BY <1>4, <1>5
<1> QED BY <1>7, <1>8 DEF after

----------------------------------------------------------------------------
(* The catalog.                                                              *)

(* The tables of one catalog are those of another, with the same first page   *)
(* and counters.                                                             *)
SameTables(c, d) ==
    /\ DOMAIN d.tables = DOMAIN c.tables
    /\ \A u \in DOMAIN c.tables:
          d.tables[u].first = c.tables[u].first /\ d.tables[u].auto = c.tables[u].auto

(* CREATE TABLE, in the catalog: a table more, the others as they were.      *)
LEMMA CreateTableGives ==
    ASSUME NEW Q, NEW c, IsCatalog(c, Q),
           NEW t \in Tables, t \notin DOMAIN c.tables, NEW first \in Q
    PROVE  LET d == CreateTable(c, t, first)
           IN  /\ IsCatalog(d, Q) /\ d.indexes = c.indexes
               /\ DOMAIN d.tables = DOMAIN c.tables \union {t}
               /\ d.tables[t].first = first /\ d.tables[t].auto = 0
               /\ \A u \in DOMAIN c.tables: d.tables[u] = c.tables[u]
<1> DEFINE d == CreateTable(c, t, first)
           new == [first |-> first, auto |-> 0, rows |-> 0]
           tables == [u \in DOMAIN c.tables \union {t} |-> IF u = t THEN new ELSE c.tables[u]]
<1>1. c = [tables |-> c.tables, indexes |-> c.indexes]
  BY DEF IsCatalog
<1>2. d = [c EXCEPT !.tables = tables]
  BY DEF CreateTable
<1> HIDE DEF d
<1>3. d = [tables |-> tables, indexes |-> c.indexes]
  <2> HIDE DEF tables
  <2> QED BY <1>1, <1>2
<1>4. d.tables = tables /\ d.indexes = c.indexes
  <2> HIDE DEF tables
  <2> QED BY <1>3
<1>5. DOMAIN d.tables = DOMAIN c.tables \union {t} /\ d.tables[t] = new
      /\ \A u \in DOMAIN c.tables: d.tables[u] = c.tables[u]
  BY <1>4
<1>6. IsTable(new, Q) /\ new.first = first /\ new.auto = 0
  <2>1. MaxAuto \in Nat
    BY DatabaseAssumption
  <2>2. 0 \in 0..MaxAuto
    BY <2>1
  <2> QED BY <2>2 DEF IsTable
<1>7. \A u \in DOMAIN c.tables: IsTable(c.tables[u], Q)
  BY DEF IsCatalog, IsTable
<1>8. d.tables = [u \in DOMAIN d.tables |-> d.tables[u]]
  BY <1>4
<1> HIDE DEF tables, new
<1>9. DOMAIN d.tables \subseteq Tables /\ d.indexes \subseteq IndexNames
  BY <1>4, <1>5 DEF IsCatalog
<1>10. \A u \in DOMAIN d.tables: IsTable(d.tables[u], Q)
  BY <1>5, <1>6, <1>7
<1>11. d = [tables |-> d.tables, indexes |-> d.indexes]
  BY <1>3, <1>4
<1>12. IsCatalog(d, Q)
  BY <1>8, <1>9, <1>10, <1>11 DEF IsCatalog
<1> QED BY <1>4, <1>5, <1>6, <1>12 DEF d

(* DROP TABLE, in the catalog.                                               *)
LEMMA DropTableGives ==
    ASSUME NEW P, NEW c, IsCatalog(c, P), NEW t
    PROVE  LET d == DropTable(c, t)
           IN  /\ IsCatalog(d, P) /\ d.indexes = {i \in c.indexes: i.table # t}
               /\ DOMAIN d.tables = DOMAIN c.tables \ {t}
               /\ \A u \in DOMAIN d.tables: d.tables[u] = c.tables[u]
<1> DEFINE d == DropTable(c, t)
<1>1. /\ d.tables = [u \in DOMAIN c.tables \ {t} |-> c.tables[u]]
      /\ d.indexes = {i \in c.indexes: i.table # t}
      /\ d = [tables |-> d.tables, indexes |-> d.indexes]
  BY DEF DropTable
<1> HIDE DEF d
<1>2. /\ DOMAIN d.tables = DOMAIN c.tables \ {t}
      /\ \A u \in DOMAIN d.tables: d.tables[u] = c.tables[u]
  BY <1>1
<1>3. d.tables = [u \in DOMAIN d.tables |-> d.tables[u]]
  BY <1>1
<1>4. IsCatalog(d, P)
  BY <1>1, <1>2, <1>3 DEF IsCatalog
<1> QED BY <1>1, <1>2, <1>4 DEF d

(* CREATE INDEX, in the catalog.                                             *)
LEMMA CreateIndexGives ==
    ASSUME NEW P, NEW c, IsCatalog(c, P), NEW i \in IndexNames
    PROVE  LET d == CreateIndex(c, i)
           IN  IsCatalog(d, P) /\ d.tables = c.tables /\ d.indexes = c.indexes \union {i}
<1> DEFINE d == CreateIndex(c, i)
<1>1. c = [tables |-> c.tables, indexes |-> c.indexes]
  BY DEF IsCatalog
<1>2. d = [tables |-> c.tables, indexes |-> c.indexes \union {i}]
  BY <1>1 DEF CreateIndex
<1> HIDE DEF d
<1>3. d.tables = c.tables /\ d.indexes = c.indexes \union {i}
  BY <1>2
<1>4. IsCatalog(d, P)
  BY <1>2, <1>3 DEF IsCatalog
<1> QED BY <1>3, <1>4 DEF d

(* A table with another estimate or another counter.                         *)
LEMMA TableChanged ==
    ASSUME NEW P, NEW c, IsCatalog(c, P), NEW t \in DOMAIN c.tables, NEW x, IsTable(x, P),
           NEW d, d = [c EXCEPT !.tables = [c.tables EXCEPT ![t] = x]]
    PROVE  /\ IsCatalog(d, P) /\ d.indexes = c.indexes
           /\ DOMAIN d.tables = DOMAIN c.tables /\ d.tables[t] = x
           /\ \A u \in DOMAIN c.tables \ {t}: d.tables[u] = c.tables[u]
<1>1. /\ c = [tables |-> c.tables, indexes |-> c.indexes]
      /\ c.tables = [u \in DOMAIN c.tables |-> c.tables[u]]
  BY DEF IsCatalog
<1>2. PICK tables : tables = [c.tables EXCEPT ![t] = x]
  OBVIOUS
<1>3. /\ tables = [u \in DOMAIN tables |-> tables[u]]
      /\ DOMAIN tables = DOMAIN c.tables /\ tables[t] = x
      /\ \A u \in DOMAIN c.tables \ {t}: tables[u] = c.tables[u]
  BY <1>1, <1>2
<1>4. d = [tables |-> tables, indexes |-> c.indexes]
  BY <1>1, <1>2
<1>5. d.tables = tables /\ d.indexes = c.indexes
  BY <1>4
<1>6. \A u \in DOMAIN tables: IsTable(tables[u], P)
  BY <1>3 DEF IsCatalog
<1>7. IsCatalog(d, P)
  BY <1>3, <1>4, <1>5, <1>6 DEF IsCatalog
<1> QED BY <1>3, <1>5, <1>7

(* The number of rows of a table: no page, no counter and no index changes.  *)
LEMMA UpdateTableStatsGives ==
    ASSUME NEW P, NEW c, IsCatalog(c, P), NEW t \in DOMAIN c.tables, NEW n
    PROVE  LET d == UpdateTableStats(c, t, n)
           IN  IsCatalog(d, P) /\ d.indexes = c.indexes /\ SameTables(c, d)
<1> DEFINE d == UpdateTableStats(c, t, n)
<1>1. c.tables[t] = [first |-> c.tables[t].first, auto |-> c.tables[t].auto,
                     rows |-> c.tables[t].rows]
      /\ c.tables[t].first \in P /\ c.tables[t].auto \in 0..MaxAuto
  BY DEF IsCatalog, IsTable
<1>2. PICK x : x = [first |-> c.tables[t].first, auto |-> c.tables[t].auto, rows |-> n]
  OBVIOUS
<1>3. IsTable(x, P) /\ x.first = c.tables[t].first /\ x.auto = c.tables[t].auto
  BY <1>1, <1>2 DEF IsTable
<1>4. [c.tables[t] EXCEPT !.rows = n] = x
  BY <1>1, <1>2
<1>5. d = [c EXCEPT !.tables = [c.tables EXCEPT ![t] = x]]
  <2>1. d = [c EXCEPT !.tables = [c.tables EXCEPT ![t] = [c.tables[t] EXCEPT !.rows = n]]]
    BY DEF UpdateTableStats, IsCatalog
  <2> QED BY <1>4, <2>1
<1> HIDE DEF d
<1>6. /\ IsCatalog(d, P) /\ d.indexes = c.indexes
      /\ DOMAIN d.tables = DOMAIN c.tables /\ d.tables[t] = x
      /\ \A u \in DOMAIN c.tables \ {t}: d.tables[u] = c.tables[u]
  BY <1>3, <1>5, TableChanged
<1>7. SameTables(c, d)
  BY <1>3, <1>6 DEF SameTables
<1> QED BY <1>6, <1>7 DEF d

(* AUTOINCREMENT: the counter of one table is one more.                      *)
LEMMA IncrementGives ==
    ASSUME NEW P, NEW c, IsCatalog(c, P), NEW t \in DOMAIN c.tables,
           c.tables[t].auto + 1 <= MaxAuto
    PROVE  LET d == IncrementAutoCounter(c, t)
           IN  /\ IsCatalog(d, P) /\ d.indexes = c.indexes
               /\ DOMAIN d.tables = DOMAIN c.tables
               /\ d.tables[t].first = c.tables[t].first
               /\ d.tables[t].auto = c.tables[t].auto + 1
               /\ \A u \in DOMAIN c.tables \ {t}: d.tables[u] = c.tables[u]
<1> DEFINE d == IncrementAutoCounter(c, t)
<1>1. c.tables[t] = [first |-> c.tables[t].first, auto |-> c.tables[t].auto,
                     rows |-> c.tables[t].rows]
      /\ c.tables[t].first \in P /\ c.tables[t].auto \in 0..MaxAuto
  BY DEF IsCatalog, IsTable
<1>2. PICK x : x = [first |-> c.tables[t].first, auto |-> c.tables[t].auto + 1,
                    rows |-> c.tables[t].rows]
  OBVIOUS
<1>3. MaxAuto \in Nat
  BY DatabaseAssumption
<1>4. c.tables[t].auto + 1 \in 0..MaxAuto
  BY <1>1, <1>3
<1>5. IsTable(x, P) /\ x.first = c.tables[t].first /\ x.auto = c.tables[t].auto + 1
  BY <1>1, <1>2, <1>4 DEF IsTable
<1>6. [c.tables[t] EXCEPT !.auto = c.tables[t].auto + 1] = x
  BY <1>1, <1>2
<1>7. d = [c EXCEPT !.tables = [c.tables EXCEPT ![t] = x]]
  <2>1. d = [c EXCEPT !.tables = [c.tables EXCEPT
                 ![t] = [c.tables[t] EXCEPT !.auto = c.tables[t].auto + 1]]]
    BY DEF IncrementAutoCounter, IsCatalog
  <2> QED BY <1>6, <2>1
<1> HIDE DEF d
<1>8. /\ IsCatalog(d, P) /\ d.indexes = c.indexes
      /\ DOMAIN d.tables = DOMAIN c.tables /\ d.tables[t] = x
      /\ \A u \in DOMAIN c.tables \ {t}: d.tables[u] = c.tables[u]
  BY <1>5, <1>7, TableChanged
<1> QED BY <1>5, <1>8 DEF d

(* What a start finds: the catalog of the file, or an empty one when the file*)
(* is torn.                                                                  *)
LEMMA LoadGives ==
    ASSUME NEW P, NEW file, file = Torn \/ IsCatalog(file, P)
    PROVE  /\ IsCatalog(Load(file), P) /\ file \in {Load(file), Torn}
           /\ file # Torn => Load(file) = file
           /\ file = Torn => DOMAIN Load(file).tables = {}
<1>1. IsCatalog(NoCatalog, P) /\ DOMAIN NoCatalog.tables = {}
  BY DEF IsCatalog, NoCatalog
<1> QED BY <1>1 DEF Load

----------------------------------------------------------------------------
(* What statements do to the pages.                                          *)

(* The size of the file.                                                     *)
LEMMA SizeIs ==
    ASSUME NEW n \in Nat, NEW pages \in [0..(n - 1) -> HeapPage]
    PROVE  Cardinality(DOMAIN pages) = n
<1>1. DOMAIN pages = 0..(n - 1) /\ n - 1 \in Int
  OBVIOUS
<1>2. (IF 0 > n - 1 THEN 0 ELSE n - 1 - 0 + 1) = n
  OBVIOUS
<1> QED BY <1>1, <1>2, FS_Interval

(* The facts of StorageInv about the file and the pool, with its size.       *)
LEMMA FileFacts ==
    ASSUME StorageInv
    PROVE  /\ FileSize \in Nat
           /\ mem \in [0..(FileSize - 1) -> HeapPage] /\ disk \in [0..(FileSize - 1) -> HeapPage]
           /\ DOMAIN mem = 0..(FileSize - 1) /\ DOMAIN disk = 0..(FileSize - 1)
           /\ Cardinality(DOMAIN mem) = FileSize /\ Cardinality(DOMAIN disk) = FileSize
<1>1. /\ FileSize \in Nat
      /\ mem \in [0..(FileSize - 1) -> HeapPage] /\ disk \in [0..(FileSize - 1) -> HeapPage]
  BY DEF StorageInv, FileIsTyped
<1>2. DOMAIN mem = 0..(FileSize - 1) /\ DOMAIN disk = 0..(FileSize - 1)
  BY <1>1
<1>3. Cardinality(DOMAIN mem) = FileSize /\ Cardinality(DOMAIN disk) = FileSize
  <2>1. PICK n \in Nat : n = FileSize
    BY <1>1
  <2> QED BY <1>1, <2>1, SizeIs
<1> QED BY <1>1, <1>2, <1>3

(* The list in memory is the chain on the pages.                             *)
LEMMA ChainFacts ==
    ASSUME StorageInv, NEW t \in DOMAIN catalog.tables
    PROVE  /\ t \in Tables /\ First(t) \in 0..(FileSize - 1)
           /\ IsChain(mem, PagesOf(t), First(t))
           /\ PagesOf(t) \in Seq(0..(FileSize - 1)) /\ Len(PagesOf(t)) \in Nat
           /\ Len(PagesOf(t)) > 0
           /\ ToSet(PagesOf(t)) \subseteq 0..(FileSize - 1)
           /\ HeapOf(t) = PagesOf(t)
<1>1. t \in Tables /\ First(t) \in 0..(FileSize - 1)
  BY DEF StorageInv, CatalogIsTyped, IsCatalog, IsTable, First
<1>2. IsChain(mem, PagesOf(t), First(t))
  BY DEF StorageInv, ChainsInMemory
<1>3. PagesOf(t) \in Seq(0..(FileSize - 1)) /\ Len(PagesOf(t)) > 0
  BY <1>2, FileFacts DEF IsChain
<1>4. Len(PagesOf(t)) \in Nat
  BY <1>3, LenProperties
<1>5. ToSet(PagesOf(t)) \subseteq 0..(FileSize - 1)
  BY <1>3, ToSetParts
<1>6. HeapOf(t) = PagesOf(t)
  <2>1. heaps = [u \in DOMAIN heaps |-> PagesOf(u)]
    BY DEF StorageInv, HeapsAreChains
  <2>2. CASE t \in DOMAIN heaps
    BY <2>1, <2>2 DEF HeapOf
  <2>3. CASE t \notin DOMAIN heaps
    BY <2>3 DEF HeapOf, PagesOf, First
  <2> QED BY <2>2, <2>3
<1> QED BY <1>1, <1>2, <1>3, <1>4, <1>5, <1>6

(* The facts of StorageInv about the catalog.                                *)
LEMMA CatalogFacts ==
    ASSUME StorageInv
    PROVE  IsCatalog(catalog, 0..(FileSize - 1)) /\ catalogFile \in {catalog, Torn}
BY DEF StorageInv, CatalogIsTyped

(* UPDATE and DELETE.                                                        *)
RewriteEffect(t, key) ==
    /\ mem' \in [0..(FileSize - 1) -> HeapPage] /\ disk' = disk
    /\ dirty \subseteq dirty' /\ dirty' \subseteq 0..(FileSize - 1)
    /\ \A p \in 0..(FileSize - 1):
          IF p \in ToSet(PagesOf(t)) THEN Rewrites(mem[p], mem'[p], key, p \in dirty')
          ELSE mem'[p] = mem[p]
    /\ IsCatalog(catalog', 0..(FileSize - 1)) /\ catalogFile' \in {catalog', Torn}
    /\ SameTables(catalog, catalog') /\ catalog'.indexes = catalog.indexes
    /\ heaps' = Put(heaps, t, PagesOf(t)) /\ indexes' = indexes
    /\ kept' = [kept EXCEPT ![t] = {row \in @: row.k # key}]

(* UPDATE only writes slots of the pages of its table.                       *)
LEMMA UpdateIsRewrite ==
    ASSUME StorageInv, NEW t \in Edited, NEW old \in Texts, NEW new \in Texts,
           UpdateStatement(t, old, new)
    PROVE  t \in DOMAIN catalog.tables /\ RewriteEffect(t, old)
<1>1. t \in DOMAIN catalog.tables
  BY DEF UpdateStatement, HasTable
<1>2. /\ HeapOf(t) = PagesOf(t) /\ ToSet(PagesOf(t)) \subseteq 0..(FileSize - 1)
      /\ mem \in [0..(FileSize - 1) -> HeapPage] /\ DOMAIN mem = 0..(FileSize - 1)
  BY <1>1, ChainFacts, FileFacts
<1> DEFINE done(p) == UpdateRows(mem[p], old, new)
           pages == ToSet(PagesOf(t))
<1>3. /\ mem' = [p \in 0..(FileSize - 1) |-> IF p \in pages THEN done(p).page ELSE mem[p]]
      /\ dirty' = dirty \union {p \in pages: done(p).dirty}
      /\ heaps' = Put(heaps, t, PagesOf(t))
      /\ kept' = [kept EXCEPT ![t] = {row \in @: row.k # old}]
      /\ UNCHANGED <<disk, catalog, catalogFile, indexes>>
  BY <1>2 DEF UpdateStatement
<1>4. ASSUME NEW p \in 0..(FileSize - 1)
      PROVE  done(p).dirty \in BOOLEAN /\ Rewrites(mem[p], done(p).page, old, done(p).dirty)
  <2>1. mem[p] \in HeapPage
    BY <1>2
  <2> QED BY <2>1, UpdateRowsRewrites
<1> HIDE DEF done
<1>5. ASSUME NEW p \in 0..(FileSize - 1)
      PROVE  IF p \in ToSet(PagesOf(t)) THEN Rewrites(mem[p], mem'[p], old, p \in dirty')
             ELSE mem'[p] = mem[p]
  <2>1. CASE p \in pages
    <3>1. mem'[p] = done(p).page /\ (done(p).dirty => p \in dirty')
      BY <1>3, <2>1
    <3>2. Rewrites(mem[p], mem'[p], old, done(p).dirty)
      BY <1>4, <3>1
    <3>3. Rewrites(mem[p], mem'[p], old, p \in dirty')
      BY <3>1, <3>2 DEF Rewrites, SlotRewritten
    <3> QED BY <2>1, <3>3
  <2>2. CASE p \notin pages
    BY <1>3, <2>2
  <2> QED BY <2>1, <2>2
<1>6. mem' \in [0..(FileSize - 1) -> HeapPage]
  <2>1. \A p \in 0..(FileSize - 1): done(p).page \in HeapPage /\ mem[p] \in HeapPage
    BY <1>2, <1>4 DEF Rewrites
  <2> QED BY <1>3, <2>1
<1>7. dirty' \subseteq 0..(FileSize - 1) /\ dirty \subseteq dirty'
  <2>1. dirty \subseteq 0..(FileSize - 1)
    BY DEF StorageInv, FileIsTyped
  <2> QED BY <1>2, <1>3, <2>1
<1>8. /\ IsCatalog(catalog', 0..(FileSize - 1)) /\ catalogFile' \in {catalog', Torn}
      /\ SameTables(catalog, catalog') /\ catalog'.indexes = catalog.indexes
  BY <1>3, CatalogFacts DEF SameTables
<1> QED BY <1>1, <1>3, <1>5, <1>6, <1>7, <1>8 DEF RewriteEffect

(* DELETE only writes slots of the pages of its table, and what it writes is *)
(* a tombstone.                                                              *)
LEMMA DeleteIsRewrite ==
    ASSUME StorageInv, NEW t \in Edited, NEW key \in Texts, DeleteStatement(t, key)
    PROVE  /\ t \in DOMAIN catalog.tables /\ RewriteEffect(t, key)
           /\ \A p \in ToSet(PagesOf(t)): \A i \in 1..Len(mem[p].slots):
                 mem'[p].slots[i] \in {mem[p].slots[i], Tombstone}
<1>1. t \in DOMAIN catalog.tables
  BY DEF DeleteStatement, HasTable
<1>2. /\ HeapOf(t) = PagesOf(t) /\ ToSet(PagesOf(t)) \subseteq 0..(FileSize - 1)
      /\ mem \in [0..(FileSize - 1) -> HeapPage] /\ DOMAIN mem = 0..(FileSize - 1)
  BY <1>1, ChainFacts, FileFacts
<1> DEFINE after(p) == DeleteRows(mem[p], key)
           pages == ToSet(PagesOf(t))
           deleted == {rid \in RidsOf(mem, PagesOf(t)): Read(mem, rid).k = key}
           left == catalog.tables[t].rows - Cardinality(deleted)
<1>3. /\ mem' = [p \in 0..(FileSize - 1) |-> IF p \in pages THEN after(p) ELSE mem[p]]
      /\ dirty' = dirty \union {rid.page: rid \in deleted}
      /\ catalog' = UpdateTableStats(catalog, t, IF left < 0 THEN 0 ELSE left)
      /\ catalogFile' = catalog'
      /\ heaps' = Put(heaps, t, PagesOf(t))
      /\ kept' = [kept EXCEPT ![t] = {row \in @: row.k # key}]
      /\ UNCHANGED <<disk, indexes>>
  BY <1>2 DEF DeleteStatement, Save
<1>4. ASSUME NEW p \in 0..(FileSize - 1)
      PROVE  /\ \A marked \in BOOLEAN: Rewrites(mem[p], after(p), key, marked)
             /\ \A i \in 1..Len(mem[p].slots):
                   after(p).slots[i] \in {mem[p].slots[i], Tombstone}
  <2>1. mem[p] \in HeapPage
    BY <1>2
  <2> QED BY <2>1, DeleteRowsRewrites
<1> HIDE DEF after
<1>5. ASSUME NEW p \in 0..(FileSize - 1)
      PROVE  IF p \in ToSet(PagesOf(t)) THEN Rewrites(mem[p], mem'[p], key, p \in dirty')
             ELSE mem'[p] = mem[p]
  <2>1. CASE p \in pages
    <3>1. mem'[p] = after(p)
      BY <1>3, <2>1
    <3>2. Rewrites(mem[p], mem'[p], key, FALSE)
      BY <1>4, <3>1
    <3>3. Rewrites(mem[p], mem'[p], key, p \in dirty')
      BY <3>2 DEF Rewrites, SlotRewritten
    <3> QED BY <2>1, <3>3
  <2>2. CASE p \notin pages
    BY <1>3, <2>2
  <2> QED BY <2>1, <2>2
<1>6. mem' \in [0..(FileSize - 1) -> HeapPage]
  <2>1. \A p \in 0..(FileSize - 1): after(p) \in HeapPage /\ mem[p] \in HeapPage
    BY <1>2, <1>4 DEF Rewrites
  <2> QED BY <1>3, <2>1
<1>7. dirty' \subseteq 0..(FileSize - 1) /\ dirty \subseteq dirty'
  <2>1. dirty \subseteq 0..(FileSize - 1)
    BY DEF StorageInv, FileIsTyped
  <2>2. \A rid \in deleted: rid.page \in pages
    BY DEF RidsOf, Rid
  <2> HIDE DEF deleted
  <2> QED BY <1>2, <1>3, <2>1, <2>2
<1>8. /\ IsCatalog(catalog', 0..(FileSize - 1)) /\ catalogFile' \in {catalog', Torn}
      /\ SameTables(catalog, catalog') /\ catalog'.indexes = catalog.indexes
  <2>1. PICK n : n = IF left < 0 THEN 0 ELSE left
    OBVIOUS
  <2>2. catalog' = UpdateTableStats(catalog, t, n) /\ catalogFile' = catalog'
    BY <1>3, <2>1
  <2>3. PICK d : d = UpdateTableStats(catalog, t, n)
    OBVIOUS
  <2>4. /\ IsCatalog(d, 0..(FileSize - 1)) /\ d.indexes = catalog.indexes
        /\ SameTables(catalog, d)
    BY <1>1, <2>3, CatalogFacts, UpdateTableStatsGives
  <2> QED BY <2>2, <2>3, <2>4
<1>9. \A p \in ToSet(PagesOf(t)): \A i \in 1..Len(mem[p].slots):
         mem'[p].slots[i] \in {mem[p].slots[i], Tombstone}
  BY <1>2, <1>3, <1>4
<1> HIDE DEF deleted, left
<1>10. RewriteEffect(t, key)
  BY <1>3, <1>5, <1>6, <1>7, <1>8 DEF RewriteEffect
<1> QED BY <1>1, <1>9, <1>10

(* INSERT: into a page of the chain, or into a new page after its last.       *)
PutEffect(t, row, p, s) ==
    /\ p \in ToSet(PagesOf(t)) /\ PutsRow(mem[p], mem'[p], s, row)
    /\ mem' \in [0..(FileSize - 1) -> HeapPage]
    /\ \A q \in 0..(FileSize - 1): q # p => mem'[q] = mem[q]
    /\ disk' = disk /\ dirty' = dirty \union {p}
    /\ heaps' = Put(heaps, t, PagesOf(t))
    /\ indexes' = Indexed(t, row, Rid(p, s))

AppendEffect(t, page) ==
    /\ page \in HeapPage /\ page.next = NoPage
    /\ mem' = [Extended(mem, PagesOf(t), FileSize) EXCEPT ![FileSize] = page]
    /\ disk' = Put(disk, FileSize, EmptyPage)
    /\ dirty' = dirty \union {FileSize, Last(PagesOf(t))}
    /\ heaps' = Put(heaps, t, Append(PagesOf(t), FileSize))

InsertEffect(t, row) ==
    /\ row \in Row /\ kept' = kept
    /\ IsCatalog(catalog', 0..(FileSize - 1)) /\ catalogFile' \in {catalog', Torn}
    /\ DOMAIN catalog'.tables = DOMAIN catalog.tables /\ catalog'.indexes = catalog.indexes
    /\ \A u \in DOMAIN catalog.tables:
          /\ catalog'.tables[u].first = catalog.tables[u].first
          /\ catalog.tables[u].auto <= catalog'.tables[u].auto
    /\ row.id \in GivenIds \/ row.id <= catalog'.tables[t].auto
    /\ \/ \E p, s: PutEffect(t, row, p, s)
       \/ \E page:
             /\ AppendEffect(t, page)
             /\ \/ page = EmptyPage /\ indexes' = indexes
                \/ /\ PutsRow(EmptyPage, page, 1, row)
                   /\ indexes' = Indexed(t, row, Rid(FileSize, 1))

(* A new page: no slot, no link, and its first record gets slot 1.           *)
LEMMA EmptyPageIs ==
    /\ EmptyPage \in HeapPage /\ EmptyPage.next = NoPage /\ EmptyPage.slots = <<>>
    /\ Len(EmptyPage.slots) = 0 /\ SlotFor(EmptyPage) = 1
<1>1. <<>> \in Seq(Slot) /\ NoPage \in Int
  BY EmptySeq DEF NoPage
<1>2. EmptyPage \in HeapPage /\ EmptyPage.slots = <<>> /\ EmptyPage.next = NoPage
  BY <1>1 DEF EmptyPage, HeapPage
<1>3. Len(EmptyPage.slots) = 0 /\ DOMAIN EmptyPage.slots = {}
  BY <1>2
<1>4. SlotFor(EmptyPage) = 1
  BY <1>3 DEF SlotFor
<1> QED BY <1>2, <1>3, <1>4

(* A file with one page more.                                                *)
LEMMA ExtendedFile ==
    ASSUME NEW n \in Nat, NEW pages \in [0..(n - 1) -> HeapPage], NEW chain,
           Last(chain) \in 0..(n - 1), NEW page \in HeapPage
    PROVE  LET after == [Extended(pages, chain, n) EXCEPT ![n] = page]
           IN  /\ after \in [0..n -> HeapPage] /\ after[n] = page
               /\ after[Last(chain)] = [pages[Last(chain)] EXCEPT !.next = n]
               /\ \A q \in 0..(n - 1): q # Last(chain) => after[q] = pages[q]
<1> DEFINE more == Extended(pages, chain, n)
           after == [more EXCEPT ![n] = page]
<1>1. 0..n = 0..(n - 1) \union {n} /\ n \notin 0..(n - 1) /\ DOMAIN pages = 0..(n - 1)
  OBVIOUS
<1>2. [pages[Last(chain)] EXCEPT !.next = n] \in HeapPage
  <2>1. PICK x \in HeapPage : x = pages[Last(chain)]
    OBVIOUS
  <2>2. n \in Int
    OBVIOUS
  <2>3. [x EXCEPT !.next = n] \in HeapPage
    BY <2>2 DEF HeapPage
  <2> QED BY <2>1, <2>3
<1>3. /\ more \in [0..n -> HeapPage]
      /\ more[Last(chain)] = [pages[Last(chain)] EXCEPT !.next = n]
      /\ \A q \in 0..(n - 1): q # Last(chain) => more[q] = pages[q]
  <2>1. DOMAIN more = 0..n /\ more = [q \in 0..n |-> more[q]]
    BY <1>1 DEF Extended
  <2>2. more[Last(chain)] = [pages[Last(chain)] EXCEPT !.next = n]
    BY <1>1 DEF Extended
  <2>3. \A q \in 0..(n - 1): q # Last(chain) => more[q] = pages[q]
    BY <1>1 DEF Extended
  <2>4. more[n] = EmptyPage /\ EmptyPage \in HeapPage
    BY <1>1, EmptyPageIs DEF Extended
  <2>5. \A q \in 0..n: more[q] \in HeapPage
    <3> HIDE DEF more
    <3> QED BY <1>1, <1>2, <2>2, <2>3, <2>4
  <2> HIDE DEF more
  <2> QED BY <2>1, <2>2, <2>3, <2>5
<1> HIDE DEF more
<1>4. after \in [0..n -> HeapPage] /\ after[n] = page
      /\ \A q \in 0..(n - 1): after[q] = more[q]
  BY <1>1, <1>3
<1> HIDE DEF after
<1>5. /\ after \in [0..n -> HeapPage] /\ after[n] = page
      /\ after[Last(chain)] = [pages[Last(chain)] EXCEPT !.next = n]
      /\ \A q \in 0..(n - 1): q # Last(chain) => after[q] = pages[q]
  BY <1>3, <1>4
<1> QED BY <1>5 DEF after, more

(* HeapFile.insert with its entries.                                         *)
LEMMA InsertHas ==
    ASSUME StorageInv, NEW t \in DOMAIN catalog.tables, NEW row \in Row, NEW numbered,
           Insert(t, row, numbered),
           IsCatalog(numbered, 0..(FileSize - 1)), numbered.indexes = catalog.indexes,
           DOMAIN numbered.tables = DOMAIN catalog.tables,
           \A u \in DOMAIN catalog.tables:
              /\ numbered.tables[u].first = catalog.tables[u].first
              /\ catalog.tables[u].auto <= numbered.tables[u].auto,
           row.id \in GivenIds \/ row.id <= numbered.tables[t].auto
    PROVE  InsertEffect(t, row)
<1> DEFINE done == InsertRow(mem, PagesOf(t), row)
           roomy == RoomyAt(mem, PagesOf(t), row)
           after == UpdateTableStats(numbered, t, numbered.tables[t].rows + 1)
<1>1. /\ FileSize \in Nat /\ mem \in [0..(FileSize - 1) -> HeapPage]
      /\ DOMAIN mem = 0..(FileSize - 1) /\ DOMAIN disk = 0..(FileSize - 1)
      /\ Cardinality(DOMAIN mem) = FileSize /\ Cardinality(DOMAIN disk) = FileSize
  BY FileFacts
<1>2. /\ PagesOf(t) \in Seq(0..(FileSize - 1)) /\ Len(PagesOf(t)) \in Nat
      /\ Len(PagesOf(t)) > 0
      /\ HeapOf(t) = PagesOf(t) /\ DOMAIN PagesOf(t) = 1..Len(PagesOf(t))
      /\ Last(PagesOf(t)) \in 0..(FileSize - 1)
  <2>1. /\ PagesOf(t) \in Seq(0..(FileSize - 1)) /\ Len(PagesOf(t)) \in Nat
        /\ Len(PagesOf(t)) > 0 /\ HeapOf(t) = PagesOf(t)
    BY ChainFacts
  <2>2. DOMAIN PagesOf(t) = 1..Len(PagesOf(t))
    BY <2>1, LenProperties
  <2>3. Last(PagesOf(t)) \in 0..(FileSize - 1)
    <3>1. Len(PagesOf(t)) \in 1..Len(PagesOf(t))
      BY <2>1
    <3> QED BY <2>1, <3>1, ElementOfSeq DEF Last
  <2> QED BY <2>1, <2>2, <2>3
<1>3. /\ mem' = done.pages
      /\ disk' = IF DOMAIN done.pages = DOMAIN mem THEN disk ELSE Put(disk, FileSize, EmptyPage)
      /\ dirty' = dirty \union done.dirty
      /\ heaps' = Put(heaps, t, done.chain)
      /\ kept' = kept
  BY <1>1, <1>2 DEF Insert, Grown
<1>4. /\ done.stored => /\ catalog' = after /\ catalogFile' = after
                        /\ indexes' = Indexed(t, row, done.rid)
      /\ ~done.stored => /\ catalog' = numbered /\ catalogFile' \in {catalogFile, numbered}
                         /\ indexes' = indexes
                         /\ numbered = catalog \/ catalogFile' = numbered
  BY <1>2 DEF Insert, Save
<1>5. /\ IsCatalog(after, 0..(FileSize - 1)) /\ after.indexes = catalog.indexes
      /\ SameTables(numbered, after)
  <2>1. PICK n : n = numbered.tables[t].rows + 1
    OBVIOUS
  <2>2. PICK d : d = UpdateTableStats(numbered, t, n)
    OBVIOUS
  <2>3. /\ IsCatalog(d, 0..(FileSize - 1)) /\ d.indexes = numbered.indexes
        /\ SameTables(numbered, d)
    BY <2>2, UpdateTableStatsGives
  <2> QED BY <2>1, <2>2, <2>3
<1> HIDE DEF after
<1>6. /\ IsCatalog(catalog', 0..(FileSize - 1)) /\ catalogFile' \in {catalog', Torn}
      /\ DOMAIN catalog'.tables = DOMAIN catalog.tables /\ catalog'.indexes = catalog.indexes
      /\ \A u \in DOMAIN catalog.tables:
            /\ catalog'.tables[u].first = catalog.tables[u].first
            /\ catalog.tables[u].auto <= catalog'.tables[u].auto
      /\ row.id \in GivenIds \/ row.id <= catalog'.tables[t].auto
  <2>1. catalogFile \in {catalog, Torn}
    BY CatalogFacts
  <2>2. CASE done.stored
    <3>1. catalog' = after /\ catalogFile' = after
      BY <1>4, <2>2
    <3>2. DOMAIN after.tables = DOMAIN catalog.tables
          /\ \A u \in DOMAIN catalog.tables:
                /\ after.tables[u].first = catalog.tables[u].first
                /\ after.tables[u].auto = numbered.tables[u].auto
      BY <1>5 DEF SameTables
    <3> QED BY <1>5, <3>1, <3>2
  <2>3. CASE ~done.stored
    <3>1. catalog' = numbered /\ catalogFile' \in {numbered, Torn}
      BY <1>4, <2>1, <2>3
    <3> QED BY <3>1
  <2> QED BY <2>2, <2>3
<1>7. CASE roomy # {}
  <2>1. roomy \in SUBSET Nat /\ roomy \subseteq 1..Len(PagesOf(t))
    BY <1>2 DEF RoomyAt
  <2> DEFINE least == CHOOSE i \in roomy: \A j \in roomy: i <= j
  <2>2. least \in roomy
    <3>1. \E i \in roomy: \A j \in roomy: i <= j
      <4> HIDE DEF roomy
      <4> QED BY <1>7, <2>1, LeastOfSet
    <3> HIDE DEF roomy
    <3> QED BY <3>1
  <2>3. PICK p : p = PagesOf(t)[least]
    OBVIOUS
  <2>4. p \in ToSet(PagesOf(t)) /\ p \in 0..(FileSize - 1)
    <3>1. least \in 1..Len(PagesOf(t))
      BY <2>1, <2>2
    <3> HIDE DEF least
    <3> QED BY <1>2, <2>3, <3>1, ToSetParts
  <2>5. /\ done.pages = [mem EXCEPT ![p] = InsertRecord(@, row)] /\ done.chain = PagesOf(t)
        /\ done.rid = Rid(p, SlotFor(mem[p])) /\ done.dirty = {p} /\ done.stored = TRUE
    BY <1>7, <2>3 DEF InsertRow
  <2>6. PICK s : s = SlotFor(mem[p])
    OBVIOUS
  <2>7. PutsRow(mem[p], InsertRecord(mem[p], row), s, row)
    <3>1. mem[p] \in HeapPage
      BY <1>1, <2>4
    <3> QED BY <2>6, <3>1, InsertRecordPuts
  <2>8. InsertRecord(mem[p], row) \in HeapPage
    BY <2>7 DEF PutsRow
  <2>9. mem' = [mem EXCEPT ![p] = InsertRecord(mem[p], row)]
    BY <1>3, <2>5
  <2>10. /\ mem' \in [0..(FileSize - 1) -> HeapPage] /\ mem'[p] = InsertRecord(mem[p], row)
         /\ \A q \in 0..(FileSize - 1): q # p => mem'[q] = mem[q]
    BY <1>1, <2>4, <2>8, <2>9
  <2>11. DOMAIN done.pages = DOMAIN mem
    BY <1>1, <1>3, <2>10
  <2>12. /\ disk' = disk /\ dirty' = dirty \union {p} /\ heaps' = Put(heaps, t, PagesOf(t))
         /\ indexes' = Indexed(t, row, Rid(p, s))
    BY <1>3, <1>4, <2>5, <2>6, <2>11
  <2> HIDE DEF done, roomy
  <2>13. PutEffect(t, row, p, s)
    BY <2>4, <2>7, <2>10, <2>12 DEF PutEffect
  <2> QED BY <1>3, <1>6, <2>13 DEF InsertEffect
<1>8. CASE roomy = {}
  <2> DEFINE more == Extended(mem, PagesOf(t), FileSize)
             fits == Fits(EmptyPage, row)
  <2>1. PICK page : page = IF fits THEN InsertRecord(EmptyPage, row) ELSE EmptyPage
    OBVIOUS
  <2>2. PutsRow(EmptyPage, InsertRecord(EmptyPage, row), 1, row)
    BY EmptyPageIs, InsertRecordPuts
  <2>3. page \in HeapPage /\ page.next = NoPage
    BY <2>1, <2>2, EmptyPageIs DEF PutsRow
  <2>4. /\ done.pages = IF fits THEN [more EXCEPT ![FileSize] = InsertRecord(@, row)] ELSE more
        /\ done.chain = Append(PagesOf(t), FileSize)
        /\ done.rid = Rid(FileSize, 1) /\ done.stored = fits
        /\ done.dirty = {FileSize, Last(PagesOf(t))}
    BY <1>1, <1>8 DEF InsertRow, Linked
  <2>5. more[FileSize] = EmptyPage /\ more = [more EXCEPT ![FileSize] = EmptyPage]
    <3>1. /\ FileSize \in DOMAIN more /\ more[FileSize] = EmptyPage
          /\ more = [q \in DOMAIN more |-> more[q]]
      BY DEF Extended
    <3> HIDE DEF more
    <3> QED BY <3>1
  <2>6. done.pages = [more EXCEPT ![FileSize] = page]
    <3> HIDE DEF more, done, fits
    <3> QED BY <2>1, <2>4, <2>5
  <2>7. [more EXCEPT ![FileSize] = page] \in [0..FileSize -> HeapPage]
    BY <1>1, <1>2, <2>3, ExtendedFile
  <2>8. DOMAIN done.pages # DOMAIN mem
    <3>1. FileSize \in 0..FileSize /\ FileSize \notin 0..(FileSize - 1)
      BY <1>1
    <3>2. DOMAIN done.pages = 0..FileSize
      <4> HIDE DEF done, more
      <4> QED BY <2>6, <2>7
    <3> HIDE DEF done
    <3> QED BY <1>1, <3>1, <3>2
  <2> HIDE DEF done, fits, roomy
  <2>9. AppendEffect(t, page)
    BY <1>3, <2>3, <2>4, <2>6, <2>8 DEF AppendEffect
  <2>10. CASE fits
    <3>1. PutsRow(EmptyPage, page, 1, row) /\ indexes' = Indexed(t, row, Rid(FileSize, 1))
      BY <1>4, <2>1, <2>2, <2>4, <2>10
    <3> QED BY <1>3, <1>6, <2>9, <3>1 DEF InsertEffect
  <2>11. CASE ~fits
    <3>1. page = EmptyPage /\ indexes' = indexes
      BY <1>4, <2>1, <2>4, <2>11
    <3> QED BY <1>3, <1>6, <2>9, <3>1 DEF InsertEffect
  <2> QED BY <2>10, <2>11
<1> QED BY <1>7, <1>8

(* INSERT gives an id of its own or the next of the counter.                 *)
LEMMA InsertIsInsert ==
    ASSUME StorageInv, NEW t \in Tables, InsertStatement(t)
    PROVE  /\ t \in DOMAIN catalog.tables
           /\ \E row \in Row:
                 /\ InsertEffect(t, row)
                 /\ row.id \in GivenIds \/ row.id = catalog.tables[t].auto + 1
                 /\ row.id \in GivenIds =>
                       "same id" \in Habits \/ \A other \in RowsOf(t): other.id # row.id
<1>1. t \in DOMAIN catalog.tables
  BY DEF InsertStatement, HasTable
<1>2. /\ IsCatalog(catalog, 0..(FileSize - 1))
      /\ \A u \in DOMAIN catalog.tables: catalog.tables[u].auto \in 0..MaxAuto
  BY CatalogFacts DEF IsCatalog, IsTable
<1>3. MaxAuto \in Nat /\ GivenIds \subseteq Nat /\ \A id \in GivenIds: id > MaxAuto
  BY DatabaseAssumption
<1>4. PICK k \in Texts :
          \/ LET numbered == IncrementAutoCounter(catalog, t)
                 id == numbered.tables[t].auto
             IN  id <= MaxAuto /\ Insert(t, [id |-> id, k |-> k], numbered)
          \/ \E id \in GivenIds:
                /\ "same id" \in Habits \/ \A row \in RowsOf(t): row.id # id
                /\ Insert(t, [id |-> id, k |-> k], catalog)
  BY DEF InsertStatement
<1>5. CASE LET numbered == IncrementAutoCounter(catalog, t)
               id == numbered.tables[t].auto
           IN  id <= MaxAuto /\ Insert(t, [id |-> id, k |-> k], numbered)
  <2>1. PICK numbered : numbered = IncrementAutoCounter(catalog, t)
    OBVIOUS
  <2>2. PICK id : id = numbered.tables[t].auto
    OBVIOUS
  <2>3. id <= MaxAuto /\ Insert(t, [id |-> id, k |-> k], numbered)
    BY <1>5, <2>1, <2>2
  <2>4. numbered = [catalog EXCEPT !.tables[t].auto = catalog.tables[t].auto + 1]
    BY <2>1 DEF IncrementAutoCounter
  <2>5. id = catalog.tables[t].auto + 1
    <3>1. /\ catalog = [tables |-> catalog.tables, indexes |-> catalog.indexes]
          /\ catalog.tables[t] = [first |-> catalog.tables[t].first,
                                  auto |-> catalog.tables[t].auto,
                                  rows |-> catalog.tables[t].rows]
      BY <1>1, <1>2 DEF IsCatalog, IsTable
    <3>2. numbered.tables = [catalog.tables EXCEPT
                                ![t] = [catalog.tables[t] EXCEPT
                                           !.auto = catalog.tables[t].auto + 1]]
      BY <2>4, <3>1
    <3>3. [catalog.tables[t] EXCEPT !.auto = catalog.tables[t].auto + 1].auto
          = catalog.tables[t].auto + 1
      BY <3>1
    <3> QED BY <1>1, <2>2, <3>2, <3>3
  <2>6. /\ IsCatalog(numbered, 0..(FileSize - 1)) /\ numbered.indexes = catalog.indexes
        /\ DOMAIN numbered.tables = DOMAIN catalog.tables
        /\ numbered.tables[t].first = catalog.tables[t].first
        /\ \A u \in DOMAIN catalog.tables \ {t}: numbered.tables[u] = catalog.tables[u]
    BY <1>1, <1>2, <2>1, <2>3, <2>5, IncrementGives
  <2>7. \A u \in DOMAIN catalog.tables:
           /\ numbered.tables[u].first = catalog.tables[u].first
           /\ catalog.tables[u].auto <= numbered.tables[u].auto
    <3>1. \A u \in DOMAIN catalog.tables: catalog.tables[u].auto \in Int
      BY <1>2
    <3>2. catalog.tables[t].auto <= id
      BY <1>1, <2>5, <3>1
    <3>3. \A u \in DOMAIN catalog.tables: catalog.tables[u].auto <= catalog.tables[u].auto
      BY <3>1
    <3> QED BY <2>2, <2>6, <3>2, <3>3
  <2>8. PICK row : row = [id |-> id, k |-> k]
    OBVIOUS
  <2>9. id \in 1..MaxAuto /\ id <= id
    <3>1. catalog.tables[t].auto \in 0..MaxAuto
      BY <1>1, <1>2
    <3> QED BY <1>3, <2>3, <2>5, <3>1
  <2>10. row \in Row /\ row.id = id
    BY <2>8, <2>9 DEF Row
  <2>11. InsertEffect(t, row)
    BY <1>1, <2>2, <2>3, <2>6, <2>7, <2>8, <2>9, <2>10, InsertHas
  <2>12. id \notin GivenIds
    BY <1>3, <2>3, <2>9
  <2> QED BY <1>1, <2>5, <2>10, <2>11, <2>12
<1>6. CASE \E id \in GivenIds:
              /\ "same id" \in Habits \/ \A row \in RowsOf(t): row.id # id
              /\ Insert(t, [id |-> id, k |-> k], catalog)
  <2>1. PICK id \in GivenIds :
            /\ "same id" \in Habits \/ \A row \in RowsOf(t): row.id # id
            /\ Insert(t, [id |-> id, k |-> k], catalog)
    BY <1>6
  <2>2. PICK row : row = [id |-> id, k |-> k]
    OBVIOUS
  <2>3. row \in Row /\ row.id = id
    BY <2>2 DEF Row
  <2>4. \A u \in DOMAIN catalog.tables: catalog.tables[u].auto <= catalog.tables[u].auto
    <3>1. \A u \in DOMAIN catalog.tables: catalog.tables[u].auto \in Int
      BY <1>2
    <3> QED BY <3>1
  <2>5. InsertEffect(t, row)
    BY <1>1, <1>2, <2>1, <2>2, <2>3, <2>4, InsertHas
  <2> QED BY <1>1, <2>1, <2>3, <2>5
<1> QED BY <1>4, <1>5, <1>6

----------------------------------------------------------------------------
(* Files, catalog and chains: StorageInv.                                    *)

(* The same file size, and for the tables that are left the same chains.      *)
SameChains ==
    /\ FileSize' = FileSize
    /\ \A t \in DOMAIN catalog'.tables: t \in DOMAIN catalog.tables /\ PagesOf(t)' = PagesOf(t)

(* What changes no link that a caller sees keeps the chains.                  *)
LEMMA LinksKept ==
    ASSUME StorageInv,
           mem' \in [0..(FileSize - 1) -> HeapPage], disk' \in [0..(FileSize - 1) -> HeapPage],
           dirty' \subseteq 0..(FileSize - 1),
           \A p \in 0..(FileSize - 1):
              /\ mem'[p].next = mem[p].next
              /\ disk'[p].next = mem'[p].next \/ (p \in dirty' /\ disk'[p].next = NoPage),
           IsCatalog(catalog', 0..(FileSize - 1)), catalogFile' \in {catalog', Torn},
           \A t \in DOMAIN catalog'.tables:
              t \in DOMAIN catalog.tables /\ catalog'.tables[t].first = catalog.tables[t].first,
           DOMAIN heaps' \subseteq DOMAIN catalog'.tables,
           heaps' = [t \in DOMAIN heaps' |-> PagesOf(t)],
           kept' = [t \in Tables |-> kept'[t]]
    PROVE  StorageInv' /\ SameChains
<1>1. FileSize \in Nat /\ mem \in [0..(FileSize - 1) -> HeapPage]
  BY FileFacts
<1>2. FileSize' = FileSize /\ FileIsTyped'
  <2>1. PICK n \in Nat : n = FileSize
    BY <1>1
  <2>2. mem' \in [0..(n - 1) -> HeapPage]
    BY <2>1
  <2>3. Cardinality(DOMAIN mem') = n
    BY <2>2, SizeIs
  <2>4. FileSize' = n
    BY <2>3 DEF FileSize
  <2> QED BY <2>1, <2>4 DEF FileIsTyped
<1>3. ASSUME NEW t \in DOMAIN catalog'.tables
      PROVE  /\ t \in DOMAIN catalog.tables /\ First(t)' = First(t) /\ PagesOf(t)' = PagesOf(t)
             /\ IsChain(mem', PagesOf(t), First(t))
  <2>1. t \in DOMAIN catalog.tables /\ First(t)' = First(t)
    BY DEF First
  <2>2. /\ IsChain(mem, PagesOf(t), First(t))
        /\ ToSet(PagesOf(t)) \subseteq 0..(FileSize - 1)
    BY <2>1, ChainFacts
  <2>3. PICK n \in Nat : n = FileSize
    BY <1>1
  <2>4. n <= n /\ \A p \in ToSet(PagesOf(t)): mem'[p].next = mem[p].next
    BY <2>2, <2>3
  <2>5. mem \in [0..(n - 1) -> HeapPage] /\ mem' \in [0..(n - 1) -> HeapPage]
    BY <1>1, <2>3
  <2>6. IsChain(mem', PagesOf(t), First(t))
    BY <2>2, <2>4, <2>5, ChainKept
  <2>7. Chain(mem', First(t)) = PagesOf(t)
    BY <2>5, <2>6, ChainIs
  <2> QED BY <2>1, <2>6, <2>7 DEF PagesOf
<1>4. ChainsInMemory'
  <2>1. ASSUME NEW t \in DOMAIN catalog'.tables PROVE IsChain(mem', PagesOf(t)', First(t)')
    BY <1>3
  <2>2. ASSUME NEW t \in DOMAIN catalog'.tables, NEW u \in DOMAIN catalog'.tables, t # u
        PROVE  ToSet(PagesOf(t)') \intersect ToSet(PagesOf(u)') = {}
    <3>1. ToSet(PagesOf(t)) \intersect ToSet(PagesOf(u)) = {}
      BY <1>3, <2>2 DEF StorageInv, ChainsInMemory
    <3> QED BY <1>3, <3>1
  <2> QED BY <2>1, <2>2 DEF ChainsInMemory
<1>5. CatalogIsTyped'
  BY <1>2 DEF CatalogIsTyped
<1>6. Links'
  <2>1. DOMAIN mem' = 0..(FileSize - 1)
    OBVIOUS
  <2> QED BY <2>1 DEF Links
<1>7. HeapsAreChains'
  <2>1. \A t \in DOMAIN heaps': PagesOf(t)' = PagesOf(t)
    BY <1>3
  <2>2. heaps' = [t \in DOMAIN heaps' |-> PagesOf(t)']
    BY <2>1
  <2> QED BY <2>2 DEF HeapsAreChains
<1>8. KeptIsTyped'
  BY DEF KeptIsTyped
<1>9. SameChains
  BY <1>2, <1>3 DEF SameChains
<1> QED BY <1>2, <1>4, <1>5, <1>6, <1>7, <1>8, <1>9 DEF StorageInv

(* The facts that LinksKept asks of the state before.                        *)
LEMMA LinkFacts ==
    ASSUME StorageInv
    PROVE  /\ dirty \subseteq 0..(FileSize - 1)
           /\ \A p \in 0..(FileSize - 1):
                 disk[p].next = mem[p].next \/ (p \in dirty /\ disk[p].next = NoPage)
           /\ DOMAIN heaps \subseteq DOMAIN catalog.tables
           /\ heaps = [t \in DOMAIN heaps |-> PagesOf(t)]
           /\ kept = [t \in Tables |-> kept[t]]
BY FileFacts DEF StorageInv, FileIsTyped, Links, HeapsAreChains, KeptIsTyped

(* The list of a table is put among those in memory.                         *)
LEMMA HeapPut ==
    ASSUME StorageInv, NEW t \in DOMAIN catalog.tables
    PROVE  LET loaded == Put(heaps, t, PagesOf(t))
           IN  /\ DOMAIN loaded \subseteq DOMAIN catalog.tables
               /\ loaded = [u \in DOMAIN loaded |-> PagesOf(u)]
<1>1. /\ DOMAIN heaps \subseteq DOMAIN catalog.tables
      /\ heaps = [u \in DOMAIN heaps |-> PagesOf(u)]
  BY LinkFacts
<1>2. \A u \in DOMAIN heaps: heaps[u] = PagesOf(u)
  BY <1>1
<1> QED BY <1>1, <1>2 DEF Put

(* DROP TABLE forgets the table; the pages stay, with no chain on them.      *)
LEMMA DropKeepsStorage ==
    ASSUME StorageInv, NEW t \in Tables, DropTableStatement(t)
    PROVE  StorageInv' /\ SameChains
<1>1. /\ FileSize \in Nat /\ mem \in [0..(FileSize - 1) -> HeapPage]
      /\ disk \in [0..(FileSize - 1) -> HeapPage]
  BY FileFacts
<1>2. /\ mem' = mem /\ disk' = disk /\ dirty' = dirty
      /\ heaps' = Without(heaps, {t}) /\ catalog' = DropTable(catalog, t) /\ catalogFile' = catalog'
      /\ kept' = [kept EXCEPT ![t] = {}]
  BY DEF DropTableStatement, Save
<1>3. /\ IsCatalog(catalog', 0..(FileSize - 1))
      /\ DOMAIN catalog'.tables = DOMAIN catalog.tables \ {t}
      /\ \A u \in DOMAIN catalog'.tables: catalog'.tables[u] = catalog.tables[u]
  <2>1. PICK d : d = DropTable(catalog, t)
    OBVIOUS
  <2>2. /\ IsCatalog(d, 0..(FileSize - 1)) /\ DOMAIN d.tables = DOMAIN catalog.tables \ {t}
        /\ \A u \in DOMAIN d.tables: d.tables[u] = catalog.tables[u]
    BY <2>1, CatalogFacts, DropTableGives
  <2> QED BY <1>2, <2>1, <2>2
<1>4. /\ DOMAIN heaps' \subseteq DOMAIN catalog'.tables
      /\ heaps' = [u \in DOMAIN heaps' |-> PagesOf(u)]
  <2>1. \A u \in DOMAIN heaps: heaps[u] = PagesOf(u)
    BY LinkFacts
  <2>2. DOMAIN heaps' = DOMAIN heaps \ {t} /\ heaps' = [u \in DOMAIN heaps' |-> heaps[u]]
    BY <1>2 DEF Without
  <2>3. \A u \in DOMAIN heaps': heaps[u] = PagesOf(u)
    BY <2>1, <2>2
  <2>4. DOMAIN heaps' \subseteq DOMAIN catalog'.tables
    BY <1>3, <2>2, LinkFacts
  <2> QED BY <2>2, <2>3, <2>4
<1>5. kept' = [u \in Tables |-> kept'[u]]
  <2>1. kept = [u \in Tables |-> kept[u]]
    BY LinkFacts
  <2> QED BY <1>2, <2>1
<1>6. \A p \in 0..(FileSize - 1):
         /\ mem'[p].next = mem[p].next
         /\ disk'[p].next = mem'[p].next \/ (p \in dirty' /\ disk'[p].next = NoPage)
  BY <1>2, LinkFacts
<1>7. dirty' \subseteq 0..(FileSize - 1)
  BY <1>2, LinkFacts
<1>8. \A u \in DOMAIN catalog'.tables:
         u \in DOMAIN catalog.tables /\ catalog'.tables[u].first = catalog.tables[u].first
  BY <1>3
<1>9. mem' \in [0..(FileSize - 1) -> HeapPage] /\ disk' \in [0..(FileSize - 1) -> HeapPage]
      /\ catalogFile' \in {catalog', Torn}
  BY <1>1, <1>2
<1> QED BY <1>3, <1>4, <1>5, <1>6, <1>7, <1>8, <1>9, LinksKept

(* CREATE INDEX changes no page and names the index in the catalog.          *)
LEMMA CreateIndexKeepsStorage ==
    ASSUME StorageInv, NEW t \in Edited, CreateIndexStatement(t)
    PROVE  /\ StorageInv' /\ SameChains /\ catalog'.tables = catalog.tables
           /\ catalog'.indexes = catalog.indexes \union {Index(t, "k")}
<1>1. /\ FileSize \in Nat /\ mem \in [0..(FileSize - 1) -> HeapPage]
      /\ disk \in [0..(FileSize - 1) -> HeapPage]
  BY FileFacts
<1> DEFINE i == Index(t, "k")
<1>2. /\ mem' = mem /\ disk' = disk /\ dirty' = dirty /\ kept' = kept
  BY DEF CreateIndexStatement
<1>3. /\ \/ i \in catalog.indexes /\ catalog' = catalog /\ catalogFile' = catalogFile
         \/ catalog' = CreateIndex(catalog, i) /\ catalogFile' = catalog'
      /\ \/ heaps' = heaps
         \/ t \in DOMAIN catalog.tables /\ heaps' = Put(heaps, t, HeapOf(t))
  BY DEF CreateIndexStatement, Save, HasTable
<1>4. i \in IndexNames
  <2>1. t \in Tables
    BY DatabaseAssumption
  <2> QED BY <2>1 DEF Index, IndexNames
<1>5. /\ IsCatalog(catalog', 0..(FileSize - 1)) /\ catalogFile' \in {catalog', Torn}
      /\ catalog'.tables = catalog.tables /\ catalog'.indexes = catalog.indexes \union {i}
  <2>1. PICK d : d = CreateIndex(catalog, i)
    OBVIOUS
  <2>2. /\ IsCatalog(d, 0..(FileSize - 1)) /\ d.tables = catalog.tables
        /\ d.indexes = catalog.indexes \union {i}
    BY <1>4, <2>1, CatalogFacts, CreateIndexGives
  <2> HIDE DEF i
  <2> QED BY <1>3, <2>1, <2>2, CatalogFacts
<1>6. /\ DOMAIN heaps' \subseteq DOMAIN catalog'.tables
      /\ heaps' = [u \in DOMAIN heaps' |-> PagesOf(u)]
  <2>1. CASE heaps' = heaps
    BY <1>5, <2>1, LinkFacts
  <2>2. CASE t \in DOMAIN catalog.tables /\ heaps' = Put(heaps, t, HeapOf(t))
    <3>1. heaps' = Put(heaps, t, PagesOf(t))
      BY <2>2, ChainFacts
    <3> QED BY <1>5, <2>2, <3>1, HeapPut
  <2> QED BY <1>3, <2>1, <2>2
<1>7. kept' = [u \in Tables |-> kept'[u]]
  BY <1>2, LinkFacts
<1>8. \A p \in 0..(FileSize - 1):
         /\ mem'[p].next = mem[p].next
         /\ disk'[p].next = mem'[p].next \/ (p \in dirty' /\ disk'[p].next = NoPage)
  BY <1>2, LinkFacts
<1>9. dirty' \subseteq 0..(FileSize - 1)
  BY <1>2, LinkFacts
<1>10. \A u \in DOMAIN catalog'.tables:
          u \in DOMAIN catalog.tables /\ catalog'.tables[u].first = catalog.tables[u].first
  BY <1>5
<1>11. mem' \in [0..(FileSize - 1) -> HeapPage] /\ disk' \in [0..(FileSize - 1) -> HeapPage]
  BY <1>1, <1>2
<1> QED BY <1>5, <1>6, <1>7, <1>8, <1>9, <1>10, <1>11, LinksKept

(* A statement that writes slots of existing pages changes no link.          *)
LEMMA RewriteKeepsStorage ==
    ASSUME StorageInv, NEW t \in DOMAIN catalog.tables, NEW key, RewriteEffect(t, key)
    PROVE  StorageInv' /\ SameChains
<1>1. FileSize \in Nat /\ disk \in [0..(FileSize - 1) -> HeapPage]
  BY FileFacts
<1>2. /\ mem' \in [0..(FileSize - 1) -> HeapPage] /\ disk' = disk
      /\ dirty \subseteq dirty' /\ dirty' \subseteq 0..(FileSize - 1)
      /\ IsCatalog(catalog', 0..(FileSize - 1)) /\ catalogFile' \in {catalog', Torn}
      /\ heaps' = Put(heaps, t, PagesOf(t))
      /\ kept' = [kept EXCEPT ![t] = {row \in @: row.k # key}]
  BY DEF RewriteEffect
<1>3. DOMAIN catalog'.tables = DOMAIN catalog.tables
      /\ \A u \in DOMAIN catalog'.tables:
            u \in DOMAIN catalog.tables /\ catalog'.tables[u].first = catalog.tables[u].first
  BY DEF RewriteEffect, SameTables
<1>4. ASSUME NEW p \in 0..(FileSize - 1)
      PROVE  /\ mem'[p].next = mem[p].next
             /\ disk'[p].next = mem'[p].next \/ (p \in dirty' /\ disk'[p].next = NoPage)
  <2>1. mem'[p].next = mem[p].next
    BY DEF RewriteEffect, Rewrites
  <2> QED BY <1>2, <2>1, LinkFacts
<1>5. /\ DOMAIN heaps' \subseteq DOMAIN catalog'.tables
      /\ heaps' = [u \in DOMAIN heaps' |-> PagesOf(u)]
  BY <1>2, <1>3, HeapPut
<1>6. kept' = [u \in Tables |-> kept'[u]]
  <2>1. kept = [u \in Tables |-> kept[u]]
    BY LinkFacts
  <2> QED BY <1>2, <2>1
<1>7. disk' \in [0..(FileSize - 1) -> HeapPage]
  BY <1>1, <1>2
<1> QED BY <1>2, <1>3, <1>4, <1>5, <1>6, <1>7, LinksKept

(* A row that is put into an existing page changes no link.                  *)
LEMMA PutKeepsStorage ==
    ASSUME StorageInv, NEW t \in DOMAIN catalog.tables, NEW row, InsertEffect(t, row),
           NEW p, NEW s, PutEffect(t, row, p, s)
    PROVE  StorageInv' /\ SameChains
<1>1. FileSize \in Nat /\ disk \in [0..(FileSize - 1) -> HeapPage]
  BY FileFacts
<1>2. /\ mem' \in [0..(FileSize - 1) -> HeapPage] /\ disk' = disk
      /\ dirty' = dirty \union {p} /\ heaps' = Put(heaps, t, PagesOf(t))
      /\ p \in 0..(FileSize - 1)
  BY ChainFacts DEF PutEffect
<1>3. /\ kept' = kept /\ IsCatalog(catalog', 0..(FileSize - 1))
      /\ catalogFile' \in {catalog', Torn}
      /\ DOMAIN catalog'.tables = DOMAIN catalog.tables
      /\ \A u \in DOMAIN catalog'.tables:
            u \in DOMAIN catalog.tables /\ catalog'.tables[u].first = catalog.tables[u].first
  BY DEF InsertEffect
<1>4. ASSUME NEW q \in 0..(FileSize - 1)
      PROVE  /\ mem'[q].next = mem[q].next
             /\ disk'[q].next = mem'[q].next \/ (q \in dirty' /\ disk'[q].next = NoPage)
  <2>1. mem'[q].next = mem[q].next
    BY DEF PutEffect, PutsRow
  <2> QED BY <1>2, <2>1, LinkFacts
<1>5. /\ DOMAIN heaps' \subseteq DOMAIN catalog'.tables
      /\ heaps' = [u \in DOMAIN heaps' |-> PagesOf(u)]
  BY <1>2, <1>3, HeapPut
<1>6. kept' = [u \in Tables |-> kept'[u]] /\ dirty' \subseteq 0..(FileSize - 1)
  BY <1>2, <1>3, LinkFacts
<1>7. disk' \in [0..(FileSize - 1) -> HeapPage]
  BY <1>1, <1>2
<1> QED BY <1>2, <1>3, <1>4, <1>5, <1>6, <1>7, LinksKept

(* An eviction writes one page, or drops it from the pool: each link is on   *)
(* disk or on a dirty page.                                                  *)
LEMMA EvictKeepsStorage ==
    ASSUME StorageInv, NEW p \in DOMAIN mem, Evict(p)
    PROVE  StorageInv' /\ SameChains
<1>1. /\ FileSize \in Nat /\ mem \in [0..(FileSize - 1) -> HeapPage]
      /\ disk \in [0..(FileSize - 1) -> HeapPage] /\ p \in 0..(FileSize - 1)
  BY FileFacts
<1>2. /\ \/ p \in dirty /\ disk' = [disk EXCEPT ![p] = mem[p]] /\ dirty' = dirty \ {p} /\ mem' = mem
         \/ p \notin dirty /\ mem' = [mem EXCEPT ![p] = disk[p]] /\ disk' = disk /\ dirty' = dirty
      /\ UNCHANGED <<catalog, catalogFile, heaps, kept>>
  BY DEF Evict, MayRevert
<1>3. mem' \in [0..(FileSize - 1) -> HeapPage] /\ disk' \in [0..(FileSize - 1) -> HeapPage]
  BY <1>1, <1>2
<1>4. ASSUME NEW q \in 0..(FileSize - 1)
      PROVE  /\ mem'[q].next = mem[q].next
             /\ disk'[q].next = mem'[q].next \/ (q \in dirty' /\ disk'[q].next = NoPage)
  <2>1. disk[q].next = mem[q].next \/ (q \in dirty /\ disk[q].next = NoPage)
    BY LinkFacts
  <2>2. CASE q = p
    BY <1>1, <1>2, <2>1, <2>2
  <2>3. CASE q # p
    BY <1>1, <1>2, <2>1, <2>3
  <2> QED BY <2>2, <2>3
<1>5. /\ dirty' \subseteq 0..(FileSize - 1)
      /\ DOMAIN heaps' \subseteq DOMAIN catalog'.tables
      /\ heaps' = [u \in DOMAIN heaps' |-> PagesOf(u)]
      /\ kept' = [u \in Tables |-> kept'[u]]
  BY <1>2, LinkFacts
<1>6. /\ IsCatalog(catalog', 0..(FileSize - 1)) /\ catalogFile' \in {catalog', Torn}
      /\ \A u \in DOMAIN catalog'.tables:
            u \in DOMAIN catalog.tables /\ catalog'.tables[u].first = catalog.tables[u].first
  BY <1>2, CatalogFacts
<1> QED BY <1>3, <1>4, <1>5, <1>6, LinksKept

(* A checkpoint writes the dirty pages and the catalog.                      *)
LEMMA CheckpointKeepsStorage ==
    ASSUME StorageInv, Checkpoint
    PROVE  StorageInv' /\ SameChains
<1>1. /\ FileSize \in Nat /\ mem \in [0..(FileSize - 1) -> HeapPage]
      /\ disk \in [0..(FileSize - 1) -> HeapPage] /\ DOMAIN disk = 0..(FileSize - 1)
  BY FileFacts
<1>2. /\ disk' = [p \in 0..(FileSize - 1) |-> IF p \in dirty THEN mem[p] ELSE disk[p]]
      /\ dirty' = {} /\ mem' = mem
      /\ kept' = [t \in Tables |-> IF HasTable(catalog, t) THEN RowsOf(t) ELSE {}]
      /\ UNCHANGED <<catalog, catalogFile, heaps>>
  BY <1>1 DEF Checkpoint, Flushed
<1>3. mem' \in [0..(FileSize - 1) -> HeapPage] /\ disk' \in [0..(FileSize - 1) -> HeapPage]
  BY <1>1, <1>2
<1>4. ASSUME NEW q \in 0..(FileSize - 1)
      PROVE  /\ mem'[q].next = mem[q].next
             /\ disk'[q].next = mem'[q].next \/ (q \in dirty' /\ disk'[q].next = NoPage)
  <2>1. disk[q].next = mem[q].next \/ (q \in dirty /\ disk[q].next = NoPage)
    BY LinkFacts
  <2> QED BY <1>1, <1>2, <2>1
<1>5. /\ dirty' \subseteq 0..(FileSize - 1)
      /\ DOMAIN heaps' \subseteq DOMAIN catalog'.tables
      /\ heaps' = [u \in DOMAIN heaps' |-> PagesOf(u)]
      /\ kept' = [u \in Tables |-> kept'[u]]
  BY <1>2, LinkFacts
<1>6. /\ IsCatalog(catalog', 0..(FileSize - 1)) /\ catalogFile' \in {catalog', Torn}
      /\ \A u \in DOMAIN catalog'.tables:
            u \in DOMAIN catalog.tables /\ catalog'.tables[u].first = catalog.tables[u].first
  BY <1>2, CatalogFacts
<1> QED BY <1>3, <1>4, <1>5, <1>6, LinksKept

(* A file with an empty page more.                                           *)
LEMMA GrownFile ==
    ASSUME NEW n \in Nat, NEW pages \in [0..(n - 1) -> HeapPage]
    PROVE  LET after == Put(pages, n, EmptyPage)
           IN  /\ after \in [0..n -> HeapPage] /\ after[n] = EmptyPage
               /\ \A p \in 0..(n - 1): after[p] = pages[p]
<1>1. 0..n = 0..(n - 1) \union {n} /\ n \notin 0..(n - 1) /\ DOMAIN pages = 0..(n - 1)
  OBVIOUS
<1>2. EmptyPage \in HeapPage
  BY EmptyPageIs
<1> QED BY <1>1, <1>2 DEF Put

(* The only page of a chain.                                                 *)
LEMMA SinglePage ==
    ASSUME NEW n \in Nat, NEW pages \in [0..n -> HeapPage], pages[n].next = NoPage
    PROVE  IsChain(pages, <<n>>, n) /\ ToSet(<<n>>) = {n}
<1>1. n \in DOMAIN pages
  OBVIOUS
<1>2. <<n>> \in Seq(DOMAIN pages) /\ Len(<<n>>) = 1 /\ <<n>>[1] = n
  BY <1>1
<1>3. \A j, k \in 1..Len(<<n>>): <<n>>[j] = <<n>>[k] => j = k
  BY <1>2
<1>4. \A k \in 1..(Len(<<n>>) - 1): FALSE
  BY <1>2
<1>5. ToSet(<<n>>) = {n}
  BY <1>2, LenProperties DEF ToSet
<1> QED BY <1>2, <1>3, <1>4, <1>5 DEF IsChain

(* A chain in a file with one page more.                                     *)
LEMMA ChainOfLarger ==
    ASSUME NEW n \in Nat, NEW pages \in [0..n -> HeapPage], NEW chain, NEW first,
           IsChain(pages, chain, first)
    PROVE  Chain(pages, first) = chain
<1>1. PICK m \in Nat : m = n + 1
  OBVIOUS
<1>2. m - 1 = n
  BY <1>1
<1>3. pages \in [0..(m - 1) -> HeapPage]
  BY <1>2
<1> QED BY <1>3, ChainIs

(* A chain of the file is one of the file with one page more.                *)
LEMMA ChainInLarger ==
    ASSUME NEW n \in Nat, NEW pages \in [0..(n - 1) -> HeapPage], NEW chain, NEW first,
           IsChain(pages, chain, first), NEW other \in [0..n -> HeapPage],
           \A p \in ToSet(chain): other[p].next = pages[p].next
    PROVE  IsChain(other, chain, first) /\ Chain(other, first) = chain
<1>1. PICK m \in Nat : m = n + 1
  OBVIOUS
<1>2. m - 1 = n /\ n <= m
  BY <1>1
<1>3. other \in [0..(m - 1) -> HeapPage]
  BY <1>2
<1>4. IsChain(other, chain, first)
  BY <1>2, <1>3, ChainKept
<1> QED BY <1>4, ChainOfLarger

(* The size of a file with one page more.                                    *)
LEMMA SizeOfLarger ==
    ASSUME NEW n \in Nat, NEW pages \in [0..n -> HeapPage]
    PROVE  Cardinality(DOMAIN pages) = n + 1
<1>1. PICK m \in Nat : m = n + 1
  OBVIOUS
<1>2. m - 1 = n
  BY <1>1
<1>3. pages \in [0..(m - 1) -> HeapPage]
  BY <1>2
<1>4. Cardinality(DOMAIN pages) = m
  BY <1>3, SizeIs
<1> QED BY <1>1, <1>4

(* A page more in the file, which no table had.                              *)
OldChains(t) ==
    /\ FileSize' = FileSize + 1
    /\ \A u \in DOMAIN catalog'.tables \ {t}:
          u \in DOMAIN catalog.tables /\ PagesOf(u)' = PagesOf(u)

(* CREATE TABLE gives the table a page of its own at the end of the file.    *)
LEMMA CreateTableKeepsStorage ==
    ASSUME StorageInv, NEW t \in Tables, CreateTableStatement(t)
    PROVE  /\ StorageInv' /\ OldChains(t) /\ PagesOf(t)' = <<FileSize>>
           /\ t \notin DOMAIN catalog.tables
           /\ mem' \in [0..FileSize -> HeapPage] /\ mem'[FileSize] = EmptyPage
           /\ disk' \in [0..FileSize -> HeapPage] /\ disk'[FileSize] = EmptyPage
           /\ \A p \in 0..(FileSize - 1): mem'[p] = mem[p] /\ disk'[p] = disk[p]
           /\ dirty' = dirty \union {FileSize}
           /\ DOMAIN catalog'.tables = DOMAIN catalog.tables \union {t}
           /\ \A u \in DOMAIN catalog.tables: catalog'.tables[u] = catalog.tables[u]
           /\ catalog'.indexes = catalog.indexes \union {PrimaryKey(t)}
<1>1. PICK n \in Nat : n = FileSize
  BY FileFacts
<1>2. /\ mem \in [0..(n - 1) -> HeapPage] /\ disk \in [0..(n - 1) -> HeapPage]
      /\ Cardinality(DOMAIN mem) = n /\ Cardinality(DOMAIN disk) = n
  BY <1>1, FileFacts
<1> DEFINE created == CreateTable(catalog, t, n)
           named == CreateIndex(created, PrimaryKey(t))
<1>3. /\ t \notin DOMAIN catalog.tables
      /\ mem' = Put(mem, n, EmptyPage) /\ disk' = Put(disk, n, EmptyPage)
      /\ dirty' = dirty \union {n} /\ heaps' = Put(heaps, t, <<n>>) /\ kept' = kept
      /\ catalog' = named /\ catalogFile' = named
  BY <1>2 DEF CreateTableStatement, Grown, Save, TableCreated, HasTable
<1>4. /\ mem' \in [0..n -> HeapPage] /\ mem'[n] = EmptyPage
      /\ \A p \in 0..(n - 1): mem'[p] = mem[p]
      /\ disk' \in [0..n -> HeapPage] /\ disk'[n] = EmptyPage
      /\ \A p \in 0..(n - 1): disk'[p] = disk[p]
  BY <1>2, <1>3, GrownFile
<1>5. n + 1 \in Nat /\ n + 1 - 1 = n /\ n <= n + 1 /\ n \in 0..n /\ n \notin 0..(n - 1)
      /\ 0..(n - 1) \subseteq 0..n /\ 0..n = 0..(n - 1) \union {n}
  OBVIOUS
<1>6. FileSize' = n + 1
  <2>1. Cardinality(DOMAIN mem') = n + 1
    BY <1>4, SizeOfLarger
  <2> QED BY <2>1 DEF FileSize
<1>7. /\ IsCatalog(named, 0..n) /\ named.indexes = catalog.indexes \union {PrimaryKey(t)}
      /\ DOMAIN named.tables = DOMAIN catalog.tables \union {t}
      /\ named.tables[t].first = n
      /\ \A u \in DOMAIN catalog.tables: named.tables[u] = catalog.tables[u]
  <2>1. PICK d : d = created
    OBVIOUS
  <2>2. /\ IsCatalog(d, 0..n) /\ d.indexes = catalog.indexes
        /\ DOMAIN d.tables = DOMAIN catalog.tables \union {t} /\ d.tables[t].first = n
        /\ \A u \in DOMAIN catalog.tables: d.tables[u] = catalog.tables[u]
    <3>1. IsCatalog(catalog, 0..(n - 1))
      BY <1>1, CatalogFacts
    <3>2. IsCatalog(catalog, 0..n)
      BY <1>5, <3>1 DEF IsCatalog, IsTable
    <3> QED BY <1>3, <1>5, <2>1, <3>2, CreateTableGives
  <2>3. PrimaryKey(t) \in IndexNames
    BY DEF PrimaryKey, Index, IndexNames
  <2>4. PICK e : e = CreateIndex(d, PrimaryKey(t))
    OBVIOUS
  <2>5. /\ IsCatalog(e, 0..n) /\ e.tables = d.tables
        /\ e.indexes = d.indexes \union {PrimaryKey(t)}
    BY <2>2, <2>3, <2>4, CreateIndexGives
  <2> QED BY <2>1, <2>2, <2>4, <2>5
<1> HIDE DEF created, named
<1>8. ASSUME NEW u \in DOMAIN catalog.tables
      PROVE  /\ PagesOf(u)' = PagesOf(u) /\ IsChain(mem', PagesOf(u), First(u)')
             /\ ToSet(PagesOf(u)) \subseteq 0..(n - 1)
  <2>1. /\ IsChain(mem, PagesOf(u), First(u)) /\ ToSet(PagesOf(u)) \subseteq 0..(n - 1)
    BY <1>1, ChainFacts
  <2>2. First(u)' = First(u)
    BY <1>3, <1>7 DEF First
  <2>3. \A p \in ToSet(PagesOf(u)): mem'[p].next = mem[p].next
    BY <1>4, <2>1
  <2>4. PICK chain : chain = PagesOf(u)
    OBVIOUS
  <2>5. PICK first : first = First(u)
    OBVIOUS
  <2>6. IsChain(mem, chain, first) /\ \A p \in ToSet(chain): mem'[p].next = mem[p].next
    BY <2>1, <2>3, <2>4, <2>5
  <2>7. IsChain(mem', chain, first) /\ Chain(mem', first) = chain
    BY <1>2, <1>4, <2>6, ChainInLarger
  <2> QED BY <2>1, <2>2, <2>4, <2>5, <2>7 DEF PagesOf
<1>9. PagesOf(t)' = <<n>> /\ IsChain(mem', <<n>>, First(t)') /\ ToSet(<<n>>) = {n}
  <2>1. First(t)' = n
    BY <1>3, <1>7 DEF First
  <2>2. IsChain(mem', <<n>>, n) /\ ToSet(<<n>>) = {n}
    BY <1>4, EmptyPageIs, SinglePage
  <2>4. Chain(mem', n) = <<n>>
    BY <1>4, <2>2, ChainOfLarger
  <2> QED BY <2>1, <2>2, <2>4 DEF PagesOf
<1>10. ChainsInMemory'
  <2>1. ASSUME NEW u \in DOMAIN catalog'.tables PROVE IsChain(mem', PagesOf(u)', First(u)')
    BY <1>3, <1>7, <1>8, <1>9
  <2>2. ASSUME NEW u \in DOMAIN catalog'.tables, NEW v \in DOMAIN catalog'.tables, u # v
        PROVE  ToSet(PagesOf(u)') \intersect ToSet(PagesOf(v)') = {}
    <3>1. CASE u \in DOMAIN catalog.tables /\ v \in DOMAIN catalog.tables
      <4>1. ToSet(PagesOf(u)) \intersect ToSet(PagesOf(v)) = {}
        BY <2>2, <3>1 DEF StorageInv, ChainsInMemory
      <4> QED BY <1>8, <3>1, <4>1
    <3>2. CASE u \in DOMAIN catalog.tables /\ v = t
      BY <1>5, <1>8, <1>9, <3>2
    <3>3. CASE u = t /\ v \in DOMAIN catalog.tables
      BY <1>5, <1>8, <1>9, <3>3
    <3> QED BY <1>3, <1>7, <2>2, <3>1, <3>2, <3>3
  <2> QED BY <2>1, <2>2 DEF ChainsInMemory
<1>11. FileIsTyped'
  <2>1. dirty' \subseteq 0..n
    BY <1>1, <1>3, <1>5, LinkFacts
  <2>2. FileSize' - 1 = n /\ FileSize' \in Nat
    BY <1>5, <1>6
  <2> QED BY <1>4, <2>1, <2>2 DEF FileIsTyped
<1>12. CatalogIsTyped'
  <2>1. FileSize' - 1 = n
    BY <1>5, <1>6
  <2> QED BY <1>3, <1>7, <2>1 DEF CatalogIsTyped
<1>13. Links'
  <2>1. DOMAIN mem' = 0..n
    BY <1>4
  <2>2. ASSUME NEW p \in 0..n
        PROVE  disk'[p].next = mem'[p].next \/ (p \in dirty' /\ disk'[p].next = NoPage)
    <3>1. CASE p = n
      BY <1>4, <3>1
    <3>2. CASE p # n
      <4>1. p \in 0..(n - 1)
        BY <3>2
      <4>2. disk[p].next = mem[p].next \/ (p \in dirty /\ disk[p].next = NoPage)
        BY <1>1, <4>1, LinkFacts
      <4> QED BY <1>3, <1>4, <4>1, <4>2
    <3> QED BY <3>1, <3>2
  <2> QED BY <2>1, <2>2 DEF Links
<1>14. HeapsAreChains'
  <2>1. /\ DOMAIN heaps \subseteq DOMAIN catalog.tables
        /\ \A u \in DOMAIN heaps: heaps[u] = PagesOf(u)
    BY LinkFacts
  <2>2. DOMAIN heaps' \subseteq DOMAIN catalog'.tables
    BY <1>3, <1>7, <2>1 DEF Put
  <2>3. heaps' = [u \in DOMAIN heaps' |-> PagesOf(u)']
    <3>1. DOMAIN heaps' = DOMAIN heaps \union {t}
          /\ heaps' = [u \in DOMAIN heaps \union {t} |-> IF u = t THEN <<n>> ELSE heaps[u]]
      BY <1>3 DEF Put
    <3>2. \A u \in DOMAIN heaps \union {t}: (IF u = t THEN <<n>> ELSE heaps[u]) = PagesOf(u)'
      BY <1>8, <1>9, <2>1
    <3> QED BY <3>1, <3>2
  <2> QED BY <2>2, <2>3 DEF HeapsAreChains
<1>15. KeptIsTyped'
  BY <1>3, LinkFacts DEF KeptIsTyped
<1>16. StorageInv'
  BY <1>10, <1>11, <1>12, <1>13, <1>14, <1>15 DEF StorageInv
<1>17. OldChains(t)
  BY <1>1, <1>3, <1>6, <1>7, <1>8 DEF OldChains
<1> QED BY <1>1, <1>3, <1>4, <1>7, <1>9, <1>16, <1>17

(* INSERT into a new page of the chain.                                      *)
LEMMA AppendKeepsStorage ==
    ASSUME StorageInv, NEW t \in DOMAIN catalog.tables, NEW row, InsertEffect(t, row),
           NEW page, AppendEffect(t, page)
    PROVE  /\ StorageInv' /\ OldChains(t) /\ PagesOf(t)' = Append(PagesOf(t), FileSize)
           /\ ToSet(PagesOf(t)') = ToSet(PagesOf(t)) \union {FileSize}
           /\ Last(PagesOf(t)) \in ToSet(PagesOf(t))
           /\ mem' \in [0..FileSize -> HeapPage] /\ mem'[FileSize] = page
           /\ disk' \in [0..FileSize -> HeapPage] /\ disk'[FileSize] = EmptyPage
           /\ \A p \in 0..(FileSize - 1):
                 /\ mem'[p].slots = mem[p].slots /\ disk'[p] = disk[p]
                 /\ p # Last(PagesOf(t)) => mem'[p] = mem[p]
<1>1. PICK n \in Nat : n = FileSize
  BY FileFacts
<1>2. /\ mem \in [0..(n - 1) -> HeapPage] /\ disk \in [0..(n - 1) -> HeapPage]
  BY <1>1, FileFacts
<1>3. /\ page \in HeapPage /\ page.next = NoPage
      /\ mem' = [Extended(mem, PagesOf(t), n) EXCEPT ![n] = page]
      /\ disk' = Put(disk, n, EmptyPage)
      /\ dirty' = dirty \union {n, Last(PagesOf(t))}
      /\ heaps' = Put(heaps, t, Append(PagesOf(t), n))
  BY <1>1 DEF AppendEffect
<1>4. /\ kept' = kept /\ IsCatalog(catalog', 0..(n - 1))
      /\ catalogFile' \in {catalog', Torn}
      /\ DOMAIN catalog'.tables = DOMAIN catalog.tables
      /\ \A u \in DOMAIN catalog'.tables:
            u \in DOMAIN catalog.tables /\ catalog'.tables[u].first = catalog.tables[u].first
  BY <1>1 DEF InsertEffect
<1>5. /\ PagesOf(t) \in Seq(0..(n - 1)) /\ IsChain(mem, PagesOf(t), First(t))
      /\ Len(PagesOf(t)) \in 1..Len(PagesOf(t)) /\ ToSet(PagesOf(t)) \subseteq 0..(n - 1)
  BY <1>1, ChainFacts
<1>6. PICK last : last = Last(PagesOf(t))
  OBVIOUS
<1>7. last \in 0..(n - 1) /\ last \in ToSet(PagesOf(t)) /\ mem[last].next = NoPage
  <2>1. last = PagesOf(t)[Len(PagesOf(t))]
    BY <1>6 DEF Last
  <2>2. last \in ToSet(PagesOf(t))
    BY <1>5, <2>1, ToSetParts
  <2> QED BY <1>5, <2>1, <2>2 DEF IsChain
<1>8. /\ mem' \in [0..n -> HeapPage] /\ mem'[n] = page
      /\ mem'[last] = [mem[last] EXCEPT !.next = n]
      /\ \A q \in 0..(n - 1): q # last => mem'[q] = mem[q]
  BY <1>2, <1>3, <1>6, <1>7, ExtendedFile
<1>9. /\ disk' \in [0..n -> HeapPage] /\ disk'[n] = EmptyPage
      /\ \A p \in 0..(n - 1): disk'[p] = disk[p]
  BY <1>2, <1>3, GrownFile
<1>10. mem'[last].next = n /\ mem'[last].slots = mem[last].slots
  <2>1. PICK x \in HeapPage : x = mem[last]
    BY <1>2, <1>7
  <2>2. [x EXCEPT !.next = n].next = n /\ [x EXCEPT !.next = n].slots = x.slots
    BY DEF HeapPage
  <2> QED BY <1>8, <2>1, <2>2
<1>11. n + 1 \in Nat /\ n + 1 - 1 = n /\ n <= n + 1 /\ n \in 0..n /\ n \notin 0..(n - 1)
       /\ 0..(n - 1) \subseteq 0..n /\ 0..n = 0..(n - 1) \union {n}
  OBVIOUS
<1>12. FileSize' = n + 1
  <2>1. Cardinality(DOMAIN mem') = n + 1
    BY <1>8, SizeOfLarger
  <2> QED BY <2>1 DEF FileSize
<1>13. \A u \in DOMAIN catalog.tables: First(u)' = First(u)
  BY <1>4 DEF First
<1>14. ASSUME NEW u \in DOMAIN catalog.tables, u # t
       PROVE  /\ PagesOf(u)' = PagesOf(u) /\ IsChain(mem', PagesOf(u), First(u)')
              /\ ToSet(PagesOf(u)) \subseteq 0..(n - 1)
              /\ ToSet(PagesOf(u)) \intersect ToSet(PagesOf(t)) = {}
  <2>1. /\ IsChain(mem, PagesOf(u), First(u)) /\ ToSet(PagesOf(u)) \subseteq 0..(n - 1)
    BY <1>1, ChainFacts
  <2>2. ToSet(PagesOf(u)) \intersect ToSet(PagesOf(t)) = {}
    BY <1>14 DEF StorageInv, ChainsInMemory
  <2>3. \A p \in ToSet(PagesOf(u)): mem'[p].next = mem[p].next
    BY <1>7, <1>8, <2>1, <2>2
  <2>4. PICK chain : chain = PagesOf(u)
    OBVIOUS
  <2>5. PICK first : first = First(u)
    OBVIOUS
  <2>6. IsChain(mem, chain, first) /\ \A p \in ToSet(chain): mem'[p].next = mem[p].next
    BY <2>1, <2>3, <2>4, <2>5
  <2>7. IsChain(mem', chain, first) /\ Chain(mem', first) = chain
    BY <1>2, <1>8, <2>6, ChainInLarger
  <2> QED BY <1>13, <2>1, <2>2, <2>4, <2>5, <2>7 DEF PagesOf
<1>15. /\ PagesOf(t)' = Append(PagesOf(t), n)
       /\ IsChain(mem', Append(PagesOf(t), n), First(t)')
       /\ ToSet(Append(PagesOf(t), n)) = ToSet(PagesOf(t)) \union {n}
  <2>1. \A p \in ToSet(PagesOf(t)): p # Last(PagesOf(t)) => mem'[p].next = mem[p].next
    BY <1>5, <1>6, <1>8
  <2>2. mem'[Last(PagesOf(t))].next = n /\ mem'[n].next = NoPage
    BY <1>3, <1>6, <1>8, <1>10
  <2>3. PICK chain : chain = PagesOf(t)
    OBVIOUS
  <2>4. PICK first : first = First(t)
    OBVIOUS
  <2>5. IsChain(mem, chain, first)
    BY <1>5, <2>3, <2>4
  <2>6. \A p \in ToSet(chain): p # Last(chain) => mem'[p].next = mem[p].next
    BY <2>1, <2>3
  <2>7. mem'[Last(chain)].next = n /\ mem'[n].next = NoPage
    BY <2>2, <2>3
  <2>8. /\ IsChain(mem', Append(chain, n), first)
        /\ ToSet(Append(chain, n)) = ToSet(chain) \union {n}
    BY <1>2, <1>8, <2>5, <2>6, <2>7, ChainExtended
  <2>9. Chain(mem', first) = Append(chain, n)
    BY <1>8, <2>8, ChainOfLarger
  <2> QED BY <1>13, <2>3, <2>4, <2>8, <2>9 DEF PagesOf
<1>16. ChainsInMemory'
  <2>1. ASSUME NEW u \in DOMAIN catalog'.tables PROVE IsChain(mem', PagesOf(u)', First(u)')
    BY <1>4, <1>14, <1>15
  <2>2. ASSUME NEW u \in DOMAIN catalog'.tables, NEW v \in DOMAIN catalog'.tables, u # v
        PROVE  ToSet(PagesOf(u)') \intersect ToSet(PagesOf(v)') = {}
    <3>1. CASE u # t /\ v # t
      <4>1. ToSet(PagesOf(u)) \intersect ToSet(PagesOf(v)) = {}
        BY <1>4, <2>2, <3>1 DEF StorageInv, ChainsInMemory
      <4> QED BY <1>4, <1>14, <3>1, <4>1
    <3>2. CASE u # t /\ v = t
      BY <1>4, <1>11, <1>14, <1>15, <3>2
    <3>3. CASE u = t /\ v # t
      BY <1>4, <1>11, <1>14, <1>15, <3>3
    <3> QED BY <2>2, <3>1, <3>2, <3>3
  <2> QED BY <2>1, <2>2 DEF ChainsInMemory
<1>17. FileIsTyped'
  <2>1. dirty' \subseteq 0..n
    BY <1>1, <1>3, <1>6, <1>7, <1>11, LinkFacts
  <2>2. FileSize' - 1 = n /\ FileSize' \in Nat
    BY <1>11, <1>12
  <2> QED BY <1>8, <1>9, <2>1, <2>2 DEF FileIsTyped
<1>18. CatalogIsTyped'
  <2>1. FileSize' - 1 = n
    BY <1>11, <1>12
  <2>2. IsCatalog(catalog', 0..n)
    BY <1>4, <1>11 DEF IsCatalog, IsTable
  <2> QED BY <1>4, <2>1, <2>2 DEF CatalogIsTyped
<1>19. Links'
  <2>1. DOMAIN mem' = 0..n
    BY <1>8
  <2>2. ASSUME NEW p \in 0..n
        PROVE  disk'[p].next = mem'[p].next \/ (p \in dirty' /\ disk'[p].next = NoPage)
    <3>1. CASE p = n
      BY <1>3, <1>8, <1>9, <3>1, EmptyPageIs
    <3>2. CASE p # n
      <4>1. p \in 0..(n - 1)
        BY <3>2
      <4>2. disk[p].next = mem[p].next \/ (p \in dirty /\ disk[p].next = NoPage)
        BY <1>1, <4>1, LinkFacts
      <4>3. CASE p = last
        BY <1>3, <1>6, <1>7, <1>9, <4>1, <4>2, <4>3
      <4>4. CASE p # last
        BY <1>3, <1>8, <1>9, <4>1, <4>2, <4>4
      <4> QED BY <4>3, <4>4
    <3> QED BY <3>1, <3>2
  <2> QED BY <2>1, <2>2 DEF Links
<1>20. HeapsAreChains'
  <2>1. /\ DOMAIN heaps \subseteq DOMAIN catalog.tables
        /\ \A u \in DOMAIN heaps: heaps[u] = PagesOf(u)
    BY LinkFacts
  <2>2. DOMAIN heaps' \subseteq DOMAIN catalog'.tables
    BY <1>3, <1>4, <2>1 DEF Put
  <2>3. heaps' = [u \in DOMAIN heaps' |-> PagesOf(u)']
    <3>1. /\ DOMAIN heaps' = DOMAIN heaps \union {t}
          /\ heaps' = [u \in DOMAIN heaps \union {t} |->
                          IF u = t THEN Append(PagesOf(t), n) ELSE heaps[u]]
      BY <1>3 DEF Put
    <3>2. \A u \in DOMAIN heaps \union {t}:
             (IF u = t THEN Append(PagesOf(t), n) ELSE heaps[u]) = PagesOf(u)'
      BY <1>14, <1>15, <2>1
    <3> QED BY <3>1, <3>2
  <2> QED BY <2>2, <2>3 DEF HeapsAreChains
<1>21. KeptIsTyped'
  BY <1>4, LinkFacts DEF KeptIsTyped
<1>22. StorageInv'
  BY <1>16, <1>17, <1>18, <1>19, <1>20, <1>21 DEF StorageInv
<1>23. OldChains(t)
  BY <1>1, <1>4, <1>12, <1>14 DEF OldChains
<1>24. \A p \in 0..(n - 1): mem'[p].slots = mem[p].slots
  BY <1>8, <1>10
<1> QED BY <1>1, <1>6, <1>7, <1>8, <1>9, <1>15, <1>22, <1>23, <1>24

----------------------------------------------------------------------------
(* The chain of a table on disk, and what a restart finds.                   *)

(* The chain on disk is that in memory up to its k-th page.                  *)
IsCutAt(t, k) ==
    /\ k \in 1..Len(PagesOf(t)) /\ IsCut(disk, PagesOf(t), First(t), k)
    /\ Reached(mem, disk, PagesOf(t), k)
    /\ \A l \in 1..Len(PagesOf(t)): Reached(mem, disk, PagesOf(t), l) => l <= k

CutOf(t, k) == SubSeq(PagesOf(t), 1, k)

(* After a crash the chain of a table is cut at the first link that is not on*)
(* disk.                                                                     *)
LEMMA DiskIsCut ==
    ASSUME StorageInv, NEW t \in DOMAIN catalog.tables
    PROVE  \E k \in Nat: IsCutAt(t, k)
<1>1. PICK n \in Nat : n = FileSize
  BY FileFacts
<1>2. mem \in [0..(n - 1) -> HeapPage] /\ disk \in [0..(n - 1) -> HeapPage]
  BY <1>1, FileFacts
<1>3. PICK chain, first : chain = PagesOf(t) /\ first = First(t)
  OBVIOUS
<1>4. IsChain(mem, chain, first) /\ Len(chain) \in Nat
  BY <1>3, ChainFacts
<1>5. LinksAgree(mem, disk)
  BY <1>1, <1>2, LinkFacts DEF LinksAgree
<1>6. PICK k \in 1..Len(chain) :
          /\ IsCut(disk, chain, first, k) /\ Reached(mem, disk, chain, k)
          /\ \A l \in 1..Len(chain): Reached(mem, disk, chain, l) => l <= k
  BY <1>2, <1>4, <1>5, ChainOnDisk
<1>7. k \in Nat
  BY <1>4
<1>8. IsCutAt(t, k)
  BY <1>3, <1>6 DEF IsCutAt
<1> QED BY <1>7, <1>8

(* The pages of such a chain are pages of the table.                         *)
LEMMA CutParts ==
    ASSUME StorageInv, NEW t \in DOMAIN catalog.tables, NEW k \in Nat, IsCutAt(t, k)
    PROVE  /\ IsChain(disk, CutOf(t, k), First(t)) /\ Chain(disk, First(t)) = CutOf(t, k)
           /\ Len(CutOf(t, k)) = k /\ k \in 1..Len(PagesOf(t))
           /\ \A j \in 1..k: CutOf(t, k)[j] = PagesOf(t)[j] /\ j \in 1..Len(PagesOf(t))
           /\ ToSet(CutOf(t, k)) \subseteq ToSet(PagesOf(t))
           /\ ToSet(CutOf(t, k)) \subseteq 0..(FileSize - 1)
<1>1. PICK n \in Nat : n = FileSize
  BY FileFacts
<1>2. disk \in [0..(n - 1) -> HeapPage]
  BY <1>1, FileFacts
<1>3. PICK first : first = First(t)
  OBVIOUS
<1>4. PICK cut : cut = CutOf(t, k)
  OBVIOUS
<1>5. /\ IsChain(disk, cut, first) /\ Len(cut) = k /\ k \in 1..Len(PagesOf(t))
      /\ \A j \in 1..k: cut[j] = PagesOf(t)[j]
  BY <1>3, <1>4 DEF IsCutAt, IsCut, CutOf
<1>6. Chain(disk, first) = cut
  BY <1>2, <1>5, ChainIs
<1>7. /\ PagesOf(t) \in Seq(0..(FileSize - 1)) /\ Len(PagesOf(t)) \in Nat
      /\ ToSet(PagesOf(t)) \subseteq 0..(FileSize - 1)
  BY ChainFacts
<1>8. \A j \in 1..k: j \in 1..Len(PagesOf(t))
  BY <1>5, <1>7
<1>9. \A p \in ToSet(cut): p \in ToSet(PagesOf(t))
  <2>1. cut \in Seq(DOMAIN disk)
    BY <1>5 DEF IsChain
  <2>2. \A p \in ToSet(cut): \E j \in 1..k: p = cut[j]
    BY <1>5, <2>1, ToSetParts
  <2>3. \A j \in 1..Len(PagesOf(t)): PagesOf(t)[j] \in ToSet(PagesOf(t))
    BY <1>7, ToSetParts
  <2> QED BY <1>5, <1>8, <2>2, <2>3
<1> QED BY <1>3, <1>4, <1>5, <1>6, <1>7, <1>8, <1>9

(* What a catalog file can say after a crash: the tables of the catalog, with *)
(* counters that are not behind, and at most one more, on the page that the  *)
(* file has grown by.                                                        *)
IsLater(file, n) ==
    /\ IsCatalog(file, 0..(n - 1)) /\ DOMAIN catalog.tables \subseteq DOMAIN file.tables
    /\ \A t \in DOMAIN catalog.tables:
          /\ file.tables[t].first = catalog.tables[t].first
          /\ catalog.tables[t].auto <= file.tables[t].auto
    /\ \A t, u \in DOMAIN file.tables \ DOMAIN catalog.tables:
          t = u /\ file.tables[t].first = FileSize /\ n = FileSize + 1

(* What a restart leaves of a table: the chain on disk, its rows and counter, *)
(* or a page that was empty.                                                 *)
IsReopened(t) ==
    \/ /\ t \in DOMAIN catalog.tables /\ catalog.tables[t].auto <= catalog'.tables[t].auto
       /\ \E k \in Nat: IsCutAt(t, k) /\ PagesOf(t)' = CutOf(t, k)
    \/ /\ t \notin DOMAIN catalog.tables
       /\ PagesOf(t)' = <<FileSize>> /\ mem'[FileSize] = EmptyPage

AfterRestart ==
    /\ mem' = disk' /\ dirty' = {} /\ heaps' = <<>> /\ indexes' = <<>>
    /\ DOMAIN mem \subseteq DOMAIN mem'
    /\ \A p \in 0..(FileSize - 1): mem'[p] = disk[p]
    /\ \A t \in DOMAIN catalog'.tables: IsReopened(t)
    /\ \/ kept' = [t \in Tables |-> {}]
       \/ kept' = kept /\ DOMAIN catalog.tables \subseteq DOMAIN catalog'.tables

(* Opening the files that a crash left.                                      *)
LEMMA RestartKeepsStorage ==
    ASSUME StorageInv, NEW n, n \in {FileSize, FileSize + 1},
           NEW pages \in [0..(n - 1) -> HeapPage],
           \A p \in 0..(FileSize - 1): pages[p] = disk[p],
           n = FileSize + 1 => pages[FileSize] = EmptyPage,
           NEW file, file = Torn \/ IsLater(file, n), Restart(pages, file)
    PROVE  StorageInv' /\ AfterRestart
<1>1. PICK m \in Nat : m = FileSize
  BY FileFacts
<1>2. n \in Nat /\ m <= n /\ n \in {m, m + 1} /\ 0..(m - 1) \subseteq 0..(n - 1)
  BY <1>1
<1>3. /\ mem' = pages /\ disk' = pages /\ dirty' = {} /\ heaps' = <<>> /\ indexes' = <<>>
      /\ catalogFile' = file /\ catalog' = Load(file)
      /\ kept' = IF file = Torn THEN [t \in Tables |-> {}] ELSE kept
  BY DEF Restart
<1>4. /\ mem \in [0..(m - 1) -> HeapPage] /\ disk \in [0..(m - 1) -> HeapPage]
      /\ DOMAIN mem = 0..(m - 1)
  BY <1>1, FileFacts
<1>5. FileSize' = n
  <2>1. Cardinality(DOMAIN pages) = n
    BY <1>2, SizeIs
  <2> QED BY <1>3, <2>1 DEF FileSize
<1>6. /\ IsCatalog(catalog', 0..(n - 1)) /\ catalogFile' \in {catalog', Torn}
      /\ file # Torn => catalog' = file /\ IsLater(file, n)
      /\ file = Torn => DOMAIN catalog'.tables = {}
  <2>1. file = Torn \/ IsCatalog(file, 0..(n - 1))
    BY DEF IsLater
  <2>2. IsCatalog(Load(file), 0..(n - 1)) /\ file \in {Load(file), Torn}
        /\ (file # Torn => Load(file) = file)
        /\ (file = Torn => DOMAIN Load(file).tables = {})
    BY <2>1, LoadGives
  <2> QED BY <1>3, <2>2
<1>7. ASSUME NEW t \in DOMAIN catalog'.tables, t \in DOMAIN catalog.tables
      PROVE  /\ catalog.tables[t].auto <= catalog'.tables[t].auto
             /\ \E k \in Nat: IsCutAt(t, k) /\ PagesOf(t)' = CutOf(t, k)
             /\ IsChain(mem', PagesOf(t)', First(t)')
             /\ ToSet(PagesOf(t)') \subseteq ToSet(PagesOf(t))
             /\ ToSet(PagesOf(t)') \subseteq 0..(m - 1)
  <2>1. PICK k \in Nat : IsCutAt(t, k)
    BY <1>7, DiskIsCut
  <2>2. PICK first : first = First(t)
    OBVIOUS
  <2>3. PICK cut : cut = CutOf(t, k)
    OBVIOUS
  <2>4. /\ IsChain(disk, cut, first) /\ ToSet(cut) \subseteq ToSet(PagesOf(t))
        /\ ToSet(cut) \subseteq 0..(m - 1)
    BY <1>1, <1>7, <2>1, <2>2, <2>3, CutParts
  <2>5. \A p \in ToSet(cut): pages[p].next = disk[p].next
    BY <1>1, <2>4
  <2>6. IsChain(pages, cut, first)
    BY <1>2, <1>4, <2>4, <2>5, ChainKept
  <2>7. Chain(pages, first) = cut
    BY <1>2, <2>6, ChainIs
  <2>8. First(t)' = first /\ catalog.tables[t].auto <= catalog'.tables[t].auto
    BY <1>6, <1>7, <2>2 DEF First, IsLater
  <2>9. PagesOf(t)' = cut
    BY <1>3, <2>7, <2>8 DEF PagesOf
  <2> QED BY <1>3, <2>1, <2>3, <2>4, <2>6, <2>8, <2>9
<1>8. ASSUME NEW t \in DOMAIN catalog'.tables, t \notin DOMAIN catalog.tables
      PROVE  /\ PagesOf(t)' = <<m>> /\ mem'[m] = EmptyPage
             /\ IsChain(mem', PagesOf(t)', First(t)') /\ ToSet(PagesOf(t)') = {m}
             /\ \A u \in DOMAIN catalog'.tables: u \notin DOMAIN catalog.tables => u = t
  <2>1. /\ First(t)' = m /\ n = m + 1
        /\ \A u \in DOMAIN catalog'.tables: u \notin DOMAIN catalog.tables => u = t
    BY <1>1, <1>6, <1>8 DEF First, IsLater
  <2>2. n - 1 = m
    BY <2>1
  <2>3. pages \in [0..m -> HeapPage] /\ pages[m] = EmptyPage
    BY <1>1, <2>1, <2>2
  <2>4. IsChain(pages, <<m>>, m) /\ ToSet(<<m>>) = {m}
    BY <2>3, EmptyPageIs, SinglePage
  <2>5. Chain(pages, m) = <<m>>
    BY <2>3, <2>4, ChainOfLarger
  <2> QED BY <1>3, <2>1, <2>3, <2>4, <2>5 DEF PagesOf
<1>9. ChainsInMemory'
  <2>1. ASSUME NEW t \in DOMAIN catalog'.tables PROVE IsChain(mem', PagesOf(t)', First(t)')
    BY <1>7, <1>8
  <2>2. ASSUME NEW t \in DOMAIN catalog'.tables, NEW u \in DOMAIN catalog'.tables, t # u
        PROVE  ToSet(PagesOf(t)') \intersect ToSet(PagesOf(u)') = {}
    <3>1. m \notin 0..(m - 1)
      OBVIOUS
    <3>2. CASE t \in DOMAIN catalog.tables /\ u \in DOMAIN catalog.tables
      <4>1. ToSet(PagesOf(t)) \intersect ToSet(PagesOf(u)) = {}
        BY <2>2, <3>2 DEF StorageInv, ChainsInMemory
      <4>2. /\ ToSet(PagesOf(t)') \subseteq ToSet(PagesOf(t))
            /\ ToSet(PagesOf(u)') \subseteq ToSet(PagesOf(u))
        BY <1>7, <3>2
      <4> QED BY <4>1, <4>2
    <3>3. CASE t \in DOMAIN catalog.tables /\ u \notin DOMAIN catalog.tables
      <4>1. ToSet(PagesOf(t)') \subseteq 0..(m - 1) /\ ToSet(PagesOf(u)') = {m}
        BY <1>7, <1>8, <3>3
      <4> QED BY <3>1, <4>1
    <3>4. CASE t \notin DOMAIN catalog.tables /\ u \in DOMAIN catalog.tables
      <4>1. ToSet(PagesOf(u)') \subseteq 0..(m - 1) /\ ToSet(PagesOf(t)') = {m}
        BY <1>7, <1>8, <3>4
      <4> QED BY <3>1, <4>1
    <3>5. CASE t \notin DOMAIN catalog.tables /\ u \notin DOMAIN catalog.tables
      BY <1>8, <2>2, <3>5
    <3> QED BY <3>2, <3>3, <3>4, <3>5
  <2> QED BY <2>1, <2>2 DEF ChainsInMemory
<1>10. FileIsTyped'
  BY <1>2, <1>3, <1>5 DEF FileIsTyped
<1>11. CatalogIsTyped'
  BY <1>5, <1>6 DEF CatalogIsTyped
<1>12. Links'
  BY <1>3 DEF Links
<1>13. HeapsAreChains'
  BY <1>3 DEF HeapsAreChains
<1>14. KeptIsTyped'
  BY <1>3, LinkFacts DEF KeptIsTyped
<1>15. StorageInv'
  BY <1>9, <1>10, <1>11, <1>12, <1>13, <1>14 DEF StorageInv
<1>16. \A t \in DOMAIN catalog'.tables: IsReopened(t)
  BY <1>1, <1>7, <1>8 DEF IsReopened
<1>17. kept' = [t \in Tables |-> {}]
       \/ (kept' = kept /\ DOMAIN catalog.tables \subseteq DOMAIN catalog'.tables)
  BY <1>3, <1>6 DEF IsLater
<1>18. DOMAIN mem' = 0..(n - 1)
  BY <1>3
<1>19. AfterRestart
  BY <1>1, <1>2, <1>3, <1>4, <1>16, <1>17, <1>18 DEF AfterRestart
<1> QED BY <1>15, <1>19

(* The files that a crash leaves: one of the size it was, or a page longer.   *)
LEMMA GrownDisk ==
    ASSUME StorageInv, NEW n, n = FileSize + 1
    PROVE  /\ n \in Nat /\ Grown(disk) \in [0..(n - 1) -> HeapPage]
           /\ \A p \in 0..(FileSize - 1): Grown(disk)[p] = disk[p]
           /\ Grown(disk)[FileSize] = EmptyPage
<1>1. PICK m \in Nat : m = FileSize
  BY FileFacts
<1>2. disk \in [0..(m - 1) -> HeapPage] /\ Cardinality(DOMAIN disk) = m
  BY <1>1, FileFacts
<1>3. n \in Nat /\ n - 1 = m
  BY <1>1
<1>4. Grown(disk) = Put(disk, m, EmptyPage)
  BY <1>2 DEF Grown
<1>5. /\ Put(disk, m, EmptyPage) \in [0..m -> HeapPage]
      /\ Put(disk, m, EmptyPage)[m] = EmptyPage
      /\ \A p \in 0..(m - 1): Put(disk, m, EmptyPage)[p] = disk[p]
  BY <1>2, GrownFile
<1> QED BY <1>1, <1>3, <1>4, <1>5

(* The catalog file as it was is one that a crash can leave.                 *)
LEMMA CatalogIsLater ==
    ASSUME StorageInv, NEW n, n \in {FileSize, FileSize + 1}
    PROVE  catalogFile = Torn \/ IsLater(catalogFile, n)
<1>1. PICK m \in Nat : m = FileSize
  BY FileFacts
<1>2. IsCatalog(catalog, 0..(m - 1)) /\ catalogFile \in {catalog, Torn}
  BY <1>1, CatalogFacts
<1>3. 0..(m - 1) \subseteq 0..(n - 1)
  BY <1>1
<1>4. IsCatalog(catalog, 0..(n - 1))
  BY <1>2, <1>3 DEF IsCatalog, IsTable
<1>5. \A t \in DOMAIN catalog.tables: catalog.tables[t].auto <= catalog.tables[t].auto
  <2>1. \A t \in DOMAIN catalog.tables: catalog.tables[t].auto \in 0..MaxAuto
    BY <1>2 DEF IsCatalog, IsTable
  <2> QED BY <2>1
<1>6. IsLater(catalog, n)
  BY <1>4, <1>5 DEF IsLater
<1> QED BY <1>2, <1>6

(* A crash between statements.                                               *)
LEMMA CrashKeepsStorage ==
    ASSUME StorageInv, Crash
    PROVE  StorageInv' /\ AfterRestart
<1>1. PICK n \in Nat : n = FileSize
  BY FileFacts
<1>2. n \in {FileSize, FileSize + 1} /\ n # FileSize + 1
  BY <1>1
<1>3. disk \in [0..(n - 1) -> HeapPage]
  BY <1>1, FileFacts
<1>4. catalogFile = Torn \/ IsLater(catalogFile, n)
  BY <1>2, CatalogIsLater
<1>5. Restart(disk, catalogFile)
  BY DEF Crash
<1> QED BY <1>2, <1>3, <1>4, <1>5, RestartKeepsStorage

(* A crash inside CREATE TABLE.                                              *)
LEMMA CrashInCreateTableKeepsStorage ==
    ASSUME StorageInv, NEW t \in Tables, CrashInCreateTable(t)
    PROVE  StorageInv' /\ AfterRestart
<1>1. PICK m \in Nat : m = FileSize
  BY FileFacts
<1>2. PICK n \in Nat : n = m + 1
  OBVIOUS
<1>3. n = FileSize + 1 /\ n \in {FileSize, FileSize + 1} /\ n - 1 = m
  BY <1>1, <1>2
<1>4. /\ Grown(disk) \in [0..(n - 1) -> HeapPage]
      /\ \A p \in 0..(FileSize - 1): Grown(disk)[p] = disk[p]
      /\ Grown(disk)[FileSize] = EmptyPage
  BY <1>3, GrownDisk
<1>5. t \notin DOMAIN catalog.tables
  BY DEF CrashInCreateTable, HasTable
<1>6. PICK file \in {catalogFile, TableCreated(t), Torn} : Restart(Grown(disk), file)
  BY DEF CrashInCreateTable, FilesOf
<1>7. IsLater(TableCreated(t), n)
  <2>1. PICK d : d = TableCreated(t)
    OBVIOUS
  <2>2. d = CreateTable(catalog, t, m)
    BY <1>1, <2>1 DEF TableCreated, FileSize
  <2>3. IsCatalog(catalog, 0..(m - 1)) /\ 0..(m - 1) \subseteq 0..m /\ m \in 0..m
    BY <1>1, CatalogFacts
  <2>4. IsCatalog(catalog, 0..m)
    BY <2>3 DEF IsCatalog, IsTable
  <2>5. /\ IsCatalog(d, 0..m) /\ DOMAIN d.tables = DOMAIN catalog.tables \union {t}
        /\ d.tables[t].first = m /\ \A u \in DOMAIN catalog.tables: d.tables[u] = catalog.tables[u]
    BY <1>5, <2>2, <2>3, <2>4, CreateTableGives
  <2>6. \A u \in DOMAIN catalog.tables: catalog.tables[u].auto <= d.tables[u].auto
    <3>1. \A u \in DOMAIN catalog.tables: catalog.tables[u].auto \in 0..MaxAuto
      BY <2>4 DEF IsCatalog, IsTable
    <3> QED BY <2>5, <3>1
  <2>7. IsCatalog(d, 0..(n - 1))
    BY <1>3, <2>5
  <2>8. \A u \in DOMAIN d.tables \ DOMAIN catalog.tables: u = t
    BY <2>5
  <2> QED BY <1>1, <1>3, <2>1, <2>5, <2>6, <2>7, <2>8 DEF IsLater
<1>8. file = Torn \/ IsLater(file, n)
  <2>1. catalogFile = Torn \/ IsLater(catalogFile, n)
    BY <1>3, CatalogIsLater
  <2> QED BY <1>6, <1>7, <2>1
<1> QED BY <1>3, <1>4, <1>6, <1>8, RestartKeepsStorage

(* A crash inside INSERT.                                                    *)
LEMMA CrashInInsertKeepsStorage ==
    ASSUME StorageInv, NEW t \in Tables, CrashInInsert(t)
    PROVE  StorageInv' /\ AfterRestart
<1>1. PICK m \in Nat : m = FileSize
  BY FileFacts
<1>2. t \in DOMAIN catalog.tables /\ catalog.tables[t].auto < MaxAuto
  BY DEF CrashInInsert, HasTable
<1>3. PICK file \in {IncrementAutoCounter(catalog, t), Torn} :
          Restart(Grown(disk), file) \/ Restart(disk, file)
  BY DEF CrashInInsert, FilesOf
<1>4. ASSUME NEW n, n \in {FileSize, FileSize + 1}
      PROVE  file = Torn \/ IsLater(file, n)
  <2>1. PICK d : d = IncrementAutoCounter(catalog, t)
    OBVIOUS
  <2>2. IsCatalog(catalog, 0..(m - 1)) /\ 0..(m - 1) \subseteq 0..(n - 1)
    BY <1>1, <1>4, CatalogFacts
  <2>3. IsCatalog(catalog, 0..(n - 1))
    BY <2>2 DEF IsCatalog, IsTable
  <2>4. /\ \A u \in DOMAIN catalog.tables: catalog.tables[u].auto \in 0..MaxAuto
        /\ MaxAuto \in Nat
    BY <2>2, DatabaseAssumption DEF IsCatalog, IsTable
  <2>5. catalog.tables[t].auto + 1 <= MaxAuto
    BY <1>2, <2>4
  <2>6. /\ IsCatalog(d, 0..(n - 1)) /\ DOMAIN d.tables = DOMAIN catalog.tables
        /\ d.tables[t].first = catalog.tables[t].first
        /\ d.tables[t].auto = catalog.tables[t].auto + 1
        /\ \A u \in DOMAIN catalog.tables \ {t}: d.tables[u] = catalog.tables[u]
    BY <1>2, <2>1, <2>3, <2>5, IncrementGives
  <2>7. \A u \in DOMAIN catalog.tables: catalog.tables[u].auto <= d.tables[u].auto
    BY <1>2, <2>4, <2>6
  <2>8. \A u \in DOMAIN catalog.tables: d.tables[u].first = catalog.tables[u].first
    BY <2>6
  <2>9. IsLater(d, n)
    BY <2>6, <2>7, <2>8 DEF IsLater
  <2> QED BY <1>3, <2>1, <2>9
<1>5. CASE Restart(disk, file)
  <2>1. PICK n \in Nat : n = m
    OBVIOUS
  <2>2. n \in {FileSize, FileSize + 1} /\ n # FileSize + 1
    BY <1>1, <2>1
  <2>3. disk \in [0..(n - 1) -> HeapPage]
    BY <1>1, <2>1, FileFacts
  <2> QED BY <1>4, <1>5, <2>2, <2>3, RestartKeepsStorage
<1>6. CASE Restart(Grown(disk), file)
  <2>1. PICK n \in Nat : n = m + 1
    OBVIOUS
  <2>2. n = FileSize + 1 /\ n \in {FileSize, FileSize + 1}
    BY <1>1, <2>1
  <2>3. /\ Grown(disk) \in [0..(n - 1) -> HeapPage]
        /\ \A p \in 0..(FileSize - 1): Grown(disk)[p] = disk[p]
        /\ Grown(disk)[FileSize] = EmptyPage
    BY <2>2, GrownDisk
  <2> QED BY <1>4, <1>6, <2>2, <2>3, RestartKeepsStorage
<1> QED BY <1>3, <1>5, <1>6

(* An empty database.                                                        *)
LEMMA InitStorage ==
    ASSUME Init
    PROVE  StorageInv
<1>1. /\ mem = <<>> /\ disk = <<>> /\ dirty = {} /\ heaps = <<>>
      /\ catalog = NoCatalog /\ catalogFile = NoCatalog
      /\ kept = [t \in Tables |-> {}]
  BY DEF Init
<1>2. FileSize = 0
  <2>1. DOMAIN mem = {}
    BY <1>1
  <2> QED BY <2>1, FS_EmptySet DEF FileSize
<1>3. FileIsTyped
  BY <1>1, <1>2 DEF FileIsTyped
<1>4. CatalogIsTyped
  <2>1. /\ catalog.tables = <<>> /\ catalog.indexes = {}
        /\ catalog = [tables |-> catalog.tables, indexes |-> catalog.indexes]
    BY <1>1 DEF NoCatalog
  <2>2. /\ DOMAIN catalog.tables = {}
        /\ catalog.tables = [t \in DOMAIN catalog.tables |-> catalog.tables[t]]
    BY <2>1
  <2> QED BY <1>1, <2>1, <2>2 DEF CatalogIsTyped, IsCatalog
<1>5. ChainsInMemory
  BY <1>1 DEF ChainsInMemory, NoCatalog
<1>6. Links
  BY <1>1 DEF Links
<1>7. HeapsAreChains
  BY <1>1 DEF HeapsAreChains
<1>8. KeptIsTyped
  BY <1>1 DEF KeptIsTyped
<1> QED BY <1>3, <1>4, <1>5, <1>6, <1>7, <1>8 DEF StorageInv

(* Each step keeps it.                                                       *)
LEMMA NextKeepsStorage ==
    ASSUME StorageInv, [Next]_vars
    PROVE  StorageInv'
<1>1. ASSUME NEW t \in Tables, CreateTableStatement(t) PROVE StorageInv'
  BY <1>1, CreateTableKeepsStorage
<1>2. ASSUME NEW t \in Tables, DropTableStatement(t) PROVE StorageInv'
  BY <1>2, DropKeepsStorage
<1>3. ASSUME NEW t \in Tables, InsertStatement(t) PROVE StorageInv'
  <2>1. PICK row \in Row : t \in DOMAIN catalog.tables /\ InsertEffect(t, row)
    BY <1>3, InsertIsInsert
  <2>2. (\E p, s: PutEffect(t, row, p, s)) \/ (\E page: AppendEffect(t, page))
    BY <2>1 DEF InsertEffect
  <2> QED BY <2>1, <2>2, PutKeepsStorage, AppendKeepsStorage
<1>4. ASSUME NEW t \in Tables, CrashInCreateTable(t) PROVE StorageInv'
  BY <1>4, CrashInCreateTableKeepsStorage
<1>5. ASSUME NEW t \in Tables, CrashInInsert(t) PROVE StorageInv'
  BY <1>5, CrashInInsertKeepsStorage
<1>6. ASSUME NEW t \in Edited, CreateIndexStatement(t) PROVE StorageInv'
  BY <1>6, CreateIndexKeepsStorage
<1>7. ASSUME NEW t \in Edited, NEW old \in Texts, NEW new \in Texts, UpdateStatement(t, old, new)
      PROVE  StorageInv'
  <2>1. t \in DOMAIN catalog.tables /\ RewriteEffect(t, old)
    BY <1>7, UpdateIsRewrite
  <2> QED BY <2>1, RewriteKeepsStorage
<1>8. ASSUME NEW t \in Edited, NEW key \in Texts, DeleteStatement(t, key) PROVE StorageInv'
  <2>1. t \in DOMAIN catalog.tables /\ RewriteEffect(t, key)
    BY <1>8, DeleteIsRewrite
  <2> QED BY <2>1, RewriteKeepsStorage
<1>9. ASSUME NEW p \in DOMAIN mem, Evict(p) PROVE StorageInv'
  BY <1>9, EvictKeepsStorage
<1>10. ASSUME Checkpoint PROVE StorageInv'
  BY <1>10, CheckpointKeepsStorage
<1>11. ASSUME Crash PROVE StorageInv'
  BY <1>11, CrashKeepsStorage
<1>12. CASE UNCHANGED vars
  BY <1>12 DEF vars, StorageInv, FileIsTyped, CatalogIsTyped, ChainsInMemory, Links,
               HeapsAreChains, KeptIsTyped, FileSize, First, PagesOf
<1> QED BY <1>1, <1>2, <1>3, <1>4, <1>5, <1>6, <1>7, <1>8, <1>9, <1>10, <1>11, <1>12 DEF Next

(* Spec => []StorageInv: the pages of every table are a chain in the pool,   *)
(* the chains have no page in common, and a link that is not on disk is of a *)
(* dirty page whose link on disk is empty, after any statements, evictions,  *)
(* checkpoints and crashes (heap.py:204 links a new page; executor.py:221    *)
(* allocates the first page before the catalog names it).                    *)
THEOREM StorageTheorem == Spec => []StorageInv
<1>1. Init => StorageInv
  BY InitStorage
<1>2. StorageInv /\ [Next]_vars => StorageInv'
  BY NextKeepsStorage
<1> QED BY <1>1, <1>2, PTL DEF Spec

(* Spec => []TypeOK: Database.TypeOK, the fields of executor.py:127 and      *)
(* catalog.py over one file of pages.                                        *)
THEOREM TypeCorrect == Spec => []TypeOK
<1>1. StorageInv => TypeOK
  <2> SUFFICES ASSUME StorageInv PROVE TypeOK
    OBVIOUS
  <2>1. /\ DOMAIN mem = 0..(FileSize - 1) /\ DOMAIN disk = DOMAIN mem
        /\ FileSize = Cardinality(DOMAIN mem)
    BY FileFacts DEF FileSize
  <2>2. dirty \subseteq DOMAIN mem /\ DOMAIN heaps \subseteq DOMAIN catalog.tables
        /\ DOMAIN kept = Tables
    BY <2>1, LinkFacts
  <2>3. /\ catalogFile \in {catalog, Torn}
        /\ \A t \in DOMAIN catalog.tables: catalog.tables[t].first \in DOMAIN mem
    BY <2>1, CatalogFacts DEF IsCatalog, IsTable
  <2> QED BY <2>1, <2>2, <2>3 DEF TypeOK
<1> QED BY <1>1, StorageTheorem, PTL

(* A chain is one, wherever its pages are read.                              *)
LEMMA ChainIsSound ==
    ASSUME NEW pages, NEW chain, NEW first, IsChain(pages, chain, first)
    PROVE  IsInjective(chain) /\ ToSet(chain) \subseteq DOMAIN pages
<1>1. chain \in Seq(DOMAIN pages) /\ DOMAIN chain = 1..Len(chain)
  BY LenProperties DEF IsChain
<1>2. IsInjective(chain)
  BY <1>1 DEF IsChain, IsInjective
<1> QED BY <1>1, <1>2, ToSetParts

(* Spec => []ChainsAreSound: the list of a table's pages in memory is the     *)
(* chain on its pages, finite and without a page of another table, and the    *)
(* chain on disk is a part of it (heap.py:204, 286; executor.py:221).         *)
THEOREM ChainsTheorem == Spec => []ChainsAreSound
<1>1. StorageInv => ChainsAreSound
  <2> SUFFICES ASSUME StorageInv, NEW pages \in {mem, disk}, NEW t \in DOMAIN catalog.tables
               PROVE  LET chain(v) == Chain(pages, catalog.tables[v].first)
                      IN  /\ IsInjective(chain(t)) /\ ToSet(chain(t)) \subseteq DOMAIN pages
                          /\ pages = mem /\ t \in DOMAIN heaps => heaps[t] = chain(t)
                          /\ \A u \in DOMAIN catalog.tables \ {t}:
                                ToSet(chain(t)) \intersect ToSet(chain(u)) = {}
    BY Zenon DEF ChainsAreSound
  <2> DEFINE chain(v) == Chain(pages, catalog.tables[v].first)
  <2>1. ASSUME NEW u \in DOMAIN catalog.tables
        PROVE  /\ IsChain(pages, chain(u), First(u)) /\ ToSet(chain(u)) \subseteq ToSet(PagesOf(u))
               /\ pages = mem => chain(u) = PagesOf(u)
    <3>1. CASE pages = mem
      <4>1. chain(u) = PagesOf(u)
        BY <3>1 DEF PagesOf, First
      <4> HIDE DEF chain
      <4> QED BY <3>1, <4>1, ChainFacts
    <3>2. CASE pages # mem
      <4>1. pages = disk
        BY <3>2
      <4>2. PICK k \in Nat : IsCutAt(u, k)
        BY DiskIsCut
      <4>3. chain(u) = CutOf(u, k)
        BY <4>1, <4>2, CutParts DEF First
      <4> HIDE DEF chain
      <4> QED BY <3>2, <4>1, <4>2, <4>3, CutParts
    <3> QED BY <3>1, <3>2
  <2> HIDE DEF chain
  <2>2. IsInjective(chain(t)) /\ ToSet(chain(t)) \subseteq DOMAIN pages
    BY <2>1, ChainIsSound
  <2>3. pages = mem /\ t \in DOMAIN heaps => heaps[t] = chain(t)
    BY <2>1, LinkFacts
  <2>4. ASSUME NEW u \in DOMAIN catalog.tables \ {t}
        PROVE  ToSet(chain(t)) \intersect ToSet(chain(u)) = {}
    <3>1. ToSet(PagesOf(t)) \intersect ToSet(PagesOf(u)) = {}
      BY DEF StorageInv, ChainsInMemory
    <3> QED BY <2>1, <3>1
  <2> QED BY <2>2, <2>3, <2>4 DEF chain
<1> QED BY <1>1, StorageTheorem, PTL

----------------------------------------------------------------------------
(* The rows: RowsInv.                                                        *)

(* A larger counter covers what a smaller one covers.                        *)
LEMMA CoversMore ==
    ASSUME NEW page \in HeapPage, NEW a \in Nat, NEW b \in Nat, a <= b, Covers(a, page)
    PROVE  Covers(b, page)
<1>1. \A i \in 1..Len(page.slots): page.slots[i] # Tombstone =>
         page.slots[i].id \in GivenIds \/ page.slots[i].id \in 1..MaxAuto
  BY SlotsParts DEF Slot, Row
<1>2. MaxAuto \in Nat
  BY DatabaseAssumption
<1>3. ASSUME NEW i \in 1..Len(page.slots), page.slots[i] # Tombstone
      PROVE  page.slots[i].id \in GivenIds \/ page.slots[i].id <= b
  <2>1. PICK id : id = page.slots[i].id
    OBVIOUS
  <2>2. id \in GivenIds \/ (id \in 1..MaxAuto /\ id <= a)
    BY <1>1, <1>3, <2>1 DEF Covers
  <2> QED BY <1>2, <2>1, <2>2
<1> QED BY <1>3 DEF Covers

(* An empty page is covered.                                                 *)
LEMMA EmptyCovers ==
    ASSUME NEW a
    PROVE  Covers(a, EmptyPage)
<1>1. 1..Len(EmptyPage.slots) = {}
  BY EmptyPageIs
<1> QED BY <1>1 DEF Covers

(* A row that is on both sides stays there, and a link that is written too.  *)
RowStays(p, row) ==
    \A i \in Nat: Holds(mem[p], i, row) /\ Holds(disk[p], i, row) =>
        Holds(mem'[p], i, row) /\ Holds(disk'[p], i, row)
LinkStays(p) == disk[p].next = mem[p].next => disk'[p].next = mem'[p].next

(* A row stays safe when its page, and the links up to it, stay.             *)
LEMMA SafeStays ==
    ASSUME StorageInv, NEW t \in DOMAIN catalog.tables, NEW row, IsSafe(t, row),
           PagesOf(t)' = PagesOf(t),
           \A p \in ToSet(PagesOf(t)): RowStays(p, row) /\ LinkStays(p)
    PROVE  IsSafe(t, row)'
<1>1. PICK c : c = PagesOf(t)
  OBVIOUS
<1>2. /\ Len(c) \in Nat /\ \A j \in 1..Len(c): c[j] \in ToSet(c)
      /\ PagesOf(t)' = c
  BY <1>1, ChainFacts, ToSetParts
<1>3. PICK k \in 1..Len(c) :
          /\ Reached(mem, disk, c, k)
          /\ \E i \in Nat: Holds(mem[c[k]], i, row) /\ Holds(disk[c[k]], i, row)
  BY <1>1 DEF IsSafe
<1>4. Reached(mem', disk', c, k)
  <2>1. \A j \in 1..(k - 1): j \in 1..Len(c)
    BY <1>2
  <2>2. \A j \in 1..(k - 1): LinkStays(c[j])
    BY <1>1, <1>2, <2>1
  <2> QED BY <1>3, <2>2 DEF Reached, LinkStays
<1>5. \E i \in Nat: Holds(mem'[c[k]], i, row) /\ Holds(disk'[c[k]], i, row)
  BY <1>1, <1>2, <1>3 DEF RowStays
<1> QED BY <1>2, <1>3, <1>4, <1>5 DEF IsSafe

(* Counters of the catalog are numbers.                                      *)
LEMMA AutoIsNat ==
    ASSUME StorageInv, NEW t \in DOMAIN catalog.tables
    PROVE  catalog.tables[t].auto \in Nat
<1>1. catalog.tables[t].auto \in 0..MaxAuto /\ MaxAuto \in Nat
  BY CatalogFacts, DatabaseAssumption DEF IsCatalog, IsTable
<1> QED BY <1>1

(* What RowsInv says, page by page and row by row.                           *)
LEMMA RowFacts ==
    ASSUME RowsInv
    PROVE  /\ StorageInv
           /\ \A p \in 0..(FileSize - 1): p \notin dirty => IsPruned(mem[p], disk[p])
           /\ \A t \in DOMAIN catalog.tables: \A p \in ToSet(PagesOf(t)):
                 /\ Covers(catalog.tables[t].auto, mem[p])
                 /\ Covers(catalog.tables[t].auto, disk[p])
           /\ \A t \in Tables: \A row \in kept[t]:
                 row # Tombstone /\ t \in DOMAIN catalog.tables /\ IsSafe(t, row)
<1>1. StorageInv
  BY DEF RowsInv
<1>2. DOMAIN mem = 0..(FileSize - 1)
  BY <1>1, FileFacts
<1> QED BY <1>1, <1>2 DEF RowsInv, CleanPages, CountersCover, KeptRowsAreSafe, HasTable

(* A step that keeps the chains: what is left to show for it is about the    *)
(* slots of the pages, one page at a time.                                   *)
LEMMA RowsKept ==
    ASSUME RowsInv, StorageInv', SameChains,
           \A p \in 0..(FileSize - 1): p \notin dirty' => IsPruned(mem'[p], disk'[p]),
           \A t \in DOMAIN catalog'.tables: \A p \in ToSet(PagesOf(t)):
              /\ Covers(catalog'.tables[t].auto, mem'[p])
              /\ Covers(catalog'.tables[t].auto, disk'[p]),
           \A t \in Tables: \A row \in kept'[t]:
              /\ row \in kept[t] /\ t \in DOMAIN catalog'.tables
              /\ \A p \in ToSet(PagesOf(t)): RowStays(p, row) /\ LinkStays(p)
    PROVE  RowsInv'
<1>1. FileSize' = FileSize
      /\ \A t \in DOMAIN catalog'.tables: t \in DOMAIN catalog.tables /\ PagesOf(t)' = PagesOf(t)
  BY DEF SameChains
<1>2. DOMAIN mem' = 0..(FileSize - 1)
  BY <1>1 DEF StorageInv, FileIsTyped
<1>3. CleanPages'
  BY <1>2 DEF CleanPages
<1>4. CountersCover'
  BY <1>1 DEF CountersCover
<1>5. KeptRowsAreSafe'
  <2>1. ASSUME NEW t \in Tables, NEW row \in kept'[t]
        PROVE  row # Tombstone /\ t \in DOMAIN catalog'.tables /\ IsSafe(t, row)'
    BY <1>1, RowFacts, SafeStays
  <2> QED BY <2>1 DEF KeptRowsAreSafe, HasTable
<1> QED BY <1>3, <1>4, <1>5 DEF RowsInv

(* Statements that leave pages alone: DROP TABLE and CREATE INDEX.           *)
LEMMA QuietKeepsRows ==
    ASSUME RowsInv, StorageInv', SameChains, UNCHANGED <<mem, disk, dirty>>,
           \A t \in DOMAIN catalog'.tables: catalog'.tables[t] = catalog.tables[t],
           \A t \in Tables: \A row \in kept'[t]: row \in kept[t] /\ t \in DOMAIN catalog'.tables
    PROVE  RowsInv'
<1>1. \A p, row: RowStays(p, row) /\ LinkStays(p)
  BY DEF RowStays, LinkStays
<1>2. \A p \in 0..(FileSize - 1): p \notin dirty' => IsPruned(mem'[p], disk'[p])
  BY RowFacts
<1>3. \A t \in DOMAIN catalog'.tables: \A p \in ToSet(PagesOf(t)):
         /\ Covers(catalog'.tables[t].auto, mem'[p])
         /\ Covers(catalog'.tables[t].auto, disk'[p])
  BY RowFacts DEF SameChains
<1> QED BY <1>1, <1>2, <1>3, RowsKept

(* DROP TABLE.                                                               *)
LEMMA DropKeepsRows ==
    ASSUME RowsInv, NEW t \in Tables, DropTableStatement(t)
    PROVE  RowsInv'
<1>1. StorageInv
  BY DEF RowsInv
<1>2. StorageInv' /\ SameChains
  BY <1>1, DropKeepsStorage
<1>3. catalog' = DropTable(catalog, t) /\ kept' = [kept EXCEPT ![t] = {}]
      /\ UNCHANGED <<mem, disk, dirty>>
  BY DEF DropTableStatement, Save
<1>4. /\ DOMAIN catalog'.tables = DOMAIN catalog.tables \ {t}
      /\ \A u \in DOMAIN catalog'.tables: catalog'.tables[u] = catalog.tables[u]
  BY <1>1, <1>3, CatalogFacts, DropTableGives
<1>5. \A u \in Tables: \A row \in kept'[u]: row \in kept[u] /\ u # t
  BY <1>1, <1>3, LinkFacts
<1>6. \A u \in Tables: \A row \in kept'[u]: row \in kept[u] /\ u \in DOMAIN catalog'.tables
  BY <1>4, <1>5, RowFacts
<1> QED BY <1>2, <1>3, <1>4, <1>6, QuietKeepsRows

(* CREATE INDEX.                                                             *)
LEMMA CreateIndexKeepsRows ==
    ASSUME RowsInv, NEW t \in Edited, CreateIndexStatement(t)
    PROVE  RowsInv'
<1>1. StorageInv
  BY DEF RowsInv
<1>2. StorageInv' /\ SameChains /\ catalog'.tables = catalog.tables
  BY <1>1, CreateIndexKeepsStorage
<1>3. UNCHANGED <<mem, disk, dirty>> /\ kept' = kept
  BY DEF CreateIndexStatement
<1>4. \A u \in Tables: \A row \in kept'[u]: row \in kept[u] /\ u \in DOMAIN catalog'.tables
  BY <1>2, <1>3, RowFacts
<1> QED BY <1>2, <1>3, <1>4, QuietKeepsRows

(* Pages of two tables.                                                      *)
LEMMA OtherPages ==
    ASSUME StorageInv, NEW t \in DOMAIN catalog.tables, NEW u \in DOMAIN catalog.tables,
           NEW p \in ToSet(PagesOf(t)), p \in ToSet(PagesOf(u))
    PROVE  u = t
BY DEF StorageInv, ChainsInMemory

(* UPDATE and DELETE.                                                        *)
LEMMA RewriteKeepsRows ==
    ASSUME RowsInv, NEW t \in DOMAIN catalog.tables, NEW key, RewriteEffect(t, key)
    PROVE  RowsInv'
<1>1. StorageInv
  BY DEF RowsInv
<1>2. StorageInv' /\ SameChains
  BY <1>1, RewriteKeepsStorage
<1>3. /\ disk' = disk /\ dirty \subseteq dirty' /\ SameTables(catalog, catalog')
      /\ kept' = [kept EXCEPT ![t] = {row \in @: row.k # key}]
      /\ \A p \in 0..(FileSize - 1):
            /\ p \in ToSet(PagesOf(t)) => Rewrites(mem[p], mem'[p], key, p \in dirty')
            /\ p \notin ToSet(PagesOf(t)) => mem'[p] = mem[p]
  BY DEF RewriteEffect
<1>4. ASSUME NEW p \in 0..(FileSize - 1), p \notin dirty'
      PROVE  IsPruned(mem'[p], disk'[p])
  <2>1. IsPruned(mem[p], disk[p])
    BY <1>3, <1>4, RowFacts
  <2>2. CASE p \in ToSet(PagesOf(t))
    <3>1. /\ Len(mem'[p].slots) = Len(mem[p].slots)
          /\ \A i \in 1..Len(mem[p].slots):
                mem'[p].slots[i] = mem[p].slots[i] \/ mem'[p].slots[i] = Tombstone
      BY <1>3, <1>4, <2>2 DEF Rewrites, SlotRewritten
    <3> QED BY <1>3, <2>1, <3>1 DEF IsPruned
  <2>3. CASE p \notin ToSet(PagesOf(t))
    BY <1>3, <2>1, <2>3
  <2> QED BY <2>2, <2>3
<1>5. ASSUME NEW u \in DOMAIN catalog'.tables, NEW p \in ToSet(PagesOf(u))
      PROVE  /\ Covers(catalog'.tables[u].auto, mem'[p])
             /\ Covers(catalog'.tables[u].auto, disk'[p])
  <2>1. u \in DOMAIN catalog.tables /\ catalog'.tables[u].auto = catalog.tables[u].auto
    BY <1>3 DEF SameTables
  <2>2. p \in 0..(FileSize - 1)
    BY <1>1, <2>1, ChainFacts
  <2>3. Covers(catalog.tables[u].auto, mem[p]) /\ Covers(catalog.tables[u].auto, disk[p])
    BY <2>1, RowFacts
  <2>4. Covers(catalog.tables[u].auto, mem'[p])
    <3>1. CASE p \in ToSet(PagesOf(t))
      <4>1. PICK page, after, auto :
                page = mem[p] /\ after = mem'[p] /\ auto = catalog.tables[u].auto
        OBVIOUS
      <4>2. Rewrites(page, after, key, p \in dirty') /\ Covers(auto, page)
        BY <1>3, <2>2, <2>3, <3>1, <4>1
      <4>3. Covers(auto, after)
        BY <4>2 DEF Rewrites, SlotRewritten, Covers
      <4> QED BY <4>1, <4>3
    <3>2. CASE p \notin ToSet(PagesOf(t))
      BY <1>3, <2>2, <2>3, <3>2
    <3> QED BY <3>1, <3>2
  <2> QED BY <1>3, <2>1, <2>3, <2>4
<1>6. ASSUME NEW u \in Tables, NEW row \in kept'[u]
      PROVE  row \in kept[u] /\ u \in DOMAIN catalog'.tables /\ (u = t => row.k # key)
  <2>1. row \in kept[u] /\ (u = t => row.k # key)
    BY <1>1, <1>3, LinkFacts
  <2> QED BY <1>3, <2>1, RowFacts DEF SameTables
<1>7. ASSUME NEW u \in Tables, NEW row \in kept'[u], NEW p \in ToSet(PagesOf(u))
      PROVE  RowStays(p, row) /\ LinkStays(p)
  <2>1. u \in DOMAIN catalog.tables /\ row # Tombstone
    BY <1>6, RowFacts
  <2>2. p \in 0..(FileSize - 1)
    BY <1>1, <2>1, ChainFacts
  <2>3. CASE p \in ToSet(PagesOf(t))
    <3>1. u = t
      BY <1>1, <2>1, <2>3, OtherPages
    <3>2. row.k # key /\ Rewrites(mem[p], mem'[p], key, p \in dirty')
      BY <1>3, <1>6, <2>2, <2>3, <3>1
    <3>3. \A i \in Nat: Holds(mem[p], i, row) => Holds(mem'[p], i, row)
      BY <2>1, <3>2 DEF Rewrites, SlotRewritten, Holds
    <3>4. mem'[p].next = mem[p].next
      BY <3>2 DEF Rewrites
    <3> QED BY <1>3, <3>3, <3>4 DEF RowStays, LinkStays
  <2>4. CASE p \notin ToSet(PagesOf(t))
    BY <1>3, <2>2, <2>4 DEF RowStays, LinkStays
  <2> QED BY <2>3, <2>4
<1> QED BY <1>2, <1>4, <1>5, <1>6, <1>7, RowsKept

(* INSERT into a page of the chain.                                          *)
LEMMA PutKeepsRows ==
    ASSUME RowsInv, NEW t \in DOMAIN catalog.tables, NEW row, InsertEffect(t, row),
           NEW p, NEW s, PutEffect(t, row, p, s)
    PROVE  RowsInv'
<1>1. StorageInv
  BY DEF RowsInv
<1>2. StorageInv' /\ SameChains
  BY <1>1, PutKeepsStorage
<1>3. /\ p \in ToSet(PagesOf(t)) /\ PutsRow(mem[p], mem'[p], s, row)
      /\ \A q \in 0..(FileSize - 1): q # p => mem'[q] = mem[q]
      /\ disk' = disk /\ dirty' = dirty \union {p}
  BY DEF PutEffect
<1>4. /\ kept' = kept /\ DOMAIN catalog'.tables = DOMAIN catalog.tables
      /\ \A u \in DOMAIN catalog.tables: catalog.tables[u].auto <= catalog'.tables[u].auto
      /\ row.id \in GivenIds \/ row.id <= catalog'.tables[t].auto
  BY DEF InsertEffect
<1>5. \A q \in 0..(FileSize - 1): q \notin dirty' => IsPruned(mem'[q], disk'[q])
  BY <1>3, RowFacts
<1>6. ASSUME NEW u \in DOMAIN catalog'.tables, NEW q \in ToSet(PagesOf(u))
      PROVE  /\ Covers(catalog'.tables[u].auto, mem'[q])
             /\ Covers(catalog'.tables[u].auto, disk'[q])
  <2>1. PICK a, b : a = catalog.tables[u].auto /\ b = catalog'.tables[u].auto
    OBVIOUS
  <2>2. u \in DOMAIN catalog.tables /\ a \in Nat /\ a <= b
    BY <1>1, <1>4, <2>1, AutoIsNat
  <2>3. b \in Nat
  <3>1. PICK d : d = catalog'
    OBVIOUS
  <3>2. IsCatalog(d, 0..(FileSize - 1)) /\ u \in DOMAIN d.tables
    BY <1>4, <2>2, <3>1 DEF InsertEffect
  <3>3. d.tables[u].auto \in 0..MaxAuto /\ MaxAuto \in Nat
    BY <3>2, DatabaseAssumption DEF IsCatalog, IsTable
  <3> QED BY <2>1, <3>1, <3>3
  <2>4. q \in 0..(FileSize - 1) /\ mem[q] \in HeapPage /\ disk[q] \in HeapPage
    BY <1>1, <2>2, ChainFacts, FileFacts
  <2>5. Covers(a, mem[q]) /\ Covers(a, disk[q])
    BY <2>1, <2>2, RowFacts
  <2>6. Covers(b, mem[q]) /\ Covers(b, disk[q])
    BY <2>2, <2>3, <2>4, <2>5, CoversMore
  <2>7. CASE q = p
    <3>1. u = t
      BY <1>1, <1>3, <2>2, <2>7, OtherPages
    <3>2. row.id \in GivenIds \/ row.id <= b
      BY <1>4, <2>1, <3>1
    <3>3. Covers(b, mem'[q])
      <4>1. PICK page, after : page = mem[p] /\ after = mem'[p]
        OBVIOUS
      <4>2. PutsRow(page, after, s, row) /\ Covers(b, page)
        BY <1>3, <2>6, <2>7, <4>1
      <4>3. Covers(b, after)
        BY <3>2, <4>2 DEF PutsRow, Covers
      <4> QED BY <2>7, <4>1, <4>3
    <3> QED BY <1>3, <2>1, <2>6, <3>3
  <2>8. CASE q # p
    BY <1>3, <2>1, <2>4, <2>6, <2>8
  <2> QED BY <2>7, <2>8
<1>7. ASSUME NEW u \in Tables, NEW kept_row \in kept'[u]
      PROVE  kept_row \in kept[u] /\ u \in DOMAIN catalog'.tables /\ kept_row # Tombstone
  BY <1>4, RowFacts
<1>8. ASSUME NEW u \in Tables, NEW kept_row \in kept'[u], NEW q \in ToSet(PagesOf(u))
      PROVE  RowStays(q, kept_row) /\ LinkStays(q)
  <2>1. u \in DOMAIN catalog.tables /\ q \in 0..(FileSize - 1)
    BY <1>1, <1>4, <1>7, ChainFacts
  <2>2. CASE q = p
    <3>1. \A i \in Nat: Holds(mem[q], i, kept_row) => Holds(mem'[q], i, kept_row)
      <4>1. ASSUME NEW i \in Nat, Holds(mem[q], i, kept_row)
            PROVE  Holds(mem'[q], i, kept_row)
        <5>1. i \in 1..Len(mem[p].slots) /\ mem[p].slots[i] = kept_row
          BY <2>2, <4>1 DEF Holds
        <5>2. i # s
          BY <1>3, <1>7, <5>1 DEF PutsRow
        <5>3. i \in 1..Len(mem'[p].slots) /\ mem'[p].slots[i] = kept_row
          BY <1>3, <5>1, <5>2 DEF PutsRow
        <5> QED BY <2>2, <5>3 DEF Holds
      <4> QED BY <4>1
    <3>2. mem'[q].next = mem[q].next
      BY <1>3, <2>2 DEF PutsRow
    <3> QED BY <1>3, <3>1, <3>2 DEF RowStays, LinkStays
  <2>3. CASE q # p
    BY <1>3, <2>1, <2>3 DEF RowStays, LinkStays
  <2> QED BY <2>2, <2>3
<1> QED BY <1>2, <1>5, <1>6, <1>7, <1>8, RowsKept

(* Eviction of a page.                                                       *)
LEMMA EvictKeepsRows ==
    ASSUME RowsInv, NEW p \in DOMAIN mem, Evict(p)
    PROVE  RowsInv'
<1>1. StorageInv
  BY DEF RowsInv
<1>2. StorageInv' /\ SameChains
  BY <1>1, EvictKeepsStorage
<1>3. /\ \/ p \in dirty /\ mem' = mem /\ disk' = [disk EXCEPT ![p] = mem[p]] /\ dirty' = dirty \ {p}
         \/ p \notin dirty /\ mem' = [mem EXCEPT ![p] = disk[p]] /\ disk' = disk /\ dirty' = dirty
      /\ UNCHANGED <<catalog, kept>>
  BY DEF Evict, MayRevert
<1>4. /\ DOMAIN mem = 0..(FileSize - 1) /\ DOMAIN disk = 0..(FileSize - 1)
      /\ p \in 0..(FileSize - 1)
  BY <1>1, FileFacts
<1>5. \A q \in 0..(FileSize - 1):
         \/ mem'[q] = mem[q] /\ disk'[q] = disk[q] /\ (q \in dirty <=> q \in dirty')
         \/ q = p /\ mem'[q] = mem[q] /\ disk'[q] = mem[q]
         \/ q = p /\ mem'[q] = disk[q] /\ disk'[q] = disk[q]
  BY <1>3, <1>4
<1>6. \A page: IsPruned(page, page)
  BY DEF IsPruned
<1>7. \A q \in 0..(FileSize - 1): q \notin dirty' => IsPruned(mem'[q], disk'[q])
  BY <1>5, <1>6, RowFacts
<1>8. ASSUME NEW u \in DOMAIN catalog'.tables, NEW q \in ToSet(PagesOf(u))
      PROVE  /\ Covers(catalog'.tables[u].auto, mem'[q])
             /\ Covers(catalog'.tables[u].auto, disk'[q])
  <2>1. u \in DOMAIN catalog.tables /\ catalog' = catalog
    BY <1>3
  <2>2. q \in 0..(FileSize - 1)
    BY <1>1, <2>1, ChainFacts
  <2>3. Covers(catalog.tables[u].auto, mem[q]) /\ Covers(catalog.tables[u].auto, disk[q])
    BY <2>1, RowFacts
  <2> QED BY <1>5, <2>1, <2>2, <2>3
<1>9. \A u \in Tables: \A row \in kept'[u]: row \in kept[u] /\ u \in DOMAIN catalog'.tables
  BY <1>3, RowFacts
<1>10. \A row: \A q \in 0..(FileSize - 1): RowStays(q, row) /\ LinkStays(q)
  BY <1>5 DEF RowStays, LinkStays
<1>11. \A u \in Tables: \A row \in kept'[u]: \A q \in ToSet(PagesOf(u)):
          RowStays(q, row) /\ LinkStays(q)
  <2>1. \A u \in Tables: \A row \in kept'[u]: u \in DOMAIN catalog.tables
    BY <1>3, <1>9
  <2> QED BY <1>1, <1>10, <2>1, ChainFacts
<1> QED BY <1>2, <1>7, <1>8, <1>9, <1>11, RowsKept

(* The counter of a table after a step that keeps StorageInv.                *)
LEMMA NextAutoIsNat ==
    ASSUME StorageInv', NEW t \in DOMAIN catalog'.tables
    PROVE  catalog'.tables[t].auto \in Nat /\ t \in Tables
<1>1. IsCatalog(catalog', 0..(FileSize' - 1))
  BY DEF StorageInv, CatalogIsTyped
<1>2. catalog'.tables[t].auto \in 0..MaxAuto /\ MaxAuto \in Nat /\ t \in Tables
  BY <1>1, DatabaseAssumption DEF IsCatalog, IsTable
<1> QED BY <1>2

(* INSERT into a new page: a page the counter covers, of which the disk has   *)
(* an empty one.                                                             *)
LEMMA AppendKeepsRows ==
    ASSUME RowsInv, NEW t \in DOMAIN catalog.tables, NEW row, InsertEffect(t, row),
           NEW page, AppendEffect(t, page), page = EmptyPage \/ PutsRow(EmptyPage, page, 1, row)
    PROVE  RowsInv'
<1>1. StorageInv
  BY DEF RowsInv
<1>2. PICK n \in Nat : n = FileSize
  BY <1>1, FileFacts
<1>3. /\ StorageInv' /\ OldChains(t) /\ PagesOf(t)' = Append(PagesOf(t), n)
      /\ ToSet(PagesOf(t)') = ToSet(PagesOf(t)) \union {n}
      /\ Last(PagesOf(t)) \in ToSet(PagesOf(t))
      /\ mem' \in [0..n -> HeapPage] /\ mem'[n] = page
      /\ disk' \in [0..n -> HeapPage] /\ disk'[n] = EmptyPage
      /\ \A p \in 0..(n - 1):
            /\ mem'[p].slots = mem[p].slots /\ disk'[p] = disk[p]
            /\ p # Last(PagesOf(t)) => mem'[p] = mem[p]
  BY <1>1, <1>2, AppendKeepsStorage
<1>4. dirty' = dirty \union {n, Last(PagesOf(t))}
  BY <1>2 DEF AppendEffect
<1>5. /\ kept' = kept /\ DOMAIN catalog'.tables = DOMAIN catalog.tables
      /\ \A u \in DOMAIN catalog.tables: catalog.tables[u].auto <= catalog'.tables[u].auto
      /\ row.id \in GivenIds \/ row.id <= catalog'.tables[t].auto
  BY DEF InsertEffect
<1>6. CleanPages'
  <2>1. DOMAIN mem' = 0..n
    BY <1>3
  <2>2. ASSUME NEW p \in 0..n, p \notin dirty' PROVE IsPruned(mem'[p], disk'[p])
    <3>1. p \in 0..(n - 1) /\ p # Last(PagesOf(t)) /\ p \notin dirty
      BY <1>4, <2>2
    <3> QED BY <1>2, <1>3, <3>1, RowFacts
  <2> QED BY <2>1, <2>2 DEF CleanPages
<1>7. ASSUME NEW u \in DOMAIN catalog.tables, NEW p \in ToSet(PagesOf(u))
      PROVE  /\ Covers(catalog'.tables[u].auto, mem'[p])
             /\ Covers(catalog'.tables[u].auto, disk'[p])
  <2>1. PICK a, b : a = catalog.tables[u].auto /\ b = catalog'.tables[u].auto
    OBVIOUS
  <2>2. a \in Nat /\ b \in Nat /\ a <= b
    BY <1>1, <1>3, <1>5, <2>1, AutoIsNat, NextAutoIsNat
  <2>3. p \in 0..(n - 1) /\ mem[p] \in HeapPage /\ disk[p] \in HeapPage
    BY <1>1, <1>2, ChainFacts, FileFacts
  <2>4. Covers(a, mem[p]) /\ Covers(a, disk[p])
    BY <2>1, RowFacts
  <2>5. Covers(b, mem[p]) /\ Covers(b, disk[p])
    BY <2>2, <2>3, <2>4, CoversMore
  <2>6. mem'[p].slots = mem[p].slots /\ disk'[p] = disk[p]
    BY <1>3, <2>3
  <2>7. Covers(b, mem'[p])
    BY <2>5, <2>6 DEF Covers
  <2> QED BY <2>1, <2>5, <2>6, <2>7
<1>8. Covers(catalog'.tables[t].auto, mem'[n]) /\ Covers(catalog'.tables[t].auto, disk'[n])
  <2>1. PICK b : b = catalog'.tables[t].auto
    OBVIOUS
  <2>2. Covers(b, EmptyPage)
    BY EmptyCovers
  <2>3. CASE PutsRow(EmptyPage, page, 1, row)
    <3>1. Covers(b, page)
      BY <1>5, <2>1, <2>2, <2>3 DEF PutsRow, Covers
    <3> QED BY <1>3, <2>1, <2>2, <3>1
  <2> QED BY <1>3, <2>1, <2>2, <2>3
<1>9. CountersCover'
  <2>1. ASSUME NEW u \in DOMAIN catalog'.tables, NEW p \in ToSet(PagesOf(u)')
        PROVE  /\ Covers(catalog'.tables[u].auto, mem'[p])
               /\ Covers(catalog'.tables[u].auto, disk'[p])
    <3>1. CASE u = t
      BY <1>3, <1>7, <1>8, <3>1
    <3>2. CASE u # t
      BY <1>3, <1>7, <3>2 DEF OldChains
    <3> QED BY <3>1, <3>2
  <2> QED BY <2>1 DEF CountersCover
<1>10. KeptRowsAreSafe'
  <2>1. ASSUME NEW u \in Tables, NEW r \in kept'[u]
        PROVE  r # Tombstone /\ u \in DOMAIN catalog'.tables /\ IsSafe(u, r)'
    <3>1. r # Tombstone /\ u \in DOMAIN catalog.tables /\ IsSafe(u, r)
      BY <1>5, RowFacts
    <3>2. CASE u # t
      <4>1. PagesOf(u)' = PagesOf(u)
        BY <1>3, <1>5, <3>1, <3>2 DEF OldChains
      <4>2. \A p \in ToSet(PagesOf(u)): mem'[p] = mem[p] /\ disk'[p] = disk[p]
        <5>1. ASSUME NEW p \in ToSet(PagesOf(u)) PROVE mem'[p] = mem[p] /\ disk'[p] = disk[p]
          <6>1. p \in 0..(n - 1) /\ p # Last(PagesOf(t))
            BY <1>1, <1>2, <1>3, <3>1, <3>2, ChainFacts, OtherPages
          <6> QED BY <1>3, <6>1
        <5> QED BY <5>1
      <4>3. \A p \in ToSet(PagesOf(u)): RowStays(p, r) /\ LinkStays(p)
        BY <4>2 DEF RowStays, LinkStays
      <4> QED BY <1>1, <1>5, <3>1, <4>1, <4>3, SafeStays
    <3>3. CASE u = t
      <4>1. PICK c : c = PagesOf(t)
        OBVIOUS
      <4>2. /\ c \in Seq(0..(n - 1)) /\ IsChain(mem, c, First(t)) /\ Len(c) \in Nat
            /\ \A j \in 1..Len(c): c[j] \in 0..(n - 1)
        BY <1>1, <1>2, <4>1, ChainFacts, ElementOfSeq
      <4>3. PICK k \in 1..Len(c) :
                /\ Reached(mem, disk, c, k)
                /\ \E i \in Nat: Holds(mem[c[k]], i, r) /\ Holds(disk[c[k]], i, r)
        BY <3>1, <3>3, <4>1 DEF IsSafe
      <4>4. PICK more : more = PagesOf(t)'
        OBVIOUS
      <4>5. /\ Len(more) = Len(c) + 1 /\ \A j \in 1..Len(c): more[j] = c[j]
        <5>1. c \in Seq(0..n) /\ n \in 0..n
          <6>1. 0..(n - 1) \subseteq 0..n
            OBVIOUS
          <6> QED BY <4>2, <6>1
        <5>2. more = Append(c, n)
          BY <1>3, <4>1, <4>4
        <5> QED BY <5>1, <5>2, AppendParts
      <4>6. k \in 1..Len(more) /\ more[k] = c[k] /\ c[k] \in 0..(n - 1)
        BY <4>2, <4>5
      <4>7. \A j \in 1..(k - 1): j \in 1..Len(c) /\ j # Len(c) /\ Len(c) \in 1..Len(c)
        BY <4>2
      <4>8. \A j \in 1..(k - 1): c[j] # Last(c)
        BY <4>2, <4>7 DEF IsChain, Last
      <4>9. \A j \in 1..(k - 1): mem'[more[j]] = mem[c[j]] /\ disk'[more[j]] = disk[c[j]]
        BY <1>3, <4>1, <4>2, <4>5, <4>7, <4>8
      <4>10. Reached(mem', disk', more, k)
        BY <4>3, <4>9 DEF Reached
      <4>11. \E i \in Nat: Holds(mem'[more[k]], i, r) /\ Holds(disk'[more[k]], i, r)
        BY <1>3, <4>3, <4>6 DEF Holds
      <4>12. IsSafe(t, r)'
        BY <4>4, <4>6, <4>10, <4>11 DEF IsSafe
      <4> QED BY <1>5, <3>1, <3>3, <4>12
    <3> QED BY <3>2, <3>3
  <2> QED BY <2>1 DEF KeptRowsAreSafe, HasTable
<1> QED BY <1>3, <1>6, <1>9, <1>10 DEF RowsInv

(* CREATE TABLE: an empty page, and nothing to keep in it.                   *)
LEMMA CreateTableKeepsRows ==
    ASSUME RowsInv, NEW t \in Tables, CreateTableStatement(t)
    PROVE  RowsInv'
<1>1. StorageInv
  BY DEF RowsInv
<1>2. PICK n \in Nat : n = FileSize
  BY <1>1, FileFacts
<1>3. /\ StorageInv' /\ OldChains(t) /\ PagesOf(t)' = <<n>> /\ t \notin DOMAIN catalog.tables
      /\ mem' \in [0..n -> HeapPage] /\ mem'[n] = EmptyPage
      /\ disk' \in [0..n -> HeapPage] /\ disk'[n] = EmptyPage
      /\ \A p \in 0..(n - 1): mem'[p] = mem[p] /\ disk'[p] = disk[p]
      /\ dirty' = dirty \union {n}
      /\ DOMAIN catalog'.tables = DOMAIN catalog.tables \union {t}
      /\ \A u \in DOMAIN catalog.tables: catalog'.tables[u] = catalog.tables[u]
  BY <1>1, <1>2, CreateTableKeepsStorage
<1>4. kept' = kept
  BY DEF CreateTableStatement
<1>5. CleanPages'
  <2>1. DOMAIN mem' = 0..n
    BY <1>3
  <2>2. ASSUME NEW p \in 0..n, p \notin dirty' PROVE IsPruned(mem'[p], disk'[p])
    <3>1. p \in 0..(n - 1) /\ p \notin dirty
      BY <1>3, <2>2
    <3> QED BY <1>2, <1>3, <3>1, RowFacts
  <2> QED BY <2>1, <2>2 DEF CleanPages
<1>6. CountersCover'
  <2>1. ASSUME NEW u \in DOMAIN catalog'.tables, NEW p \in ToSet(PagesOf(u)')
        PROVE  /\ Covers(catalog'.tables[u].auto, mem'[p])
               /\ Covers(catalog'.tables[u].auto, disk'[p])
    <3>1. CASE u = t
      <4>1. p = n
        BY <1>3, <3>1, LenProperties DEF ToSet
      <4> QED BY <1>3, <4>1, EmptyCovers
    <3>2. CASE u # t
      <4>1. u \in DOMAIN catalog.tables /\ p \in ToSet(PagesOf(u))
        BY <1>3, <3>2 DEF OldChains
      <4>2. p \in 0..(n - 1)
        BY <1>1, <1>2, <4>1, ChainFacts
      <4> QED BY <1>3, <4>1, <4>2, RowFacts
    <3> QED BY <3>1, <3>2
  <2> QED BY <2>1 DEF CountersCover
<1>7. KeptRowsAreSafe'
  <2>1. ASSUME NEW u \in Tables, NEW r \in kept'[u]
        PROVE  r # Tombstone /\ u \in DOMAIN catalog'.tables /\ IsSafe(u, r)'
    <3>1. r # Tombstone /\ u \in DOMAIN catalog.tables /\ IsSafe(u, r) /\ u # t
      BY <1>3, <1>4, RowFacts
    <3>2. PagesOf(u)' = PagesOf(u) /\ u \in DOMAIN catalog'.tables
      BY <1>3, <3>1 DEF OldChains
    <3>3. \A p \in ToSet(PagesOf(u)): p \in 0..(n - 1)
      BY <1>1, <1>2, <3>1, ChainFacts
    <3>4. \A p \in ToSet(PagesOf(u)): RowStays(p, r) /\ LinkStays(p)
      BY <1>3, <3>3 DEF RowStays, LinkStays
    <3> QED BY <1>1, <3>1, <3>2, <3>4, SafeStays
  <2> QED BY <2>1 DEF KeptRowsAreSafe, HasTable
<1> QED BY <1>3, <1>5, <1>6, <1>7 DEF RowsInv

(* The record ids of a chain: those of the live rows on its pages.            *)
LEMMA RidsAre ==
    ASSUME NEW pages, NEW chain, \A p \in ToSet(chain): pages[p] \in HeapPage,
           NEW rid \in RidsOf(pages, chain)
    PROVE  \E p \in ToSet(chain), i \in Nat:
              /\ rid = Rid(p, i) /\ Holds(pages[p], i, Read(pages, rid))
              /\ Read(pages, rid) # Tombstone
<1>1. PICK p \in ToSet(chain) : rid \in {Rid(p, i): i \in Live(pages[p])}
  BY DEF RidsOf
<1>2. PICK i \in Live(pages[p]) : rid = Rid(p, i)
  BY <1>1
<1>3. PICK page \in HeapPage : page = pages[p]
  BY <1>1
<1>4. i \in DOMAIN page.slots /\ page.slots[i] # Tombstone
  BY <1>2, <1>3 DEF Live
<1>5. i \in 1..Len(page.slots) /\ i \in Nat
  BY <1>4, SlotsParts
<1>6. rid.page = p /\ rid.slot = i
  BY <1>2 DEF Rid
<1>7. Read(pages, rid) = page.slots[i]
  BY <1>3, <1>4, <1>6 DEF Read
<1>8. Holds(pages[p], i, Read(pages, rid))
  BY <1>3, <1>5, <1>7 DEF Holds
<1> QED BY <1>2, <1>4, <1>5, <1>7, <1>8

(* A live row on a page of a chain has its record id among them.             *)
LEMMA RidIsIn ==
    ASSUME NEW pages, NEW chain, NEW p \in ToSet(chain), NEW page \in HeapPage, page = pages[p],
           NEW i \in 1..Len(page.slots), page.slots[i] # Tombstone
    PROVE  /\ Rid(p, i) \in RidsOf(pages, chain)
           /\ Read(pages, Rid(p, i)) = page.slots[i]
<1>1. i \in DOMAIN page.slots
  BY SlotsParts
<1>2. i \in Live(pages[p])
  BY <1>1 DEF Live
<1>3. PICK rid : rid = Rid(p, i)
  OBVIOUS
<1>4. rid.page = p /\ rid.slot = i
  BY <1>3 DEF Rid
<1>5. rid \in RidsOf(pages, chain)
  <2> DEFINE of(q) == {Rid(q, j): j \in Live(pages[q])}
  <2>1. rid \in of(p)
    BY <1>2, <1>3
  <2>2. RidsOf(pages, chain) = UNION {of(q): q \in ToSet(chain)}
    BY DEF RidsOf
  <2> HIDE DEF of
  <2>3. of(p) \in {of(q): q \in ToSet(chain)}
    OBVIOUS
  <2> QED BY <2>1, <2>2, <2>3
<1>6. Read(pages, rid) = page.slots[i]
  BY <1>1, <1>4 DEF Read
<1> QED BY <1>3, <1>5, <1>6

(* The live rows of a chain and where they are.                              *)
LEMMA RowsAre ==
    ASSUME NEW pages, NEW chain, \A p \in ToSet(chain): pages[p] \in HeapPage,
           NEW row \in RowsIn(pages, chain)
    PROVE  /\ row # Tombstone
           /\ \E p \in ToSet(chain), i \in Nat: Holds(pages[p], i, row)
<1>1. PICK rid \in RidsOf(pages, chain) : row = Read(pages, rid)
  BY DEF RowsIn
<1> QED BY <1>1, RidsAre

(* A row that a page of a chain holds is one of its rows.                     *)
LEMMA RowIsIn ==
    ASSUME NEW pages, NEW chain, NEW p \in ToSet(chain), pages[p] \in HeapPage,
           NEW i, NEW row, Holds(pages[p], i, row), row # Tombstone
    PROVE  row \in RowsIn(pages, chain)
<1>1. PICK page \in HeapPage : page = pages[p]
  OBVIOUS
<1>2. i \in 1..Len(page.slots) /\ page.slots[i] = row
  BY <1>1 DEF Holds
<1>3. Rid(p, i) \in RidsOf(pages, chain) /\ Read(pages, Rid(p, i)) = row
  BY <1>1, <1>2, RidIsIn
<1> QED BY <1>3, Zenon DEF RowsIn

(* A checkpoint writes every link and every row that a caller sees.           *)
LEMMA CheckpointKeepsRows ==
    ASSUME RowsInv, Checkpoint
    PROVE  RowsInv'
<1>1. StorageInv
  BY DEF RowsInv
<1>2. PICK n \in Nat : n = FileSize
  BY <1>1, FileFacts
<1>3. StorageInv' /\ SameChains
  BY <1>1, CheckpointKeepsStorage
<1>4. /\ mem \in [0..(n - 1) -> HeapPage] /\ disk \in [0..(n - 1) -> HeapPage]
      /\ DOMAIN mem = 0..(n - 1) /\ DOMAIN disk = 0..(n - 1)
  BY <1>1, <1>2, FileFacts
<1>5. /\ mem' = mem /\ dirty' = {} /\ catalog' = catalog
      /\ disk' = [p \in 0..(n - 1) |-> IF p \in dirty THEN mem[p] ELSE disk[p]]
      /\ kept' = [t \in Tables |-> IF HasTable(catalog, t) THEN RowsOf(t) ELSE {}]
  BY <1>4 DEF Checkpoint, Flushed
<1>6. \A p \in 0..(n - 1): disk'[p] = mem[p] \/ (disk'[p] = disk[p] /\ p \notin dirty)
  BY <1>5
<1>7. \A p \in 0..(n - 1): IsPruned(mem'[p], disk'[p]) /\ disk'[p].next = mem'[p].next
  <2>1. ASSUME NEW p \in 0..(n - 1) PROVE IsPruned(mem'[p], disk'[p])
    <3>1. IsPruned(mem[p], mem[p])
      BY DEF IsPruned
    <3>2. p \notin dirty => IsPruned(mem[p], disk[p])
      BY <1>2, RowFacts
    <3> QED BY <1>5, <1>6, <3>1, <3>2
  <2>2. ASSUME NEW p \in 0..(n - 1) PROVE disk'[p].next = mem'[p].next
    BY <1>1, <1>2, <1>5, <1>6, LinkFacts
  <2> QED BY <2>1, <2>2
<1>8. CleanPages'
  BY <1>4, <1>5, <1>7 DEF CleanPages
<1>9. \A t \in DOMAIN catalog'.tables: t \in DOMAIN catalog.tables /\ PagesOf(t)' = PagesOf(t)
  BY <1>3 DEF SameChains
<1>10. CountersCover'
  <2>1. ASSUME NEW u \in DOMAIN catalog'.tables, NEW p \in ToSet(PagesOf(u)')
        PROVE  /\ Covers(catalog'.tables[u].auto, mem'[p])
               /\ Covers(catalog'.tables[u].auto, disk'[p])
    <3>1. u \in DOMAIN catalog.tables /\ p \in ToSet(PagesOf(u)) /\ p \in 0..(n - 1)
      BY <1>1, <1>2, <1>9, ChainFacts
    <3> QED BY <1>5, <1>6, <3>1, RowFacts
  <2> QED BY <2>1 DEF CountersCover
<1>11. KeptRowsAreSafe'
  <2>1. ASSUME NEW t \in Tables, NEW row \in kept'[t]
        PROVE  row # Tombstone /\ t \in DOMAIN catalog'.tables /\ IsSafe(t, row)'
    <3>1. t \in DOMAIN catalog.tables /\ row \in RowsOf(t)
      BY <1>5 DEF HasTable
    <3>2. PICK c : c = PagesOf(t)
      OBVIOUS
    <3>3. /\ c \in Seq(0..(n - 1)) /\ HeapOf(t) = c /\ Len(c) \in Nat
          /\ \A p \in ToSet(c): p \in 0..(n - 1)
      BY <1>1, <1>2, <3>1, <3>2, ChainFacts
    <3>4. row \in RowsIn(mem, c)
      BY <3>1, <3>3 DEF RowsOf
    <3>5. row # Tombstone /\ \E p \in ToSet(c), i \in Nat: Holds(mem[p], i, row)
      BY <1>4, <3>3, <3>4, RowsAre
    <3>6. PICK p \in ToSet(c), i \in Nat : Holds(mem[p], i, row)
      BY <3>5
    <3>7. PICK k \in 1..Len(c) : p = c[k]
      BY <3>3, <3>6, ToSetParts
    <3>8. Holds(mem'[p], i, row) /\ Holds(disk'[p], i, row)
      BY <1>5, <1>7, <3>3, <3>5, <3>6 DEF Holds, IsPruned
    <3>9. Reached(mem', disk', c, k)
      <4>1. \A j \in 1..(k - 1): c[j] \in 0..(n - 1)
        BY <3>3, ElementOfSeq
      <4> QED BY <1>7, <4>1 DEF Reached
    <3>10. PagesOf(t)' = c /\ t \in DOMAIN catalog'.tables
      BY <1>5, <1>9, <3>1, <3>2
    <3>11. IsSafe(t, row)'
      BY <3>7, <3>8, <3>9, <3>10 DEF IsSafe
    <3> QED BY <3>5, <3>10, <3>11
  <2> QED BY <2>1 DEF KeptRowsAreSafe, HasTable
<1> QED BY <1>3, <1>8, <1>10, <1>11 DEF RowsInv

(* A restart finds every row that was on both sides: its page is before the   *)
(* first link that was still to be written.                                  *)
LEMMA RestartKeepsRows ==
    ASSUME RowsInv, StorageInv', AfterRestart
    PROVE  RowsInv'
<1>1. StorageInv
  BY DEF RowsInv
<1>2. PICK n \in Nat : n = FileSize
  BY <1>1, FileFacts
<1>3. /\ mem' = disk' /\ \A p \in 0..(n - 1): mem'[p] = disk[p]
      /\ \A t \in DOMAIN catalog'.tables: IsReopened(t)
      /\ \/ kept' = [t \in Tables |-> {}]
         \/ kept' = kept /\ DOMAIN catalog.tables \subseteq DOMAIN catalog'.tables
  BY <1>2 DEF AfterRestart
<1>4. CleanPages'
  BY <1>3 DEF CleanPages, IsPruned
<1>5. CountersCover'
  <2>1. ASSUME NEW u \in DOMAIN catalog'.tables, NEW p \in ToSet(PagesOf(u)')
        PROVE  Covers(catalog'.tables[u].auto, mem'[p])
    <3>1. CASE u \in DOMAIN catalog.tables
      <4>1. PICK k \in Nat : IsCutAt(u, k) /\ PagesOf(u)' = CutOf(u, k)
        BY <1>3, <3>1 DEF IsReopened
      <4>2. PICK a, b : a = catalog.tables[u].auto /\ b = catalog'.tables[u].auto
        OBVIOUS
      <4>3. a \in Nat /\ b \in Nat
        BY <1>1, <3>1, <4>2, AutoIsNat, NextAutoIsNat
      <4>4. a <= b
        BY <1>3, <3>1, <4>2 DEF IsReopened
      <4>5. p \in ToSet(PagesOf(u)) /\ p \in 0..(n - 1)
        BY <1>1, <1>2, <2>1, <3>1, <4>1, CutParts
      <4>6. disk[p] \in HeapPage /\ Covers(a, disk[p])
        BY <1>1, <1>2, <3>1, <4>2, <4>5, FileFacts, RowFacts
      <4>7. Covers(b, disk[p])
        BY <4>3, <4>4, <4>6, CoversMore
      <4> QED BY <1>3, <4>2, <4>5, <4>7
    <3>2. CASE u \notin DOMAIN catalog.tables
      <4>1. PagesOf(u)' = <<n>> /\ mem'[n] = EmptyPage
        BY <1>2, <1>3, <3>2 DEF IsReopened
      <4>2. p = n
        BY <4>1, LenProperties DEF ToSet
      <4> QED BY <4>1, <4>2, EmptyCovers
    <3> QED BY <3>1, <3>2
  <2> QED BY <1>3, <2>1 DEF CountersCover
<1>6. KeptRowsAreSafe'
  <2>1. ASSUME NEW t \in Tables, NEW row \in kept'[t]
        PROVE  row # Tombstone /\ t \in DOMAIN catalog'.tables /\ IsSafe(t, row)'
    <3>1. row \in kept[t] /\ DOMAIN catalog.tables \subseteq DOMAIN catalog'.tables
      BY <1>3
    <3>2. row # Tombstone /\ t \in DOMAIN catalog.tables /\ IsSafe(t, row)
      BY <3>1, RowFacts
    <3>3. PICK m \in Nat : IsCutAt(t, m) /\ PagesOf(t)' = CutOf(t, m)
      BY <1>3, <3>1, <3>2 DEF IsReopened
    <3>4. PICK c, cut : c = PagesOf(t) /\ cut = CutOf(t, m)
      OBVIOUS
    <3>5. PICK k \in 1..Len(c) :
              /\ Reached(mem, disk, c, k)
              /\ \E i \in Nat: Holds(mem[c[k]], i, row) /\ Holds(disk[c[k]], i, row)
      BY <3>2, <3>4 DEF IsSafe
    <3>6. c \in Seq(0..(n - 1)) /\ Len(c) \in Nat
      BY <1>1, <1>2, <3>2, <3>4, ChainFacts
    <3>7. k <= m
      BY <3>3, <3>4, <3>5 DEF IsCutAt
    <3>8. k \in 1..m /\ c[k] \in 0..(n - 1)
      BY <3>5, <3>6, <3>7, ElementOfSeq
    <3>9. Len(cut) = m /\ cut[k] = c[k]
      BY <1>1, <3>2, <3>3, <3>4, <3>8, CutParts
    <3>10. PagesOf(t)' = cut /\ k \in 1..Len(cut)
      BY <3>3, <3>4, <3>8, <3>9
    <3>11. Reached(mem', disk', cut, k)
      BY <1>3 DEF Reached
    <3>12. \E i \in Nat: Holds(mem'[cut[k]], i, row) /\ Holds(disk'[cut[k]], i, row)
      BY <1>3, <3>5, <3>8, <3>9
    <3>13. IsSafe(t, row)'
      BY <3>10, <3>11, <3>12 DEF IsSafe
    <3> QED BY <3>1, <3>2, <3>13
  <2> QED BY <2>1 DEF KeptRowsAreSafe, HasTable
<1> QED BY <1>4, <1>5, <1>6 DEF RowsInv

(* An empty database has no rows.                                            *)
LEMMA InitRows ==
    ASSUME Init
    PROVE  RowsInv
<1>1. StorageInv
  BY InitStorage
<1>2. mem = <<>> /\ catalog.tables = <<>> /\ kept = [t \in Tables |-> {}]
  BY DEF Init, NoCatalog
<1>3. DOMAIN mem = {} /\ DOMAIN catalog.tables = {} /\ \A t \in Tables: kept[t] = {}
  BY <1>2
<1> QED BY <1>1, <1>3 DEF RowsInv, CleanPages, CountersCover, KeptRowsAreSafe

(* Each step keeps it.                                                       *)
LEMMA NextKeepsRows ==
    ASSUME RowsInv, [Next]_vars
    PROVE  RowsInv'
<1>1. StorageInv
  BY DEF RowsInv
<1>2. ASSUME NEW t \in Tables, CreateTableStatement(t) PROVE RowsInv'
  BY <1>2, CreateTableKeepsRows
<1>3. ASSUME NEW t \in Tables, DropTableStatement(t) PROVE RowsInv'
  BY <1>3, DropKeepsRows
<1>4. ASSUME NEW t \in Tables, InsertStatement(t) PROVE RowsInv'
  <2>1. PICK row \in Row : t \in DOMAIN catalog.tables /\ InsertEffect(t, row)
    BY <1>1, <1>4, InsertIsInsert
  <2>2. \/ \E p, s: PutEffect(t, row, p, s)
        \/ \E page: /\ AppendEffect(t, page)
                    /\ page = EmptyPage \/ PutsRow(EmptyPage, page, 1, row)
    BY <2>1 DEF InsertEffect
  <2> QED BY <2>1, <2>2, PutKeepsRows, AppendKeepsRows
<1>5. ASSUME NEW t \in Tables, CrashInCreateTable(t) PROVE RowsInv'
  BY <1>1, <1>5, CrashInCreateTableKeepsStorage, RestartKeepsRows
<1>6. ASSUME NEW t \in Tables, CrashInInsert(t) PROVE RowsInv'
  BY <1>1, <1>6, CrashInInsertKeepsStorage, RestartKeepsRows
<1>7. ASSUME NEW t \in Edited, CreateIndexStatement(t) PROVE RowsInv'
  BY <1>7, CreateIndexKeepsRows
<1>8. ASSUME NEW t \in Edited, NEW old \in Texts, NEW new \in Texts, UpdateStatement(t, old, new)
      PROVE  RowsInv'
  <2>1. t \in DOMAIN catalog.tables /\ RewriteEffect(t, old)
    BY <1>1, <1>8, UpdateIsRewrite
  <2> QED BY <2>1, RewriteKeepsRows
<1>9. ASSUME NEW t \in Edited, NEW key \in Texts, DeleteStatement(t, key) PROVE RowsInv'
  <2>1. t \in DOMAIN catalog.tables /\ RewriteEffect(t, key)
    BY <1>1, <1>9, DeleteIsRewrite
  <2> QED BY <2>1, RewriteKeepsRows
<1>10. ASSUME NEW p \in DOMAIN mem, Evict(p) PROVE RowsInv'
  BY <1>10, EvictKeepsRows
<1>11. ASSUME Checkpoint PROVE RowsInv'
  BY <1>11, CheckpointKeepsRows
<1>12. ASSUME Crash PROVE RowsInv'
  BY <1>1, <1>12, CrashKeepsStorage, RestartKeepsRows
<1>13. CASE UNCHANGED vars
  <2>1. StorageInv'
    BY <1>1, NextKeepsStorage
  <2>2. UNCHANGED <<mem, disk, dirty, catalog, kept>>
    BY <1>13 DEF vars
  <2> QED BY <2>1, <2>2 DEF RowsInv, CleanPages, CountersCover, KeptRowsAreSafe, IsSafe,
                          Reached, PagesOf, First
<1> QED BY <1>2, <1>3, <1>4, <1>5, <1>6, <1>7, <1>8, <1>9, <1>10, <1>11, <1>12, <1>13 DEF Next

(* Spec => []RowsInv: pages not marked as changed hold what the disk holds,   *)
(* counters cover rows, and kept rows are on disk before the first link that  *)
(* is still to be written (page.py next_page, buffer_pool.py unpin, catalog   *)
(* .py:154, engine.py:144).                                                  *)
THEOREM RowsTheorem == Spec => []RowsInv
<1>1. Init => RowsInv
  BY InitRows
<1>2. RowsInv /\ [Next]_vars => RowsInv'
  BY NextKeepsRows
<1> QED BY <1>1, <1>2, PTL DEF Spec

(* Spec => []CheckpointedRowsSurvive: after a crash, and evictions in any     *)
(* order before it, a row of the last checkpoint is still in its table        *)
(* (engine.py:144 checkpoint, heap.py:204 the link of a new page).           *)
THEOREM CheckpointedRowsTheorem == Spec => []CheckpointedRowsSurvive
<1>1. RowsInv => CheckpointedRowsSurvive
  <2> SUFFICES ASSUME RowsInv, NEW t \in Tables, kept[t] # {}
               PROVE  HasTable(catalog, t) /\ kept[t] \subseteq RowsOf(t)
    BY DEF CheckpointedRowsSurvive
  <2>1. StorageInv
    BY DEF RowsInv
  <2>2. t \in DOMAIN catalog.tables
    BY RowFacts
  <2>3. ASSUME NEW row \in kept[t] PROVE row \in RowsOf(t)
    <3>1. row # Tombstone /\ IsSafe(t, row)
      BY RowFacts
    <3>2. PICK k \in 1..Len(PagesOf(t)) :
              \E i \in Nat: Holds(mem[PagesOf(t)[k]], i, row)
      BY <3>1 DEF IsSafe
    <3>3. PICK p, i : p = PagesOf(t)[k] /\ Holds(mem[p], i, row)
      BY <3>2
    <3>4. p \in ToSet(PagesOf(t)) /\ p \in 0..(FileSize - 1) /\ HeapOf(t) = PagesOf(t)
      BY <2>1, <2>2, <3>3, ChainFacts, ToSetParts
    <3>5. mem[p] \in HeapPage
      BY <2>1, <3>4, FileFacts
    <3>6. row \in RowsIn(mem, PagesOf(t))
      BY <3>1, <3>3, <3>4, <3>5, RowIsIn
    <3> QED BY <3>4, <3>6 DEF RowsOf
  <2> QED BY <2>2, <2>3 DEF HasTable
<1> QED BY <1>1, RowsTheorem, PTL

(* Spec => []CounterCoversRows: the counter in the file covers every id that  *)
(* AUTOINCREMENT gave to a row, in memory or on disk, so that no process that *)
(* opens the file gives it again (catalog.py:154).                           *)
THEOREM CounterTheorem == Spec => []CounterCoversRows
<1>1. RowsInv => CounterCoversRows
  <2> SUFFICES ASSUME RowsInv, catalogFile # Torn, NEW t \in DOMAIN catalogFile.tables,
                      NEW pages \in {mem, disk},
                      NEW row \in RowsIn(pages, Chain(pages, catalogFile.tables[t].first))
               PROVE  row.id \in GivenIds \/ row.id <= catalogFile.tables[t].auto
    BY DEF CounterCoversRows
  <2>1. StorageInv
    BY DEF RowsInv
  <2>2. catalogFile = catalog /\ t \in DOMAIN catalog.tables
    BY <2>1, CatalogFacts
  <2>3. PICK chain : chain = Chain(pages, First(t))
    OBVIOUS
  <2>4. row \in RowsIn(pages, chain)
    BY <2>2, <2>3 DEF First
  <2>5. ToSet(chain) \subseteq ToSet(PagesOf(t))
    <3>1. CASE pages = mem
      BY <2>3, <3>1 DEF PagesOf
    <3>2. CASE pages = disk
      <4>1. PICK k \in Nat : IsCutAt(t, k)
        BY <2>1, <2>2, DiskIsCut
      <4> QED BY <2>1, <2>2, <2>3, <3>2, <4>1, CutParts
    <3> QED BY <3>1, <3>2
  <2>6. \A p \in ToSet(chain): pages[p] \in HeapPage
    BY <2>1, <2>2, <2>5, ChainFacts, FileFacts
  <2>7. row # Tombstone /\ \E p \in ToSet(chain), i \in Nat: Holds(pages[p], i, row)
    BY <2>4, <2>6, RowsAre
  <2>8. PICK p \in ToSet(chain), i \in Nat : Holds(pages[p], i, row)
    BY <2>7
  <2>9. Covers(catalog.tables[t].auto, pages[p])
    BY <2>2, <2>5, RowFacts
  <2>10. row.id \in GivenIds \/ row.id <= catalog.tables[t].auto
    BY <2>7, <2>8, <2>9 DEF Holds, Covers
  <2> QED BY <2>2, <2>10
<1> QED BY <1>1, RowsTheorem, PTL

----------------------------------------------------------------------------
(* The indexes: IndexInv, for callers without Habits.                        *)

(* What IndexesFollow says of one tree.                                      *)
LEMMA IndexFacts ==
    ASSUME StorageInv, IndexesFollow, NEW i \in DOMAIN indexes
    PROVE  /\ i \in catalog.indexes /\ i \in IndexNames /\ i = Index(i.table, i.column)
           /\ i.table \in Tables /\ i.column \in {"id", "k"}
           /\ i.table \in DOMAIN catalog.tables =>
                 /\ \A p \in ToSet(PagesOf(i.table)): PageFollows(i, p)
                 /\ NamesPages(i)
           /\ i.table \notin DOMAIN catalog.tables => indexes[i] = {}
<1>1. i \in catalog.indexes
  BY DEF IndexesFollow
<1>2. i \in IndexNames
  BY <1>1, CatalogFacts DEF IsCatalog
<1>3. i = Index(i.table, i.column) /\ i.table \in Tables /\ i.column \in {"id", "k"}
  BY <1>2 DEF IndexNames, Index
<1>4. IF i.table \in DOMAIN catalog.tables THEN IndexFollows(i) /\ NamesPages(i)
      ELSE indexes[i] = {}
  BY DEF IndexesFollow, HasTable
<1> QED BY <1>1, <1>2, <1>3, <1>4 DEF IndexFollows

(* An empty tree follows an empty page.                                      *)
LEMMA EmptyFollows ==
    ASSUME NEW column, NEW p
    PROVE  Follows({}, column, p, EmptyPage)
<1>1. 1..Len(EmptyPage.slots) = {}
  BY EmptyPageIs
<1> QED BY <1>1 DEF Follows, HasEntries, Matches

(* A step that keeps the trees and the chains, and what is left to show.     *)
LEMMA IndexesKept ==
    ASSUME StorageInv, IndexesFollow, SameChains, indexes' = indexes,
           catalog'.indexes = catalog.indexes, DOMAIN catalog'.tables = DOMAIN catalog.tables,
           \A i \in DOMAIN indexes: \A p \in ToSet(PagesOf(i.table)):
              i.table \in DOMAIN catalog.tables => PageFollows(i, p)'
    PROVE  IndexesFollow'
<1>1. \A t \in DOMAIN catalog'.tables: PagesOf(t)' = PagesOf(t)
  BY DEF SameChains
<1>2. /\ DOMAIN indexes' \subseteq catalog'.indexes
      /\ indexes' = [i \in DOMAIN indexes' |-> indexes'[i]]
  BY DEF IndexesFollow
<1>3. ASSUME NEW i \in DOMAIN indexes'
      PROVE  IF i.table \in DOMAIN catalog'.tables THEN IndexFollows(i)' /\ NamesPages(i)'
             ELSE indexes'[i] = {}
  <2>1. CASE i.table \in DOMAIN catalog.tables
    <3>1. PagesOf(i.table)' = PagesOf(i.table) /\ NamesPages(i)
      BY <1>1, <2>1, IndexFacts
    <3>2. IndexFollows(i)'
      BY <2>1, <3>1 DEF IndexFollows
    <3>3. NamesPages(i)'
      BY <3>1 DEF NamesPages
    <3> QED BY <2>1, <3>2, <3>3
  <2>2. CASE i.table \notin DOMAIN catalog.tables
    BY <2>2, IndexFacts
  <2> QED BY <2>1, <2>2
<1> QED BY <1>2, <1>3 DEF IndexesFollow, HasTable

(* Eviction of a page, and a checkpoint: a page on disk becomes what a caller *)
(* sees, or the other way.                                                   *)
LEMMA EvictKeepsIndexes ==
    ASSUME StorageInv, IndexesFollow, NEW p \in DOMAIN mem, Evict(p)
    PROVE  IndexesFollow'
<1>1. SameChains
  BY EvictKeepsStorage
<1>2. /\ \/ p \in dirty /\ mem' = mem /\ disk' = [disk EXCEPT ![p] = mem[p]] /\ dirty' = dirty \ {p}
         \/ p \notin dirty /\ mem' = [mem EXCEPT ![p] = disk[p]] /\ disk' = disk /\ dirty' = dirty
      /\ indexes' = indexes /\ catalog' = catalog
  BY DEF Evict, MayRevert
<1>3. /\ DOMAIN mem = 0..(FileSize - 1) /\ DOMAIN disk = 0..(FileSize - 1)
      /\ p \in 0..(FileSize - 1)
  BY FileFacts
<1>4. \A q \in 0..(FileSize - 1):
         \/ mem'[q] = mem[q] /\ disk'[q] = disk[q] /\ (q \in dirty <=> q \in dirty')
         \/ mem'[q] = mem[q] /\ disk'[q] = mem[q]
         \/ mem'[q] = disk[q] /\ disk'[q] = disk[q] /\ q \notin dirty
  BY <1>2, <1>3
<1>5. ASSUME NEW i \in DOMAIN indexes, NEW q \in ToSet(PagesOf(i.table)),
             i.table \in DOMAIN catalog.tables
      PROVE  PageFollows(i, q)'
  <2>1. q \in 0..(FileSize - 1) /\ PageFollows(i, q)
    BY <1>5, ChainFacts, IndexFacts
  <2> QED BY <1>2, <1>4, <2>1 DEF PageFollows
<1> QED BY <1>1, <1>2, <1>5, IndexesKept

(* A checkpoint makes the disk agree with the pool, which the trees follow.  *)
LEMMA CheckpointKeepsIndexes ==
    ASSUME StorageInv, IndexesFollow, Checkpoint
    PROVE  IndexesFollow'
<1>1. SameChains
  BY CheckpointKeepsStorage
<1>2. DOMAIN mem = 0..(FileSize - 1) /\ DOMAIN disk = 0..(FileSize - 1)
  BY FileFacts
<1>3. /\ mem' = mem /\ dirty' = {} /\ indexes' = indexes /\ catalog' = catalog
      /\ disk' = [p \in 0..(FileSize - 1) |-> IF p \in dirty THEN mem[p] ELSE disk[p]]
  BY <1>2 DEF Checkpoint, Flushed
<1>4. \A q \in 0..(FileSize - 1): disk'[q] = mem[q] \/ (disk'[q] = disk[q] /\ q \notin dirty)
  BY <1>3
<1>5. ASSUME NEW i \in DOMAIN indexes, NEW q \in ToSet(PagesOf(i.table)),
             i.table \in DOMAIN catalog.tables
      PROVE  PageFollows(i, q)'
  <2>1. q \in 0..(FileSize - 1) /\ PageFollows(i, q)
    BY <1>5, ChainFacts, IndexFacts
  <2> QED BY <1>3, <1>4, <2>1 DEF PageFollows
<1> QED BY <1>1, <1>3, <1>5, IndexesKept

(* UPDATE and DELETE: what stays in a slot has the key that it had.          *)
LEMMA RewriteKeepsIndexes ==
    ASSUME StorageInv, IndexesFollow, NEW t \in DOMAIN catalog.tables, NEW key,
           RewriteEffect(t, key),
           \A i \in DOMAIN indexes: i.table = t => \A p \in ToSet(PagesOf(t)):
              \A j \in 1..Len(mem[p].slots):
                 mem'[p].slots[j] # Tombstone =>
                    /\ mem[p].slots[j] # Tombstone
                    /\ mem'[p].slots[j][i.column] = mem[p].slots[j][i.column]
    PROVE  IndexesFollow'
<1>1. SameChains
  BY RewriteKeepsStorage
<1>2. /\ indexes' = indexes /\ catalog'.indexes = catalog.indexes /\ disk' = disk
      /\ dirty \subseteq dirty' /\ DOMAIN catalog'.tables = DOMAIN catalog.tables
      /\ \A p \in 0..(FileSize - 1):
            /\ p \in ToSet(PagesOf(t)) => Len(mem'[p].slots) = Len(mem[p].slots)
            /\ p \notin ToSet(PagesOf(t)) => mem'[p] = mem[p]
  BY DEF RewriteEffect, SameTables, Rewrites
<1>3. ASSUME NEW i \in DOMAIN indexes, NEW p \in ToSet(PagesOf(i.table)),
             i.table \in DOMAIN catalog.tables
      PROVE  PageFollows(i, p)'
  <2>1. p \in 0..(FileSize - 1) /\ PageFollows(i, p)
    BY <1>3, ChainFacts, IndexFacts
  <2>2. p \notin dirty' => Follows(indexes[i], i.column, p, disk'[p])
    BY <1>2, <2>1 DEF PageFollows
  <2>3. CASE p \in ToSet(PagesOf(t))
    <3>1. i.table = t
      BY <1>3, <2>3, OtherPages
    <3>2. PICK entries, column : entries = indexes[i] /\ column = i.column
      OBVIOUS
    <3>3. PICK page, after : page = mem[p] /\ after = mem'[p]
      OBVIOUS
    <3>4. /\ Len(after.slots) = Len(page.slots)
          /\ \A j \in 1..Len(page.slots): after.slots[j] # Tombstone =>
                page.slots[j] # Tombstone /\ after.slots[j][column] = page.slots[j][column]
      BY <1>2, <2>1, <2>3, <3>1, <3>2, <3>3
    <3>5. Follows(entries, column, p, page)
      BY <2>1, <3>2, <3>3 DEF PageFollows
    <3>6. HasEntries(entries, column, p, after)
      BY <3>4, <3>5 DEF Follows, HasEntries
    <3>7. \A entry \in entries: Matches(entry, column, p, after)
      BY <3>4, <3>5 DEF Follows, Matches
    <3>8. Follows(entries, column, p, after)
      BY <3>6, <3>7 DEF Follows
    <3> QED BY <1>2, <2>2, <3>2, <3>3, <3>8 DEF PageFollows
  <2>4. CASE p \notin ToSet(PagesOf(t))
    BY <1>2, <2>1, <2>2, <2>4 DEF PageFollows
  <2> QED BY <2>3, <2>4
<1> QED BY <1>1, <1>2, <1>3, IndexesKept

(* UPDATE, by a caller that changes no indexed column.                       *)
LEMMA UpdateKeepsIndexes ==
    ASSUME Habits = {}, StorageInv, IndexesFollow, NEW t \in Edited, NEW old \in Texts,
           NEW new \in Texts, UpdateStatement(t, old, new)
    PROVE  IndexesFollow'
<1>1. t \in DOMAIN catalog.tables /\ RewriteEffect(t, old)
  BY UpdateIsRewrite
<1>2. Index(t, "k") \notin DOMAIN indexes
  BY DEF UpdateStatement
<1>3. ASSUME NEW i \in DOMAIN indexes, i.table = t, NEW p \in ToSet(PagesOf(t)),
             NEW j \in 1..Len(mem[p].slots), mem'[p].slots[j] # Tombstone
      PROVE  /\ mem[p].slots[j] # Tombstone
             /\ mem'[p].slots[j][i.column] = mem[p].slots[j][i.column]
  <2>1. i.column = "id"
    BY <1>2, <1>3, IndexFacts
  <2>2. p \in 0..(FileSize - 1)
    BY <1>1, ChainFacts
  <2>3. Rewrites(mem[p], mem'[p], old, p \in dirty')
    BY <1>1, <2>2 DEF RewriteEffect
  <2>4. PICK row, now : row = mem[p].slots[j] /\ now = mem'[p].slots[j]
    OBVIOUS
  <2>5. SlotRewritten(row, now, old, p \in dirty')
    BY <2>3, <2>4 DEF Rewrites
  <2>6. row # Tombstone /\ now["id"] = row["id"]
    BY <1>3, <2>4, <2>5 DEF SlotRewritten
  <2> QED BY <2>1, <2>4, <2>6
<1> QED BY <1>1, <1>3, RewriteKeepsIndexes

(* DELETE leaves its entries in the trees, for slots that are tombstones.    *)
LEMMA DeleteKeepsIndexes ==
    ASSUME StorageInv, IndexesFollow, NEW t \in Edited, NEW key \in Texts,
           DeleteStatement(t, key)
    PROVE  IndexesFollow'
<1>1. /\ t \in DOMAIN catalog.tables /\ RewriteEffect(t, key)
      /\ \A p \in ToSet(PagesOf(t)): \A j \in 1..Len(mem[p].slots):
            mem'[p].slots[j] \in {mem[p].slots[j], Tombstone}
  BY DeleteIsRewrite
<1>2. \A i \in DOMAIN indexes: i.table = t => \A p \in ToSet(PagesOf(t)):
         \A j \in 1..Len(mem[p].slots):
            mem'[p].slots[j] # Tombstone =>
               /\ mem[p].slots[j] # Tombstone
               /\ mem'[p].slots[j][i.column] = mem[p].slots[j][i.column]
  BY <1>1
<1> QED BY <1>1, <1>2, RewriteKeepsIndexes

(* DROP TABLE takes the trees of the table with it.                          *)
LEMMA DropKeepsIndexes ==
    ASSUME StorageInv, IndexesFollow, NEW t \in Tables, DropTableStatement(t)
    PROVE  IndexesFollow'
<1>1. SameChains
  BY DropKeepsStorage
<1>2. /\ catalog' = DropTable(catalog, t)
      /\ indexes' = Without(indexes, IndexesOf(catalog, t))
      /\ UNCHANGED <<mem, disk, dirty>>
  BY DEF DropTableStatement, Save
<1>3. /\ DOMAIN catalog'.tables = DOMAIN catalog.tables \ {t}
      /\ catalog'.indexes = {i \in catalog.indexes: i.table # t}
  BY <1>2, CatalogFacts, DropTableGives
<1>4. /\ DOMAIN indexes' = DOMAIN indexes \ IndexesOf(catalog, t)
      /\ indexes' = [i \in DOMAIN indexes' |-> indexes[i]]
      /\ \A i \in DOMAIN indexes': indexes'[i] = indexes[i]
  BY <1>2 DEF Without
<1>5. \A i \in DOMAIN indexes': i \in DOMAIN indexes /\ i \in catalog.indexes /\ i.table # t
  BY <1>4, IndexFacts DEF IndexesOf
<1>6. ASSUME NEW i \in DOMAIN indexes'
      PROVE  IF i.table \in DOMAIN catalog'.tables THEN IndexFollows(i)' /\ NamesPages(i)'
             ELSE indexes'[i] = {}
  <2>1. CASE i.table \in DOMAIN catalog.tables
    <3>1. i.table \in DOMAIN catalog'.tables /\ PagesOf(i.table)' = PagesOf(i.table)
      BY <1>1, <1>3, <1>5, <2>1 DEF SameChains
    <3>2. \A p \in ToSet(PagesOf(i.table)): PageFollows(i, p)'
      BY <1>2, <1>4, <1>5, <2>1, IndexFacts DEF PageFollows
    <3>3. IndexFollows(i)'
      BY <3>1, <3>2 DEF IndexFollows
    <3>4. NamesPages(i)'
      BY <1>4, <1>5, <2>1, <3>1, IndexFacts DEF NamesPages
    <3> QED BY <3>1, <3>3, <3>4
  <2>2. CASE i.table \notin DOMAIN catalog.tables
    BY <1>3, <1>4, <1>5, <2>2, IndexFacts
  <2> QED BY <2>1, <2>2
<1> QED BY <1>3, <1>4, <1>5, <1>6 DEF IndexesFollow, HasTable

(* CREATE INDEX fills its tree from the pages as a caller sees them, where    *)
(* they are what is on disk or marked as changed.                            *)
LEMMA CreateIndexKeepsIndexes ==
    ASSUME Habits = {}, StorageInv, IndexesFollow, NEW t \in Edited, CreateIndexStatement(t)
    PROVE  IndexesFollow'
<1>1. /\ SameChains /\ catalog'.tables = catalog.tables
      /\ catalog'.indexes = catalog.indexes \union {Index(t, "k")}
  BY CreateIndexKeepsStorage
<1>2. UNCHANGED <<mem, disk, dirty>>
  BY DEF CreateIndexStatement
<1>3. PICK new : new = Index(t, "k")
  OBVIOUS
<1>4. PICK made :
         /\ indexes' = Put(indexes, new, made)
         /\ t \in DOMAIN catalog.tables =>
               made = EntriesOf(t, "k") /\ \A p \in ToSet(HeapOf(t)): ~MayRevert(p)
         /\ t \notin DOMAIN catalog.tables => made = {}
  BY <1>3 DEF CreateIndexStatement, HasTable
<1>5. /\ DOMAIN indexes' = DOMAIN indexes \union {new} /\ indexes'[new] = made
      /\ \A i \in DOMAIN indexes: i # new => indexes'[i] = indexes[i]
      /\ indexes' = [i \in DOMAIN indexes' |-> indexes'[i]]
  BY <1>4 DEF Put
<1>6. new.table = t /\ new.column = "k"
  BY <1>3 DEF Index
<1>7. \A u \in DOMAIN catalog.tables: PagesOf(u)' = PagesOf(u)
  BY <1>1 DEF SameChains
<1>8. ASSUME t \in DOMAIN catalog.tables PROVE IndexFollows(new)' /\ NamesPages(new)'
  <2>1. made = EntriesOf(t, "k") /\ HeapOf(t) = PagesOf(t)
        /\ \A p \in ToSet(PagesOf(t)): ~MayRevert(p) /\ p \in 0..(FileSize - 1)
    BY <1>4, <1>8, ChainFacts
  <2>2. made = {<<Read(mem, rid)["k"], rid>>: rid \in RidsOf(mem, PagesOf(t))}
    BY <2>1 DEF EntriesOf
  <2>3. ASSUME NEW p \in ToSet(PagesOf(t)) PROVE Follows(made, "k", p, mem[p])
    <3>1. PICK page \in HeapPage : page = mem[p]
      BY <2>1, FileFacts
    <3>2. ASSUME NEW s \in 1..Len(page.slots), page.slots[s] # Tombstone
          PROVE  <<page.slots[s]["k"], Rid(p, s)>> \in made
      <4>1. s \in DOMAIN page.slots
        BY SlotsParts
      <4>2. PICK rid : rid = Rid(p, s)
        OBVIOUS
      <4>3. rid.page = p /\ rid.slot = s
        BY <4>2 DEF Rid
      <4>4. rid \in RidsOf(mem, PagesOf(t))
        BY <3>1, <3>2, <4>1, <4>2, RidIsIn
      <4>5. Read(mem, rid) = page.slots[s]
        BY <3>1, <4>1, <4>3 DEF Read
      <4> QED BY <2>2, <4>2, <4>4, <4>5
    <3>3. ASSUME NEW entry \in made, NEW s \in 1..Len(page.slots), entry[2] = Rid(p, s)
          PROVE  page.slots[s]["k"] = entry[1]
      <4>1. s \in DOMAIN page.slots
        BY SlotsParts
      <4>2. PICK rid \in RidsOf(mem, PagesOf(t)) : entry = <<Read(mem, rid)["k"], rid>>
        BY <2>2
      <4>3. rid = Rid(p, s) /\ entry[1] = Read(mem, rid)["k"]
        BY <3>3, <4>2
      <4>4. rid.page = p /\ rid.slot = s
        BY <4>3 DEF Rid
      <4> QED BY <3>1, <4>1, <4>3, <4>4 DEF Read
    <3> QED BY <3>1, <3>2, <3>3 DEF Follows, HasEntries, Matches
  <2>4. ASSUME NEW p \in ToSet(PagesOf(t)) PROVE PageFollows(new, p)'
    <3>1. p \notin dirty => mem[p] = disk[p]
      BY <2>1 DEF MayRevert
    <3> QED BY <1>2, <1>5, <1>6, <2>3, <3>1 DEF PageFollows
  <2>5. IndexFollows(new)'
    BY <1>6, <1>7, <1>8, <2>4 DEF IndexFollows
  <2>6. ASSUME NEW entry \in made
        PROVE  \E p \in ToSet(PagesOf(t)), s \in Nat: entry = <<entry[1], Rid(p, s)>>
    <3>1. PICK rid \in RidsOf(mem, PagesOf(t)) : entry = <<Read(mem, rid)["k"], rid>>
      BY <2>2
    <3>2. entry = <<entry[1], rid>>
      BY <3>1
    <3>3. \A p \in ToSet(PagesOf(t)): mem[p] \in HeapPage
      BY <2>1, FileFacts
    <3>4. \E p \in ToSet(PagesOf(t)), s \in Nat: rid = Rid(p, s)
      BY <3>3, RidsAre
    <3> QED BY <3>2, <3>4
  <2>7. NamesPages(new)'
    BY <1>5, <1>6, <1>7, <1>8, <2>6 DEF NamesPages
  <2> QED BY <2>5, <2>7
<1>9. ASSUME NEW i \in DOMAIN indexes'
      PROVE  IF i.table \in DOMAIN catalog'.tables THEN IndexFollows(i)' /\ NamesPages(i)'
             ELSE indexes'[i] = {}
  <2>1. CASE i = new
    BY <1>1, <1>4, <1>5, <1>6, <1>8, <2>1
  <2>2. CASE i # new
    <3>1. i \in DOMAIN indexes /\ indexes'[i] = indexes[i]
      BY <1>5, <2>2
    <3>2. CASE i.table \in DOMAIN catalog.tables
      <4>1. PagesOf(i.table)' = PagesOf(i.table) /\ i.table \in DOMAIN catalog'.tables
        BY <1>1, <1>7, <3>2
      <4>2. \A p \in ToSet(PagesOf(i.table)): PageFollows(i, p)'
        BY <1>2, <3>1, <3>2, IndexFacts DEF PageFollows
      <4>3. IndexFollows(i)'
        BY <4>1, <4>2 DEF IndexFollows
      <4>4. NamesPages(i)'
        BY <3>1, <3>2, <4>1, IndexFacts DEF NamesPages
      <4> QED BY <4>1, <4>3, <4>4
    <3>3. CASE i.table \notin DOMAIN catalog.tables
      BY <1>1, <3>1, <3>3, IndexFacts
    <3> QED BY <3>2, <3>3
  <2> QED BY <2>1, <2>2
<1>10. DOMAIN indexes' \subseteq catalog'.indexes
  BY <1>1, <1>3, <1>5 DEF IndexesFollow
<1> QED BY <1>5, <1>9, <1>10 DEF IndexesFollow, HasTable

(* CREATE TABLE: an empty tree for an empty page.                            *)
LEMMA CreateTableKeepsIndexes ==
    ASSUME StorageInv, IndexesFollow, NEW t \in Tables, CreateTableStatement(t)
    PROVE  IndexesFollow'
<1>1. PICK n \in Nat : n = FileSize
  BY FileFacts
<1>2. /\ OldChains(t) /\ PagesOf(t)' = <<n>> /\ t \notin DOMAIN catalog.tables
      /\ mem'[n] = EmptyPage /\ disk'[n] = EmptyPage
      /\ \A p \in 0..(n - 1): mem'[p] = mem[p] /\ disk'[p] = disk[p]
      /\ dirty' = dirty \union {n}
      /\ DOMAIN catalog'.tables = DOMAIN catalog.tables \union {t}
      /\ catalog'.indexes = catalog.indexes \union {PrimaryKey(t)}
  BY <1>1, CreateTableKeepsStorage
<1>3. PICK new : new = PrimaryKey(t)
  OBVIOUS
<1>4. indexes' = Put(indexes, new, {})
  BY <1>3 DEF CreateTableStatement
<1>5. /\ DOMAIN indexes' = DOMAIN indexes \union {new} /\ indexes'[new] = {}
      /\ \A i \in DOMAIN indexes: i # new => indexes'[i] = indexes[i]
      /\ indexes' = [i \in DOMAIN indexes' |-> indexes'[i]]
  BY <1>4 DEF Put
<1>6. new.table = t /\ ToSet(<<n>>) = {n}
  BY <1>3, LenProperties DEF PrimaryKey, Index, ToSet
<1>7. ASSUME NEW i \in DOMAIN indexes', i.table = t
      PROVE  IndexFollows(i)' /\ NamesPages(i)'
  <2>1. indexes'[i] = {}
    BY <1>2, <1>5, <1>7, IndexFacts
  <2>2. PageFollows(i, n)'
    BY <1>2, <2>1, EmptyFollows DEF PageFollows
  <2> QED BY <1>2, <1>6, <1>7, <2>1, <2>2 DEF IndexFollows, NamesPages
<1>8. ASSUME NEW i \in DOMAIN indexes', i.table # t
      PROVE  IF i.table \in DOMAIN catalog'.tables THEN IndexFollows(i)' /\ NamesPages(i)'
             ELSE indexes'[i] = {}
  <2>1. i \in DOMAIN indexes /\ indexes'[i] = indexes[i]
    BY <1>5, <1>6, <1>8
  <2>2. CASE i.table \in DOMAIN catalog.tables
    <3>1. PagesOf(i.table)' = PagesOf(i.table) /\ i.table \in DOMAIN catalog'.tables
      BY <1>2, <1>8, <2>2 DEF OldChains
    <3>2. ASSUME NEW p \in ToSet(PagesOf(i.table)) PROVE PageFollows(i, p)'
      <4>1. p \in 0..(n - 1) /\ PageFollows(i, p)
        BY <1>1, <2>1, <2>2, ChainFacts, IndexFacts
      <4> QED BY <1>2, <2>1, <4>1 DEF PageFollows
    <3>3. IndexFollows(i)'
      BY <3>1, <3>2 DEF IndexFollows
    <3>4. NamesPages(i)'
      BY <2>1, <2>2, <3>1, IndexFacts DEF NamesPages
    <3> QED BY <3>1, <3>3, <3>4
  <2>3. CASE i.table \notin DOMAIN catalog.tables
    BY <1>2, <1>8, <2>1, <2>3, IndexFacts
  <2> QED BY <2>2, <2>3
<1>9. DOMAIN indexes' \subseteq catalog'.indexes
  BY <1>2, <1>3, <1>5 DEF IndexesFollow
<1>10. \A i \in DOMAIN indexes':
          IF i.table \in DOMAIN catalog'.tables THEN IndexFollows(i)' /\ NamesPages(i)'
          ELSE indexes'[i] = {}
  BY <1>2, <1>7, <1>8
<1> QED BY <1>5, <1>9, <1>10 DEF IndexesFollow, HasTable

(* A restart leaves no tree.                                                 *)
LEMMA RestartKeepsIndexes ==
    ASSUME AfterRestart
    PROVE  IndexesFollow'
<1>1. indexes' = <<>> /\ DOMAIN indexes' = {}
  BY DEF AfterRestart
<1> QED BY <1>1 DEF IndexesFollow

(* A record id is of one slot of one page.                                   *)
LEMMA RidParts ==
    ASSUME NEW p, NEW s
    PROVE  Rid(p, s).page = p /\ Rid(p, s).slot = s
BY DEF Rid

(* The entry of a row that a page got, where no entry named its slot.        *)
LEMMA EntryAdded ==
    ASSUME NEW page, NEW after, NEW s, NEW row, PutsRow(page, after, s, row),
           NEW entries, NEW column, NEW p, Follows(entries, column, p, page),
           \A entry \in entries: entry[2] # Rid(p, s)
    PROVE  Follows(entries \union {<<row[column], Rid(p, s)>>}, column, p, after)
<1> DEFINE new == <<row[column], Rid(p, s)>>
<1>1. /\ after.slots[s] = row
      /\ \A i \in 1..Len(after.slots):
            i # s => i \in 1..Len(page.slots) /\ after.slots[i] = page.slots[i]
  BY DEF PutsRow
<1>2. HasEntries(entries \union {new}, column, p, after)
  BY <1>1 DEF Follows, HasEntries
<1>3. ASSUME NEW entry \in entries \union {new} PROVE Matches(entry, column, p, after)
  <2>1. CASE entry \in entries
    BY <1>1, <2>1 DEF Follows, Matches
  <2>2. CASE entry = new
    <3>1. entry[2] = Rid(p, s) /\ entry[1] = row[column]
      BY <2>2
    <3>2. \A i: Rid(p, s) = Rid(p, i) => i = s
      BY RidParts
    <3> QED BY <1>1, <3>1, <3>2 DEF Matches
  <2> QED BY <2>1, <2>2
<1> QED BY <1>2, <1>3 DEF Follows

(* An entry of another page.                                                 *)
LEMMA EntryElsewhere ==
    ASSUME NEW entries, NEW column, NEW q, NEW page, Follows(entries, column, q, page),
           NEW key, NEW p, NEW s, p # q
    PROVE  Follows(entries \union {<<key, Rid(p, s)>>}, column, q, page)
<1> DEFINE new == <<key, Rid(p, s)>>
<1>1. HasEntries(entries \union {new}, column, q, page)
  BY DEF Follows, HasEntries
<1>2. Matches(new, column, q, page)
  <2>1. new[2] = Rid(p, s)
    OBVIOUS
  <2>2. \A i: Rid(p, s) # Rid(q, i)
    BY RidParts
  <2> QED BY <2>1, <2>2 DEF Matches
<1>3. \A entry \in entries \union {new}: Matches(entry, column, q, page)
  BY <1>2 DEF Follows
<1> QED BY <1>1, <1>3 DEF Follows

(* Without stale entries an entry names a live row, with its key.            *)
LEMMA LiveEntries ==
    ASSUME StorageInv, IndexesFollow, NEW t \in DOMAIN catalog.tables, ~HasStaleEntries(t),
           NEW i \in DOMAIN indexes, i.table = t, NEW entry \in indexes[i]
    PROVE  \E p \in ToSet(PagesOf(t)), s \in Nat:
              /\ entry = <<entry[1], Rid(p, s)>> /\ s \in 1..Len(mem[p].slots)
              /\ mem[p].slots[s] # Tombstone /\ mem[p].slots[s][i.column] = entry[1]
<1>1. NamesPages(i)
  BY IndexFacts
<1>2. PICK p \in ToSet(PagesOf(t)), s \in Nat : entry = <<entry[1], Rid(p, s)>>
  BY <1>1 DEF NamesPages
<1>3. entry[2] = Rid(p, s)
  BY <1>2
<1>4. PICK page \in HeapPage : page = mem[p]
  <2>1. p \in 0..(FileSize - 1)
    BY ChainFacts
  <2> QED BY <2>1, FileFacts
<1>5. ~IsStale(i, entry)
  BY DEF HasStaleEntries, InMemory
<1>6. PICK row : row = Read(mem, entry[2])
  OBVIOUS
<1>7. row # Tombstone /\ row[i.column] = entry[1]
  BY <1>5, <1>6 DEF IsStale
<1>8. Rid(p, s).page = p /\ Rid(p, s).slot = s
  BY RidParts
<1>9. s \in DOMAIN page.slots /\ row = page.slots[s]
  BY <1>3, <1>4, <1>6, <1>7, <1>8 DEF Read
<1>10. s \in 1..Len(page.slots)
  BY <1>9, SlotsParts
<1> QED BY <1>2, <1>4, <1>7, <1>9, <1>10

(* The id of an inserted row is in no row of the table: AUTOINCREMENT goes    *)
(* past the rows that its counter covers, and below the ids that are given.  *)
IsNewId(t, id) ==
    /\ id \in GivenIds \/ id = catalog.tables[t].auto + 1
    /\ id \in GivenIds => \A other \in RowsOf(t): other.id # id

(* A row with such an id is not there yet.                                   *)
LEMMA NewIdIsFresh ==
    ASSUME RowsInv, NEW t \in DOMAIN catalog.tables, NEW id, IsNewId(t, id),
           NEW p \in ToSet(PagesOf(t)), NEW s \in 1..Len(mem[p].slots),
           mem[p].slots[s] # Tombstone
    PROVE  mem[p].slots[s].id # id
<1>1. StorageInv
  BY DEF RowsInv
<1>2. p \in 0..(FileSize - 1) /\ HeapOf(t) = PagesOf(t)
  BY <1>1, ChainFacts
<1>3. PICK page \in HeapPage : page = mem[p]
  BY <1>1, <1>2, FileFacts
<1>4. PICK row : row = page.slots[s]
  OBVIOUS
<1>5. row \in Row
  BY <1>3, <1>4, SlotsParts DEF Slot
<1>6. CASE id \in GivenIds
  <2>1. Holds(mem[p], s, row) /\ row # Tombstone
    BY <1>3, <1>4 DEF Holds
  <2>2. row \in RowsIn(mem, PagesOf(t))
    BY <1>3, <2>1, RowIsIn
  <2>3. row \in RowsOf(t)
    BY <1>2, <2>2 DEF RowsOf
  <2> QED BY <1>3, <1>4, <1>6, <2>3 DEF IsNewId
<1>7. CASE id \notin GivenIds
  <2>1. PICK a \in Nat : a = catalog.tables[t].auto
    BY <1>1, AutoIsNat
  <2>2. id = a + 1
    BY <1>7, <2>1 DEF IsNewId
  <2>3. row.id \in GivenIds \/ row.id <= a
    BY <1>3, <1>4, <2>1, RowFacts DEF Covers
  <2>4. row.id \in Nat
    <3>1. PICK n \in GivenIds \union 1..MaxAuto : n = row.id
      BY <1>5 DEF Row
    <3>2. CASE n \in GivenIds
      <4>1. GivenIds \subseteq Nat
        BY DatabaseAssumption
      <4>2. n \in Nat
        BY <3>2, <4>1, Zenon
      <4> QED BY <3>1, <4>2
    <3>3. CASE n \in 1..MaxAuto
      <4>1. PICK m \in Nat : m = MaxAuto
        BY DatabaseAssumption
      <4>2. n \in 1..m
        BY <3>3, <4>1
      <4>3. n \in Nat
        BY <4>2
      <4> QED BY <3>1, <4>3
    <3> QED BY <3>1, <3>2, <3>3
  <2>5. row.id # id
    BY <1>7, <2>2, <2>3, <2>4
  <2> QED BY <1>3, <1>4, <2>5
<1> QED BY <1>6, <1>7

(* So every tree of the table gets the entry.                                *)
AddsEntries(trees, t, row, rid) ==
    \A i \in DOMAIN indexes:
        trees[i] = IF i.table = t THEN indexes[i] \union {<<row[i.column], rid>>} ELSE indexes[i]

(* The trees after an insert: each one of the table has one entry more.      *)
LEMMA IndexedAdds ==
    ASSUME RowsInv, IndexesFollow, NEW t \in DOMAIN catalog.tables, ~HasStaleEntries(t),
           NEW row, IsNewId(t, row.id), NEW rid
    PROVE  AddsEntries(Indexed(t, row, rid), t, row, rid)
<1>1. StorageInv
  BY DEF RowsInv
<1>2. ASSUME NEW i \in DOMAIN indexes
      PROVE  Indexed(t, row, rid)[i] =
                IF i.table = t THEN indexes[i] \union {<<row[i.column], rid>>} ELSE indexes[i]
  <2>1. i \in IndexesOf(catalog, t) <=> i.table = t
    BY <1>1, IndexFacts DEF IndexesOf
  <2>2. ASSUME i.table = t, IsUnique(i), NEW entry \in indexes[i] PROVE entry[1] # row.id
    <3>1. PICK p \in ToSet(PagesOf(t)), s \in Nat :
              /\ s \in 1..Len(mem[p].slots) /\ mem[p].slots[s] # Tombstone
              /\ mem[p].slots[s][i.column] = entry[1]
      BY <1>1, <2>2, LiveEntries
    <3>2. mem[p].slots[s].id # row.id
      BY <3>1, NewIdIsFresh
    <3>3. mem[p].slots[s]["id"] = entry[1]
      BY <2>2, <3>1 DEF IsUnique
    <3> QED BY <3>2, <3>3
  <2> QED BY <2>1, <2>2 DEF Indexed
<1> QED BY <1>2 DEF AddsEntries

(* INSERT into a page of the chain, with its entries.                        *)
LEMMA PutKeepsIndexes ==
    ASSUME RowsInv, IndexesFollow, NEW t \in DOMAIN catalog.tables, ~HasStaleEntries(t),
           NEW row, IsNewId(t, row.id), InsertEffect(t, row),
           NEW p, NEW s, PutEffect(t, row, p, s)
    PROVE  IndexesFollow'
<1>1. StorageInv
  BY DEF RowsInv
<1>2. SameChains
  BY <1>1, PutKeepsStorage
<1>3. /\ p \in ToSet(PagesOf(t)) /\ PutsRow(mem[p], mem'[p], s, row)
      /\ \A q \in 0..(FileSize - 1): q # p => mem'[q] = mem[q]
      /\ disk' = disk /\ dirty' = dirty \union {p}
  BY DEF PutEffect
<1>4. DOMAIN catalog'.tables = DOMAIN catalog.tables /\ catalog'.indexes = catalog.indexes
  BY DEF InsertEffect
<1>5. PICK rid : rid = Rid(p, s)
  OBVIOUS
<1>6. indexes' = Indexed(t, row, rid)
  BY <1>5 DEF PutEffect
<1>7. DOMAIN indexes' = DOMAIN indexes /\ indexes' = [i \in DOMAIN indexes' |-> indexes'[i]]
  BY <1>6 DEF Indexed
<1>8. \A i \in DOMAIN indexes:
         indexes'[i] = IF i.table = t THEN indexes[i] \union {<<row[i.column], rid>>}
                       ELSE indexes[i]
  <2>1. AddsEntries(Indexed(t, row, rid), t, row, rid)
    BY IndexedAdds
  <2> QED BY <1>6, <2>1 DEF AddsEntries
<1>9. \A u \in DOMAIN catalog.tables: PagesOf(u)' = PagesOf(u)
  BY <1>2, <1>4 DEF SameChains
<1>10. s \in Nat
  <2>1. PICK after \in HeapPage : after = mem'[p]
    BY <1>3 DEF PutsRow
  <2>2. s \in 1..Len(after.slots)
    BY <1>3, <2>1 DEF PutsRow
  <2> QED BY <2>2, SlotsParts
<1>11. ASSUME NEW i \in DOMAIN indexes, i.table = t
       PROVE  IndexFollows(i)' /\ NamesPages(i)'
  <2>1. PICK entries, column, key :
            entries = indexes[i] /\ column = i.column /\ key = row[column]
    OBVIOUS
  <2>2. indexes'[i] = entries \union {<<key, rid>>}
    BY <1>8, <1>11, <2>1
  <2>3. ASSUME NEW entry \in entries PROVE entry[2] # Rid(p, s)
    <3>1. PICK q \in ToSet(PagesOf(t)), j \in Nat :
              /\ entry = <<entry[1], Rid(q, j)>> /\ j \in 1..Len(mem[q].slots)
              /\ mem[q].slots[j] # Tombstone
      BY <1>1, <1>11, <2>1, <2>3, LiveEntries
    <3>2. ASSUME entry[2] = Rid(p, s) PROVE q = p /\ j = s
      <4>1. Rid(q, j) = Rid(p, s)
        BY <3>1, <3>2
      <4> QED BY <4>1, RidParts
    <3>3. s \in 1..Len(mem[p].slots) => mem[p].slots[s] = Tombstone
      BY <1>3 DEF PutsRow
    <3> QED BY <3>1, <3>2, <3>3
  <2>4. ASSUME NEW q \in ToSet(PagesOf(t)) PROVE PageFollows(i, q)'
    <3>1. q \in 0..(FileSize - 1) /\ PageFollows(i, q)
      BY <1>1, <1>11, <2>4, ChainFacts, IndexFacts
    <3>2. CASE q = p
      <4>1. PICK page, after : page = mem[p] /\ after = mem'[p]
        OBVIOUS
      <4>2. PutsRow(page, after, s, row) /\ Follows(entries, column, p, page)
        BY <1>3, <2>1, <3>1, <3>2, <4>1 DEF PageFollows
      <4>3. Follows(entries \union {<<row[column], Rid(p, s)>>}, column, p, after)
        BY <2>3, <4>2, EntryAdded
      <4> QED BY <1>3, <1>5, <2>1, <2>2, <3>2, <4>1, <4>3 DEF PageFollows
    <3>3. CASE q # p
      <4>1. mem'[q] = mem[q] /\ disk'[q] = disk[q] /\ (q \notin dirty' => q \notin dirty)
        BY <1>3, <3>1, <3>3
      <4>2. \A page: Follows(entries, column, q, page) =>
               Follows(entries \union {<<key, Rid(p, s)>>}, column, q, page)
        BY <3>3, EntryElsewhere
      <4> QED BY <1>5, <2>1, <2>2, <3>1, <4>1, <4>2 DEF PageFollows
    <3> QED BY <3>2, <3>3
  <2>5. IndexFollows(i)'
    BY <1>9, <1>11, <2>4 DEF IndexFollows
  <2>6. ASSUME NEW entry \in entries \union {<<key, rid>>}
        PROVE  \E q \in ToSet(PagesOf(t)), j \in Nat: entry = <<entry[1], Rid(q, j)>>
    <3>1. CASE entry \in entries
      BY <1>1, <1>11, <2>1, <3>1, IndexFacts DEF NamesPages
    <3>2. CASE entry = <<key, rid>>
      BY <1>3, <1>5, <1>10, <3>2
    <3> QED BY <3>1, <3>2
  <2>7. NamesPages(i)'
    BY <1>9, <1>11, <2>2, <2>6 DEF NamesPages
  <2> QED BY <2>5, <2>7
<1>12. ASSUME NEW i \in DOMAIN indexes, i.table # t
       PROVE  IF i.table \in DOMAIN catalog'.tables THEN IndexFollows(i)' /\ NamesPages(i)'
              ELSE indexes'[i] = {}
  <2>1. indexes'[i] = indexes[i]
    BY <1>8, <1>12
  <2>2. CASE i.table \in DOMAIN catalog.tables
    <3>1. ASSUME NEW q \in ToSet(PagesOf(i.table)) PROVE PageFollows(i, q)'
      <4>1. q \in 0..(FileSize - 1) /\ PageFollows(i, q) /\ q # p
        BY <1>1, <1>3, <1>12, <2>2, ChainFacts, IndexFacts, OtherPages
      <4> QED BY <1>3, <2>1, <4>1 DEF PageFollows
    <3>2. IndexFollows(i)'
      BY <1>9, <2>2, <3>1 DEF IndexFollows
    <3>3. NamesPages(i)'
      BY <1>1, <1>9, <2>1, <2>2, IndexFacts DEF NamesPages
    <3> QED BY <1>4, <2>2, <3>2, <3>3
  <2>3. CASE i.table \notin DOMAIN catalog.tables
    BY <1>1, <1>4, <2>1, <2>3, IndexFacts
  <2> QED BY <2>2, <2>3
<1>13. \A i \in DOMAIN indexes':
          IF i.table \in DOMAIN catalog'.tables THEN IndexFollows(i)' /\ NamesPages(i)'
          ELSE indexes'[i] = {}
  BY <1>4, <1>7, <1>11, <1>12
<1>14. DOMAIN indexes' \subseteq catalog'.indexes
  BY <1>4, <1>7 DEF IndexesFollow
<1> QED BY <1>7, <1>13, <1>14 DEF IndexesFollow, HasTable

(* INSERT into a new page, with its entries or, if the row is too large for   *)
(* a page, without a row.                                                    *)
LEMMA AppendKeepsIndexes ==
    ASSUME RowsInv, IndexesFollow, NEW t \in DOMAIN catalog.tables, ~HasStaleEntries(t),
           NEW row, IsNewId(t, row.id), InsertEffect(t, row),
           NEW page, AppendEffect(t, page),
           \/ page = EmptyPage /\ indexes' = indexes
           \/ /\ PutsRow(EmptyPage, page, 1, row)
              /\ indexes' = Indexed(t, row, Rid(FileSize, 1))
    PROVE  IndexesFollow'
<1>1. StorageInv
  BY DEF RowsInv
<1>2. PICK n \in Nat : n = FileSize
  BY <1>1, FileFacts
<1>3. /\ OldChains(t) /\ ToSet(PagesOf(t)') = ToSet(PagesOf(t)) \union {n}
      /\ mem'[n] = page
      /\ \A p \in 0..(n - 1): mem'[p].slots = mem[p].slots /\ disk'[p] = disk[p]
  BY <1>1, <1>2, AppendKeepsStorage
<1>4. dirty \subseteq dirty' /\ n \in dirty'
  BY <1>2 DEF AppendEffect
<1>5. DOMAIN catalog'.tables = DOMAIN catalog.tables /\ catalog'.indexes = catalog.indexes
  BY DEF InsertEffect
<1>6. PICK rid : rid = Rid(n, 1)
  OBVIOUS
<1>7. \/ page = EmptyPage /\ indexes' = indexes
      \/ PutsRow(EmptyPage, page, 1, row) /\ indexes' = Indexed(t, row, rid)
  BY <1>2, <1>6
<1>8. DOMAIN indexes' = DOMAIN indexes /\ indexes' = [i \in DOMAIN indexes' |-> indexes'[i]]
  BY <1>7 DEF Indexed, IndexesFollow
<1>9. \A i \in DOMAIN indexes:
         /\ i.table # t => indexes'[i] = indexes[i]
         /\ i.table = t =>
               \/ page = EmptyPage /\ indexes'[i] = indexes[i]
               \/ /\ PutsRow(EmptyPage, page, 1, row)
                  /\ indexes'[i] = indexes[i] \union {<<row[i.column], rid>>}
  <2>1. AddsEntries(Indexed(t, row, rid), t, row, rid)
    BY IndexedAdds
  <2> QED BY <1>7, <2>1 DEF AddsEntries
<1>10. \A u \in DOMAIN catalog.tables: u # t => PagesOf(u)' = PagesOf(u)
  BY <1>3, <1>5 DEF OldChains
<1>11. ASSUME NEW i \in DOMAIN indexes, i.table \in DOMAIN catalog.tables,
              NEW q \in ToSet(PagesOf(i.table))
       PROVE  /\ q \in 0..(n - 1) /\ Follows(indexes[i], i.column, q, mem'[q])
              /\ q \notin dirty' => Follows(indexes[i], i.column, q, disk'[q])
  <2>1. q \in 0..(n - 1) /\ PageFollows(i, q)
    BY <1>1, <1>2, <1>11, ChainFacts, IndexFacts
  <2>2. PICK old, now : old = mem[q] /\ now = mem'[q]
    OBVIOUS
  <2>3. now.slots = old.slots /\ Follows(indexes[i], i.column, q, old)
    BY <1>3, <2>1, <2>2 DEF PageFollows
  <2>4. Follows(indexes[i], i.column, q, now)
    BY <2>3 DEF Follows, HasEntries, Matches
  <2> QED BY <1>3, <1>4, <2>1, <2>2, <2>4 DEF PageFollows
<1>12. ASSUME NEW i \in DOMAIN indexes, i.table = t
       PROVE  IndexFollows(i)' /\ NamesPages(i)'
  <2>1. PICK entries, column, key :
            entries = indexes[i] /\ column = i.column /\ key = row[column]
    OBVIOUS
  <2>2. ASSUME NEW entry \in entries
        PROVE  \E q \in ToSet(PagesOf(t)), j \in Nat: entry = <<entry[1], Rid(q, j)>>
    BY <1>1, <1>12, <2>1, <2>2, IndexFacts DEF NamesPages
  <2>3. ASSUME NEW entry \in entries, NEW j PROVE entry[2] # Rid(n, j)
    <3>1. PICK q \in ToSet(PagesOf(t)), l \in Nat : entry = <<entry[1], Rid(q, l)>>
      BY <2>2, <2>3
    <3>2. q \in 0..(n - 1)
      BY <1>1, <1>2, <3>1, ChainFacts
    <3>3. entry[2] = Rid(q, l) /\ q # n
      BY <3>1, <3>2
    <3>4. Rid(q, l).page = q /\ Rid(n, j).page = n
      BY RidParts
    <3> QED BY <3>3, <3>4
  <2>4. Follows(entries, column, n, EmptyPage)
    <3>1. 1..Len(EmptyPage.slots) = {}
      BY EmptyPageIs
    <3> QED BY <3>1 DEF Follows, HasEntries, Matches
  <2>5. CASE page = EmptyPage /\ indexes'[i] = entries
    <3>1. PageFollows(i, n)'
      BY <1>3, <1>4, <2>1, <2>4, <2>5 DEF PageFollows
    <3>2. ASSUME NEW q \in ToSet(PagesOf(t)) PROVE PageFollows(i, q)'
      BY <1>11, <1>12, <2>1, <2>5, <3>2 DEF PageFollows
    <3>3. IndexFollows(i)'
      BY <1>3, <1>12, <3>1, <3>2 DEF IndexFollows
    <3>4. NamesPages(i)'
      BY <1>3, <1>12, <2>2, <2>5 DEF NamesPages
    <3> QED BY <3>3, <3>4
  <2>6. CASE PutsRow(EmptyPage, page, 1, row) /\ indexes'[i] = entries \union {<<key, rid>>}
    <3>1. PageFollows(i, n)'
      <4>1. PICK empty : empty = EmptyPage
        OBVIOUS
      <4>2. PutsRow(empty, page, 1, row) /\ Follows(entries, column, n, empty)
        BY <2>4, <2>6, <4>1
      <4>3. Follows(entries \union {<<row[column], Rid(n, 1)>>}, column, n, page)
        BY <2>3, <4>2, EntryAdded
      <4> QED BY <1>3, <1>4, <1>6, <2>1, <2>6, <4>3 DEF PageFollows
    <3>2. ASSUME NEW q \in ToSet(PagesOf(t)) PROVE PageFollows(i, q)'
      <4>1. /\ q \in 0..(n - 1) /\ Follows(entries, column, q, mem'[q])
            /\ q \notin dirty' => Follows(entries, column, q, disk'[q])
        BY <1>11, <1>12, <2>1, <3>2
      <4>2. n # q
        BY <4>1
      <4>3. \A any: Follows(entries, column, q, any) =>
               Follows(entries \union {<<key, Rid(n, 1)>>}, column, q, any)
        BY <4>2, EntryElsewhere
      <4> QED BY <1>6, <2>1, <2>6, <4>1, <4>3 DEF PageFollows
    <3>3. IndexFollows(i)'
      BY <1>3, <1>12, <3>1, <3>2 DEF IndexFollows
    <3>4. ASSUME NEW entry \in entries \union {<<key, rid>>}
          PROVE  \E q \in ToSet(PagesOf(t)) \union {n}, j \in Nat: entry = <<entry[1], Rid(q, j)>>
      <4>1. CASE entry \in entries
        BY <2>2, <4>1
      <4>2. CASE entry = <<key, rid>>
        BY <1>6, <4>2
      <4> QED BY <4>1, <4>2
    <3>5. NamesPages(i)'
      BY <1>3, <1>12, <2>6, <3>4 DEF NamesPages
    <3> QED BY <3>3, <3>5
  <2> QED BY <1>9, <1>12, <2>1, <2>5, <2>6
<1>13. ASSUME NEW i \in DOMAIN indexes, i.table # t
       PROVE  IF i.table \in DOMAIN catalog'.tables THEN IndexFollows(i)' /\ NamesPages(i)'
              ELSE indexes'[i] = {}
  <2>1. indexes'[i] = indexes[i]
    BY <1>9, <1>13
  <2>2. CASE i.table \in DOMAIN catalog.tables
    <3>1. PagesOf(i.table)' = PagesOf(i.table)
      BY <1>10, <1>13, <2>2
    <3>2. IndexFollows(i)'
      BY <1>11, <2>1, <2>2, <3>1 DEF IndexFollows, PageFollows
    <3>3. NamesPages(i)'
      BY <1>1, <2>1, <2>2, <3>1, IndexFacts DEF NamesPages
    <3> QED BY <1>5, <2>2, <3>2, <3>3
  <2>3. CASE i.table \notin DOMAIN catalog.tables
    BY <1>1, <1>5, <2>1, <2>3, IndexFacts
  <2> QED BY <2>2, <2>3
<1>14. \A i \in DOMAIN indexes':
          IF i.table \in DOMAIN catalog'.tables THEN IndexFollows(i)' /\ NamesPages(i)'
          ELSE indexes'[i] = {}
  BY <1>5, <1>8, <1>12, <1>13
<1>15. DOMAIN indexes' \subseteq catalog'.indexes
  BY <1>5, <1>8 DEF IndexesFollow
<1> QED BY <1>8, <1>14, <1>15 DEF IndexesFollow, HasTable

(* An empty database has no trees.                                           *)
LEMMA InitIndexes ==
    ASSUME Init
    PROVE  IndexInv
<1>1. RowsInv
  BY InitRows
<1>2. indexes = <<>> /\ DOMAIN indexes = {}
  BY DEF Init
<1>3. IndexesFollow
  BY <1>2 DEF IndexesFollow
<1> QED BY <1>1, <1>3 DEF IndexInv

(* Each step keeps it.                                                       *)
LEMMA NextKeepsIndexes ==
    ASSUME Habits = {}, IndexInv, [Next]_vars
    PROVE  IndexInv'
<1>1. RowsInv /\ IndexesFollow
  BY DEF IndexInv
<1>2. StorageInv
  BY <1>1 DEF RowsInv
<1>3. ASSUME NEW t \in Tables, CreateTableStatement(t) PROVE IndexesFollow'
  BY <1>1, <1>2, <1>3, CreateTableKeepsIndexes
<1>4. ASSUME NEW t \in Tables, DropTableStatement(t) PROVE IndexesFollow'
  BY <1>1, <1>2, <1>4, DropKeepsIndexes
<1>5. ASSUME NEW t \in Tables, InsertStatement(t) PROVE IndexesFollow'
  <2>1. PICK row \in Row :
            /\ t \in DOMAIN catalog.tables /\ InsertEffect(t, row)
            /\ row.id \in GivenIds \/ row.id = catalog.tables[t].auto + 1
            /\ row.id \in GivenIds =>
                  "same id" \in Habits \/ \A other \in RowsOf(t): other.id # row.id
    BY <1>2, <1>5, InsertIsInsert
  <2>2. IsNewId(t, row.id)
    BY <2>1 DEF IsNewId
  <2>3. ~HasStaleEntries(t)
    BY <1>5 DEF InsertStatement
  <2>4. CASE \E p, s: PutEffect(t, row, p, s)
    BY <1>1, <2>1, <2>2, <2>3, <2>4, PutKeepsIndexes
  <2>5. CASE \E page: /\ AppendEffect(t, page)
                      /\ \/ page = EmptyPage /\ indexes' = indexes
                         \/ /\ PutsRow(EmptyPage, page, 1, row)
                            /\ indexes' = Indexed(t, row, Rid(FileSize, 1))
    BY <1>1, <2>1, <2>2, <2>3, <2>5, AppendKeepsIndexes
  <2> QED BY <2>1, <2>4, <2>5 DEF InsertEffect
<1>6. ASSUME NEW t \in Tables, CrashInCreateTable(t) PROVE IndexesFollow'
  BY <1>2, <1>6, CrashInCreateTableKeepsStorage, RestartKeepsIndexes
<1>7. ASSUME NEW t \in Tables, CrashInInsert(t) PROVE IndexesFollow'
  BY <1>2, <1>7, CrashInInsertKeepsStorage, RestartKeepsIndexes
<1>8. ASSUME NEW t \in Edited, CreateIndexStatement(t) PROVE IndexesFollow'
  BY <1>1, <1>2, <1>8, CreateIndexKeepsIndexes
<1>9. ASSUME NEW t \in Edited, NEW old \in Texts, NEW new \in Texts, UpdateStatement(t, old, new)
      PROVE  IndexesFollow'
  BY <1>1, <1>2, <1>9, UpdateKeepsIndexes
<1>10. ASSUME NEW t \in Edited, NEW key \in Texts, DeleteStatement(t, key) PROVE IndexesFollow'
  BY <1>1, <1>2, <1>10, DeleteKeepsIndexes
<1>11. ASSUME NEW p \in DOMAIN mem, Evict(p) PROVE IndexesFollow'
  BY <1>1, <1>2, <1>11, EvictKeepsIndexes
<1>12. ASSUME Checkpoint PROVE IndexesFollow'
  BY <1>1, <1>2, <1>12, CheckpointKeepsIndexes
<1>13. ASSUME Crash PROVE IndexesFollow'
  BY <1>2, <1>13, CrashKeepsStorage, RestartKeepsIndexes
<1>14. ASSUME UNCHANGED vars PROVE IndexesFollow'
  <2>1. UNCHANGED <<mem, disk, dirty, catalog, indexes>>
    BY <1>14 DEF vars
  <2> QED BY <1>1, <2>1 DEF IndexesFollow, IndexFollows, PageFollows, NamesPages, PagesOf, First
<1>15. RowsInv'
  BY <1>1, NextKeepsRows
<1>16. IndexesFollow'
  BY <1>3, <1>4, <1>5, <1>6, <1>7, <1>8, <1>9, <1>10, <1>11, <1>12, <1>13, <1>14 DEF Next
<1> QED BY <1>15, <1>16 DEF IndexInv

(* Spec => []IndexInv: for callers without Habits each tree in memory has the *)
(* entry of every row of its table, on a page as a caller sees it and on one  *)
(* that an eviction may bring back (executor.py:502, 512; btree.py insert).   *)
THEOREM IndexTheorem ==
    ASSUME Habits = {}
    PROVE  Spec => []IndexInv
<1>1. Init => IndexInv
  BY InitIndexes
<1>2. IndexInv /\ [Next]_vars => IndexInv'
  BY NextKeepsIndexes
<1> QED BY <1>1, <1>2, PTL DEF Spec

(* The record id of a live slot is in a scan of its chain.                   *)
IsLiveSlot(pages, chain, p, page, i) ==
    /\ p \in ToSet(chain) /\ page \in HeapPage /\ page = pages[p]
    /\ i \in 1..Len(page.slots) /\ page.slots[i] # Tombstone

(* So its record id is in a scan, and reads the row of the slot.             *)
LEMMA LiveSlotIsIn ==
    ASSUME NEW pages, NEW chain, NEW p, NEW page, NEW i, IsLiveSlot(pages, chain, p, page, i)
    PROVE  /\ Rid(p, i) \in RidsOf(pages, chain)
           /\ Read(pages, Rid(p, i)) = page.slots[i]
<1>1. /\ p \in ToSet(chain) /\ page \in HeapPage /\ page = pages[p]
      /\ i \in 1..Len(page.slots) /\ page.slots[i] # Tombstone
  BY DEF IsLiveSlot
<1> QED BY <1>1, RidIsIn

(* Spec => []IndexScanAgrees: for callers without Habits a query answered by  *)
(* an index returns the rows of a sequential scan, after any statements,      *)
(* evictions, crashes and restarts (executor.py:502, 512).                   *)
THEOREM IndexScanTheorem ==
    ASSUME Habits = {}
    PROVE  Spec => []IndexScanAgrees
<1>1. IndexInv => IndexScanAgrees
  <2> SUFFICES ASSUME IndexInv, NEW i \in catalog.indexes, i.table \in DOMAIN catalog.tables,
                      NEW key
               PROVE  IndexScan(i.table, i.column, key) = SeqScan(i.table, i.column, key)
    BY DEF IndexScanAgrees, HasTable
  <2>1. StorageInv /\ IndexesFollow
    BY DEF IndexInv, RowsInv
  <2>2. i = Index(i.table, i.column)
    <3>1. i \in IndexNames
      BY <2>1, CatalogFacts DEF IsCatalog
    <3> QED BY <3>1 DEF IndexNames, Index
  <2>3. CASE i \notin DOMAIN indexes
    BY <2>2, <2>3 DEF IndexScan
  <2>4. CASE i \in DOMAIN indexes
    <3>1. PICK t, column, entries : t = i.table /\ column = i.column /\ entries = indexes[i]
      OBVIOUS
    <3>2. /\ t \in DOMAIN catalog.tables /\ HeapOf(t) = PagesOf(t)
          /\ \A p \in ToSet(PagesOf(t)): p \in 0..(FileSize - 1)
      BY <2>1, <3>1, ChainFacts
    <3>3. \A p \in ToSet(PagesOf(t)): mem[p] \in HeapPage
      BY <2>1, <3>2, FileFacts
    <3>4. \A p \in ToSet(PagesOf(t)): Follows(entries, column, p, mem[p])
      BY <2>1, <2>4, <3>1, <3>2, IndexFacts DEF PageFollows
    <3>5. \A entry \in entries: \E p \in ToSet(PagesOf(t)), s \in Nat:
             entry = <<entry[1], Rid(p, s)>>
      BY <2>1, <2>4, <3>1, <3>2, IndexFacts DEF NamesPages
    <3>6. IndexScan(t, column, key) =
             {entry[2]: entry \in {e \in entries: e[1] = key /\ Read(mem, e[2]) # Tombstone}}
      BY <2>2, <2>4, <3>1 DEF IndexScan
    <3>7. SeqScan(t, column, key) =
             {rid \in RidsOf(mem, PagesOf(t)): Read(mem, rid)[column] = key}
      BY <3>2 DEF SeqScan
    <3>8. ASSUME NEW entry \in entries, entry[1] = key, Read(mem, entry[2]) # Tombstone
          PROVE  entry[2] \in RidsOf(mem, PagesOf(t)) /\ Read(mem, entry[2])[column] = key
      <4>1. PICK p \in ToSet(PagesOf(t)), s \in Nat : entry = <<entry[1], Rid(p, s)>>
        BY <3>5, <3>8
      <4>2. entry[2] = Rid(p, s)
        BY <4>1
      <4>3. PICK page \in HeapPage : page = mem[p]
        BY <3>3
      <4>4. Rid(p, s).page = p /\ Rid(p, s).slot = s
        BY RidParts
      <4>5. s \in DOMAIN page.slots /\ page.slots[s] # Tombstone
        BY <3>8, <4>2, <4>3, <4>4 DEF Read
      <4>6. s \in 1..Len(page.slots)
        BY <4>5, SlotsParts
      <4>7. /\ Rid(p, s) \in RidsOf(mem, PagesOf(t))
            /\ Read(mem, Rid(p, s)) = page.slots[s]
        <5>1. IsLiveSlot(mem, PagesOf(t), p, page, s)
          BY <4>3, <4>5, <4>6 DEF IsLiveSlot
        <5> QED BY <5>1, LiveSlotIsIn
      <4>8. page.slots[s][column] = entry[1]
        BY <3>4, <3>8, <4>2, <4>3, <4>5, <4>6 DEF Follows, Matches
      <4> QED BY <3>8, <4>2, <4>7, <4>8
    <3>9. ASSUME NEW rid \in RidsOf(mem, PagesOf(t)), Read(mem, rid)[column] = key
          PROVE  Read(mem, rid) # Tombstone /\ <<key, rid>> \in entries
      <4>1. PICK p \in ToSet(PagesOf(t)), s \in Nat :
                /\ rid = Rid(p, s) /\ Holds(mem[p], s, Read(mem, rid))
                /\ Read(mem, rid) # Tombstone
        BY <3>3, <3>9, RidsAre
      <4>2. <<mem[p].slots[s][column], Rid(p, s)>> \in entries
        BY <3>4, <4>1 DEF Holds, Follows, HasEntries
      <4> QED BY <3>9, <4>1, <4>2 DEF Holds
    <3>10. ASSUME NEW rid \in SeqScan(t, column, key) PROVE rid \in IndexScan(t, column, key)
      <4>1. Read(mem, rid) # Tombstone /\ <<key, rid>> \in entries
        BY <3>7, <3>9, <3>10
      <4>2. PICK entry \in entries : entry = <<key, rid>>
        BY <4>1
      <4>3. entry[1] = key /\ entry[2] = rid
        BY <4>2
      <4> QED BY <3>6, <4>1, <4>2, <4>3
    <3>11. ASSUME NEW rid \in IndexScan(t, column, key) PROVE rid \in SeqScan(t, column, key)
      <4>1. PICK entry \in entries :
                entry[1] = key /\ Read(mem, entry[2]) # Tombstone /\ rid = entry[2]
        BY <3>6, <3>11
      <4> QED BY <3>7, <3>8, <4>1
    <3> QED BY <3>1, <3>10, <3>11
  <2> QED BY <2>3, <2>4
<1> QED BY <1>1, IndexTheorem, PTL
==============================================================================
