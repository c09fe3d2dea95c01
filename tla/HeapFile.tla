-------------------------------- MODULE HeapFile --------------------------------
(***************************************************************************)
(* pysql.storage.heap.HeapFile: the pages of one table, chained by the       *)
(* next_page of their headers, as operators on the pages a caller sees.      *)
(*                                                                          *)
(* A row is a record with a field k, a text of that length: Size is what it  *)
(* takes in a page.  What a page does with bytes is checked in module Page;  *)
(* here it is its slots and the room they leave (Page's FreeSpaceIsExact).   *)
(***************************************************************************)
EXTENDS Integers, Sequences, FiniteSets, SequencesExt

CONSTANTS
    PageRoom,       \* bytes of a page for slot entries and records
    SlotSize,       \* SLOT_SIZE
    Tombstone       \* a deleted slot, and what read_record returns for it

ASSUME HeapAssumption == PageRoom \in Nat /\ SlotSize \in Nat \ {0}

NoPage == -1        \* INVALID_PAGE_ID (0xFFFFFFFF)
EmptyPage == [slots |-> <<>>, next |-> NoPage]

Live(page) == {i \in DOMAIN page.slots: page.slots[i] # Tombstone}
Size(row) == row.k
FreeSpace(page) ==
    FoldLeft(LAMBDA room, slot: room - (IF slot = Tombstone THEN 0 ELSE Size(slot)),
             PageRoom - SlotSize * Len(page.slots), page.slots)

----------------------------------------------------------------------------
(* Page.insert_record: the check charges a slot entry even if one is reused. *)
Fits(page, row) == Size(row) + SlotSize <= FreeSpace(page)

SlotFor(page) ==
    LET deleted == DOMAIN page.slots \ Live(page)
    IN  IF deleted = {} THEN Len(page.slots) + 1
        ELSE CHOOSE i \in deleted: \A j \in deleted: i <= j

InsertRecord(page, row) ==
    [page EXCEPT !.slots = IF SlotFor(page) > Len(@) THEN Append(@, row)
                           ELSE [@ EXCEPT ![SlotFor(page)] = row]]

(* Page.update_record: a longer record is deleted and inserted again; if it  *)
(* no longer fits the deletion stays.                                        *)
UpdateRecord(page, i, row) ==
    LET deleted == [page EXCEPT !.slots[i] = Tombstone]
    IN  IF Size(row) <= Size(page.slots[i]) \/ Fits(deleted, row)
        THEN [page EXCEPT !.slots[i] = row]
        ELSE deleted

----------------------------------------------------------------------------
(* _load_page_chain: the page ids from the first one along next_page.  The   *)
(* walk is one longer than the file when the chain runs in a circle.         *)
ChainStopping(pages, first) == <<first>>       \* fault: the first page only
Chain(pages, first) ==
    LET walk[n \in 0..Cardinality(DOMAIN pages)] ==
            IF n = 0 THEN <<first>>
            ELSE LET last == Last(walk[n - 1])
                 IN  IF last \notin DOMAIN pages \/ pages[last].next = NoPage
                     THEN walk[n - 1]
                     ELSE Append(walk[n - 1], pages[last].next)
    IN  walk[Cardinality(DOMAIN pages)]

(* A record id, and the live rows of a chain under their record ids (scan).  *)
Rid(page_id, slot) == [page |-> page_id, slot |-> slot]
RidsOf(pages, chain) ==
    UNION {{Rid(p, i): i \in Live(pages[p])}: p \in ToSet(chain)}
Read(pages, rid) ==
    IF rid.slot \in DOMAIN pages[rid.page].slots THEN pages[rid.page].slots[rid.slot]
    ELSE Tombstone

(* HeapFile.insert: into the first page of the chain with room, else into a  *)
(* new page at its end, linked before the record is tried there.  dirty is   *)
(* what is unpinned as changed.                                              *)
Extended(pages, chain, new) ==
    [p \in DOMAIN pages \union {new} |->
        IF p = new THEN EmptyPage
        ELSE IF p = Last(chain) THEN [pages[p] EXCEPT !.next = new] ELSE pages[p]]
LinkedClean(pages, chain, new) ==      \* fault: the page before stays clean
    [pages |-> Extended(pages, chain, new), dirty |-> {new}]
Linked(pages, chain, new) ==
    [pages |-> Extended(pages, chain, new), dirty |-> {new, Last(chain)}]

RoomyAt(pages, chain, row) == {i \in DOMAIN chain: Fits(pages[chain[i]], row)}

InsertRow(pages, chain, row) ==
    LET roomy == RoomyAt(pages, chain, row)
        new == Cardinality(DOMAIN pages)
        p == chain[CHOOSE i \in roomy: \A j \in roomy: i <= j]
        linked == Linked(pages, chain, new)
    IN  IF roomy # {}
        THEN [pages |-> [pages EXCEPT ![p] = InsertRecord(@, row)], chain |-> chain,
              rid |-> Rid(p, SlotFor(pages[p])), dirty |-> {p}, stored |-> TRUE]
        ELSE [pages |-> IF Fits(EmptyPage, row)
                        THEN [linked.pages EXCEPT ![new] = InsertRecord(@, row)]
                        ELSE linked.pages,
              chain |-> Append(chain, new), rid |-> Rid(new, 1),
              dirty |-> linked.dirty, stored |-> Fits(EmptyPage, row)]

(* HeapFile.update of every row with k = old, in scan order: the page         *)
(* is unpinned as changed only when update_record succeeds.                  *)
UpdateRow(done, i, old, new) ==
    LET row == done.page.slots[i]
        changed == UpdateRecord(done.page, i, [row EXCEPT !.k = new])
    IN  IF row = Tombstone \/ row.k # old THEN done
        ELSE [page |-> changed, dirty |-> done.dirty \/ changed.slots[i] # Tombstone]

UpdateRows(page, old, new) ==
    LET done[i \in 0..Len(page.slots)] ==
            IF i = 0 THEN [page |-> page, dirty |-> FALSE]
            ELSE UpdateRow(done[i - 1], i, old, new)
    IN  done[Len(page.slots)]

(* HeapFile.delete of every row with k = key.                                *)
DeleteRows(page, key) ==
    [page EXCEPT !.slots = [i \in DOMAIN @ |->
        IF @[i] # Tombstone /\ @[i].k = key THEN Tombstone ELSE @[i]]]
=============================================================================
