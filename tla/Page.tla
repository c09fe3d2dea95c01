--------------------------------- MODULE Page ---------------------------------
(***************************************************************************)
(* pysql.storage.page.Page: the slotted page.  The slot directory grows up   *)
(* from the header, the records grow down from the end of the page.          *)
(*                                                                          *)
(* A slot names the bytes offset .. offset + length - 1 and, for the model,  *)
(* what was written there.  Which bytes are overwritten follows from the     *)
(* extents: the slots are written to the page after the header when it goes  *)
(* to disk (to_bytes), over whatever record reaches down to there.           *)
(***************************************************************************)
EXTENDS Integers, Sequences

CONSTANTS
    PageSize,       \* PAGE_SIZE
    HeaderSize,     \* HEADER_SIZE
    SlotSize,       \* SLOT_SIZE
    Lengths,        \* lengths of the records the callers write
    Contents,       \* what they write
    Habits          \* what the callers may do:
                    \*   "fragment"  add to a page whose free space is in pieces
                    \*   "grow"      update to a record that needs the old one's room

ASSUME PageAssumption ==
    /\ {PageSize, HeaderSize, SlotSize} \subseteq Nat \ {0}
    /\ HeaderSize <= PageSize
    /\ Lengths \subseteq Nat \ {0}
    /\ Habits \subseteq {"fragment", "grow"}

VARIABLES
    page,           \* _slots, header.data_end and header.free_space
    expected,       \* callers: what they last stored under each slot index
    shown           \* callers: the habits they have shown so far

vars == <<page, expected, shown>>

Gone == "gone"
SlotEntry(offset, length, content) ==
    [offset |-> offset, length |-> length, content |-> content]
Tombstone == SlotEntry(0, 0, Gone)

IsDeleted(slot) == slot.length = 0
Deleted(p) == {i \in DOMAIN p.slots : IsDeleted(p.slots[i])}
Live(p) == DOMAIN p.slots \ Deleted(p)
DirectoryEnd(p) == HeaderSize + Len(p.slots) * SlotSize

----------------------------------------------------------------------------
(* insert_record.  The check charges a slot entry also when a deleted slot   *)
(* is reused, the lowest one.                                               *)
Fits(p, length) == length + SlotSize <= p.free_space

SlotFor(p) ==
    IF Deleted(p) = {} THEN Len(p.slots) + 1
    ELSE CHOOSE i \in Deleted(p): \A j \in Deleted(p): i <= j

WithNewSlot(p, i, slot) == Append(p.slots, slot)   \* fault: no slot is reused
WithSlot(p, i, slot) ==
    IF i > Len(p.slots) THEN Append(p.slots, slot) ELSE [p.slots EXCEPT ![i] = slot]

InsertRecordCharged(p, length, content) ==   \* fault: a reused slot is charged
    LET i == SlotFor(p)
        offset == p.data_end - length
    IN  [slots |-> WithSlot(p, i, SlotEntry(offset, length, content)),
         data_end |-> offset,
         free_space |-> p.free_space - length - SlotSize]

InsertRecord(p, length, content) ==
    LET i == SlotFor(p)
        offset == p.data_end - length
    IN  [slots |-> WithSlot(p, i, SlotEntry(offset, length, content)),
         data_end |-> offset,
         free_space |-> p.free_space - length - (IF i > Len(p.slots) THEN SlotSize ELSE 0)]

(* delete_record: a tombstone, and the length back to the free space.        *)
DeleteRecord(p, i) ==
    [p EXCEPT !.slots[i] = Tombstone, !.free_space = @ + p.slots[i].length]

(* update_record: in place when the new record is not longer ...             *)
Overwrite(p, i, length, content) ==
    [p EXCEPT !.slots[i] = SlotEntry(@.offset, length, content),
              !.free_space = @ + p.slots[i].length - length]

(* ... else deleted and inserted, and the slot entries swapped.              *)
Moved(p, i, length, content) ==
    LET deleted == DeleteRecord(p, i)
        j == SlotFor(deleted)
        inserted == InsertRecord(deleted, length, content)
    IN  IF ~Fits(deleted, length) THEN deleted
        ELSE [inserted EXCEPT !.slots[i] = inserted.slots[j],
                              !.slots[j] = inserted.slots[i]]

(* compact: the live records in slot order, packed at the end of the page.   *)
LengthsUpTo(p, i) ==
    LET sum[n \in 0..Len(p.slots)] ==
            IF n = 0 THEN 0 ELSE sum[n - 1] + p.slots[n].length
    IN  sum[i]

CompactedShifted(p) ==           \* fault: offsets before the lengths are taken off
    LET data_end == PageSize - LengthsUpTo(p, Len(p.slots))
    IN  [slots |-> [i \in DOMAIN p.slots |->
                       IF i \in Deleted(p) THEN p.slots[i]
                       ELSE [p.slots[i] EXCEPT !.offset = PageSize - LengthsUpTo(p, i - 1)]],
         data_end |-> data_end,
         free_space |-> data_end - DirectoryEnd(p)]

Compacted(p) ==
    LET data_end == PageSize - LengthsUpTo(p, Len(p.slots))
    IN  [slots |-> [i \in DOMAIN p.slots |->
                       IF i \in Deleted(p) THEN p.slots[i]
                       ELSE [p.slots[i] EXCEPT !.offset = PageSize - LengthsUpTo(p, i)]],
         data_end |-> data_end,
         free_space |-> data_end - DirectoryEnd(p)]

----------------------------------------------------------------------------
(* The callers.  A careful one compacts whenever free space is not in one     *)
(* piece.  The model ends where data_end would become negative: the layout   *)
(* is long broken there, and bytearray slices wrap around.                   *)
Contiguous == page.free_space = page.data_end - DirectoryEnd(page)

HabitsOf(careful, habit) == IF careful THEN {} ELSE {habit}

Show(habits) == /\ habits \subseteq Habits
                /\ shown' = shown \union habits

Init ==
    /\ page = [slots |-> <<>>, data_end |-> PageSize,
               free_space |-> PageSize - HeaderSize]
    /\ expected = <<>>
    /\ shown = {}

Insert(length, content) ==
    /\ length <= page.data_end
    /\ Fits(page, length)
    /\ page' = InsertRecord(page, length, content)
    /\ expected' = IF SlotFor(page) > Len(expected) THEN Append(expected, content)
                   ELSE [expected EXCEPT ![SlotFor(page)] = content]
    /\ Show(HabitsOf(Contiguous, "fragment"))

Delete(i) ==
    /\ i \in Live(page)
    /\ page' = DeleteRecord(page, i)
    /\ expected' = [expected EXCEPT ![i] = Gone]
    /\ UNCHANGED shown

UpdateInPlace(i, length, content) ==
    /\ i \in Live(page)
    /\ length <= page.slots[i].length
    /\ page' = Overwrite(page, i, length, content)
    /\ expected' = [expected EXCEPT ![i] = content]
    /\ UNCHANGED shown

(* When the longer record does not fit, update_record returns False; the     *)
(* caller (HeapFile.update) takes it that the record is as it was.           *)
UpdateLonger(i, length, content) ==
    /\ i \in Live(page)
    /\ length > page.slots[i].length
    /\ length <= page.data_end
    /\ page' = Moved(page, i, length, content)
    /\ expected' = IF Fits(DeleteRecord(page, i), length)
                   THEN [expected EXCEPT ![i] = content] ELSE expected
    /\ Show(HabitsOf(Contiguous, "fragment") \union HabitsOf(Fits(page, length), "grow"))

Compact ==
    /\ page' = Compacted(page)
    /\ UNCHANGED <<expected, shown>>

Next ==
    \/ \E length \in Lengths, c \in Contents:
          \/ Insert(length, c)
          \/ \E i \in DOMAIN page.slots: \/ UpdateInPlace(i, length, c)
                                         \/ UpdateLonger(i, length, c)
    \/ \E i \in DOMAIN page.slots: Delete(i)
    \/ Compact

Spec == Init /\ [][Next]_vars

----------------------------------------------------------------------------
TypeOK ==
    /\ page.slots \in Seq([offset : 0..PageSize, length : {0} \union Lengths,
                           content : Contents \union {Gone}])
    /\ page.data_end \in 0..PageSize
    /\ page.free_space \in 0..(PageSize - HeaderSize)
    /\ expected \in Seq(Contents \union {Gone})
    /\ shown \subseteq Habits

(* free_space is the page less header, slot directory and live records,      *)
(* whatever was reused, shrunk, moved or compacted: it never drifts.         *)
FreeSpaceIsExact ==
    page.free_space =
        PageSize - DirectoryEnd(page) - LengthsUpTo(page, Len(page.slots))

(* No record shares a byte with the slot directory, which to_bytes writes,   *)
(* nor with another record, as long as callers are careful.                  *)
Extent(i) == page.slots[i].offset..(page.slots[i].offset + page.slots[i].length - 1)

RecordsDoNotOverlap ==
    shown = {} => \A i \in Live(page):
        /\ Extent(i) \subseteq DirectoryEnd(page)..(PageSize - 1)
        /\ \A j \in Live(page) \ {i}: Extent(i) \cap Extent(j) = {}

(* A deleted record's space is not handed out before compact() makes it one  *)
(* piece ("The space is not immediately reclaimed - call compact() to        *)
(* reclaim", page.py:299): the directory never meets the data.               *)
DirectoryBelowData == DirectoryEnd(page) <= page.data_end

(* Under each slot index a caller reads what it last stored there: other     *)
(* inserts, deletions, moves and compaction never change it, as long as no    *)
(* caller counts on the room of the record it replaces.                      *)
ReadsBack ==
    "grow" \notin shown =>
        /\ DOMAIN page.slots = DOMAIN expected
        /\ \A i \in DOMAIN expected: page.slots[i].content = expected[i]

(* The same whatever callers do: an update that "couldn't fit" leaves the     *)
(* record to be deleted and inserted by its caller (heap.py:244-245).        *)
FailedUpdateChangesNothing ==
    \A i \in DOMAIN expected: page.slots[i].content = expected[i]
=============================================================================
