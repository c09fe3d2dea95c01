------------------------------ MODULE PageProofs ------------------------------
(***************************************************************************)
(* The slotted page, for every size of page, header, slot entry and record.   *)
(*                                                                          *)
(* An operation other than compact gives one slot another entry; of the       *)
(* others only deleted ones change.  What that does to the sum of the lengths, *)
(* to the free space, to the contents and to the layout is said once, for all  *)
(* four.  Compaction keeps lengths and contents and puts each record below the *)
(* ones before it.  The sums of lengths are a recursive function; what holds   *)
(* of all of them is shown with the least one of which it would not hold.      *)
(***************************************************************************)
EXTENDS Page, SequenceFacts

(* What the sums need of a slot directory.                                   *)
HasLengths(p) == \E S: p.slots \in Seq(S) /\ \A s \in S: s.length \in Nat

Sums(p, n, sum) ==
    /\ sum \in [0..n -> Nat]
    /\ sum[0] = 0
    /\ \A k \in 1..n: sum[k] = sum[k - 1] + p.slots[k].length

(* The partial sums of the lengths: there are such functions.                *)
LEMMA SumsExist ==
    ASSUME NEW p, HasLengths(p), NEW n \in 0..Len(p.slots)
    PROVE  \E sum: Sums(p, n, sum)
<1>1. PICK S : p.slots \in Seq(S) /\ \A s \in S: s.length \in Nat
  BY DEF HasLengths
<1>2. Len(p.slots) \in Nat /\ \A k \in 1..Len(p.slots): p.slots[k].length \in Nat
  BY <1>1, LenProperties, ElementOfSeq
<1> DEFINE bad == {k \in 0..Len(p.slots): ~\E sum: Sums(p, k, sum)}
<1> SUFFICES ASSUME bad # {} PROVE FALSE
  OBVIOUS
<1>3. bad \in SUBSET Nat
  BY <1>2
<1>4. PICK k \in bad : \A j \in bad: k <= j
  <2> HIDE DEF bad
  <2> QED BY <1>3, LeastOfSet
<1>5. k \in 0..Len(p.slots) /\ ~\E sum: Sums(p, k, sum)
  OBVIOUS
<1>6. k # 0
  <2>1. Sums(p, 0, [i \in 0..0 |-> 0])
    BY DEF Sums
  <2> QED BY <1>5, <2>1
<1>7. k - 1 \in 0..Len(p.slots) /\ k - 1 < k /\ k - 1 \in Int /\ k \in 1..Len(p.slots)
  BY <1>2, <1>5, <1>6
<1>8. PICK sum : Sums(p, k - 1, sum)
  <2>1. ~(k <= k - 1)
    BY <1>7
  <2>2. k - 1 \notin bad
    BY <1>4, <2>1
  <2> QED BY <1>7, <2>2
<1> DEFINE more == [i \in 0..k |-> IF i = k THEN sum[k - 1] + p.slots[k].length ELSE sum[i]]
<1>9. sum \in [0..(k - 1) -> Nat] /\ sum[0] = 0
      /\ \A i \in 1..(k - 1): sum[i] = sum[i - 1] + p.slots[i].length
  BY <1>8 DEF Sums
<1>10. more \in [0..k -> Nat] /\ more[0] = 0
  BY <1>2, <1>7, <1>9
<1>11. ASSUME NEW i \in 1..k PROVE more[i] = more[i - 1] + p.slots[i].length
  <2>1. i \in Int /\ k \in Int /\ i - 1 # k /\ i - 1 \in 0..k /\ i \in 0..k
    BY <1>7
  <2>2. more[i - 1] = sum[i - 1]
    BY <2>1
  <2>3. CASE i = k
    BY <2>1, <2>2, <2>3
  <2>4. CASE i # k
    <3>1. i \in 1..(k - 1)
      BY <2>1, <2>4
    <3>2. more[i] = sum[i]
      BY <2>1, <2>4
    <3> QED BY <1>9, <2>2, <3>1, <3>2
  <2> QED BY <2>3, <2>4
<1>12. Sums(p, k, more)
  <2> HIDE DEF more
  <2> QED BY <1>10, <1>11 DEF Sums
<1> QED BY <1>5, <1>12

(* LengthsUpTo is such a function.                                           *)
LEMMA LengthsAdd ==
    ASSUME NEW p, HasLengths(p)
    PROVE  /\ \A i \in 0..Len(p.slots): LengthsUpTo(p, i) \in Nat
           /\ LengthsUpTo(p, 0) = 0
           /\ \A i \in 1..Len(p.slots):
                 LengthsUpTo(p, i) = LengthsUpTo(p, i - 1) + p.slots[i].length
<1> DEFINE step(f) == [n \in 0..Len(p.slots) |-> IF n = 0 THEN 0 ELSE f[n - 1] + p.slots[n].length]
           total == CHOOSE f : f = step(f)
<1>1. Len(p.slots) \in Nat
  BY LenProperties DEF HasLengths
<1>2. PICK sum : Sums(p, Len(p.slots), sum)
  BY <1>1, SumsExist
<1>3. sum = step(sum)
  BY <1>1, <1>2 DEF Sums
<1>4. total = step(total)
  <2> HIDE DEF step
  <2> QED BY <1>3
<1>5. \A i \in 0..Len(p.slots): LengthsUpTo(p, i) = total[i]
  BY DEF LengthsUpTo
<1>6. total[0] = 0 /\ \A k \in 1..Len(p.slots): total[k] = total[k - 1] + p.slots[k].length
  <2>1. PICK f : f = total
    OBVIOUS
  <2>2. f = [n \in 0..Len(p.slots) |-> IF n = 0 THEN 0 ELSE f[n - 1] + p.slots[n].length]
    BY <1>4, <2>1
  <2>3. f[0] = 0
    BY <1>1, <2>2
  <2>4. ASSUME NEW k \in 1..Len(p.slots) PROVE f[k] = f[k - 1] + p.slots[k].length
    <3>1. k \in 0..Len(p.slots) /\ k # 0
      BY <1>1
    <3> QED BY <2>2, <3>1
  <2> HIDE DEF total
  <2> QED BY <2>1, <2>3, <2>4
<1> DEFINE bad == {k \in 0..Len(p.slots): total[k] \notin Nat}
<1>7. bad = {}
  <2> SUFFICES ASSUME bad # {} PROVE FALSE
    OBVIOUS
  <2>1. bad \in SUBSET Nat
    BY <1>1
  <2>2. PICK k \in bad : \A j \in bad: k <= j
    <3> HIDE DEF bad
    <3> QED BY <2>1, LeastOfSet
  <2>3. k \in 0..Len(p.slots) /\ total[k] \notin Nat
    OBVIOUS
  <2> HIDE DEF total
  <2>4. k # 0
    BY <1>6, <2>3
  <2>5. k - 1 \in 0..Len(p.slots) /\ ~(k <= k - 1) /\ k \in 1..Len(p.slots)
    BY <1>1, <2>3, <2>4
  <2>6. total[k - 1] \in Nat
    BY <2>2, <2>5
  <2>7. p.slots[k].length \in Nat
    BY <2>5, ElementOfSeq, LenProperties DEF HasLengths
  <2> QED BY <1>6, <2>3, <2>5, <2>6, <2>7
<1>8. \A k \in 0..Len(p.slots): total[k] \in Nat
  BY <1>7
<1>9. \A k \in 1..Len(p.slots): k \in 0..Len(p.slots) /\ k - 1 \in 0..Len(p.slots)
  BY <1>1
<1> HIDE DEF total
<1> QED BY <1>1, <1>5, <1>6, <1>8, <1>9

(* The sums never decrease.                                                  *)
LEMMA LengthsGrow ==
    ASSUME NEW p, HasLengths(p), NEW i \in 0..Len(p.slots), NEW j \in i..Len(p.slots)
    PROVE  LengthsUpTo(p, i) <= LengthsUpTo(p, j)
<1> DEFINE bad == {k \in i..Len(p.slots): ~(LengthsUpTo(p, i) <= LengthsUpTo(p, k))}
<1>1. Len(p.slots) \in Nat /\ \A k \in 1..Len(p.slots): p.slots[k].length \in Nat
  BY LenProperties, ElementOfSeq DEF HasLengths
<1> SUFFICES ASSUME bad # {} PROVE FALSE
  BY <1>1
<1>2. bad \in SUBSET Nat
  BY <1>1
<1>3. PICK k \in bad : \A l \in bad: k <= l
  <2> HIDE DEF bad
  <2> QED BY <1>2, LeastOfSet
<1>4. k \in i..Len(p.slots) /\ ~(LengthsUpTo(p, i) <= LengthsUpTo(p, k))
  OBVIOUS
<1>5. LengthsUpTo(p, i) \in Nat
  BY LengthsAdd
<1>6. k # i
  BY <1>4, <1>5
<1>7. /\ k \in 1..Len(p.slots) /\ k - 1 \in i..Len(p.slots) /\ ~(k <= k - 1)
      /\ k - 1 \in 0..Len(p.slots)
  BY <1>1, <1>4, <1>6
<1>8. LengthsUpTo(p, i) <= LengthsUpTo(p, k - 1)
  BY <1>3, <1>7
<1>9. LengthsUpTo(p, k - 1) \in Nat
      /\ LengthsUpTo(p, k) = LengthsUpTo(p, k - 1) + p.slots[k].length
  BY <1>7, LengthsAdd
<1> QED BY <1>1, <1>4, <1>5, <1>7, <1>8, <1>9

(* One length changed: every sum that it is in changes as much.              *)
LEMMA LengthsChange ==
    ASSUME NEW p, NEW q, HasLengths(p), HasLengths(q), NEW n \in Nat,
           n <= Len(p.slots), n <= Len(q.slots), NEW i \in 1..n,
           \A k \in 1..n: k # i => q.slots[k].length = p.slots[k].length
    PROVE  LengthsUpTo(q, n) =
               LengthsUpTo(p, n) + q.slots[i].length - p.slots[i].length
<1> DEFINE change(k) == IF k < i THEN 0 ELSE q.slots[i].length - p.slots[i].length
           bad == {k \in 0..n: LengthsUpTo(q, k) # LengthsUpTo(p, k) + change(k)}
<1>1. /\ Len(p.slots) \in Nat /\ \A k \in 1..Len(p.slots): p.slots[k].length \in Nat
      /\ Len(q.slots) \in Nat /\ \A k \in 1..Len(q.slots): q.slots[k].length \in Nat
  BY LenProperties, ElementOfSeq DEF HasLengths
<1>2. \A k \in 1..n: p.slots[k].length \in Nat /\ q.slots[k].length \in Nat
  BY <1>1
<1>3. bad = {}
  <2> SUFFICES ASSUME bad # {} PROVE FALSE
    OBVIOUS
  <2>1. bad \in SUBSET Nat
    OBVIOUS
  <2>2. PICK k \in bad : \A l \in bad: k <= l
    <3> HIDE DEF bad
    <3> QED BY <2>1, LeastOfSet
  <2>3. k \in 0..n /\ LengthsUpTo(q, k) # LengthsUpTo(p, k) + change(k)
    OBVIOUS
  <2>4. k # 0
    <3>1. LengthsUpTo(q, 0) = 0 /\ LengthsUpTo(p, 0) = 0
      BY LengthsAdd
    <3> QED BY <2>3, <3>1
  <2>5. k \in 1..n /\ k - 1 \in 0..n /\ ~(k <= k - 1)
    BY <2>3, <2>4
  <2>6. LengthsUpTo(q, k - 1) = LengthsUpTo(p, k - 1) + change(k - 1)
    BY <2>2, <2>5
  <2>7. /\ k \in 1..Len(p.slots) /\ k - 1 \in 0..Len(p.slots)
        /\ k \in 1..Len(q.slots) /\ k - 1 \in 0..Len(q.slots)
    BY <1>1, <2>5
  <2>8. /\ LengthsUpTo(p, k - 1) \in Nat
        /\ LengthsUpTo(p, k) = LengthsUpTo(p, k - 1) + p.slots[k].length
    BY <2>7, LengthsAdd
  <2>9. /\ LengthsUpTo(q, k - 1) \in Nat
        /\ LengthsUpTo(q, k) = LengthsUpTo(q, k - 1) + q.slots[k].length
    BY <2>7, LengthsAdd
  <2>10. change(k) = change(k - 1) + q.slots[k].length - p.slots[k].length
    <3>1. CASE k = i
      BY <1>2, <3>1
    <3>2. CASE k # i
      <4>1. q.slots[k].length = p.slots[k].length
        BY <2>5, <3>2
      <4>2. change(k) = change(k - 1) /\ change(k) \in Int
        BY <1>2, <2>5, <3>2
      <4> HIDE DEF change
      <4> QED BY <1>2, <2>5, <4>1, <4>2
    <3> QED BY <3>1, <3>2
  <2>11. \A l \in Int: change(l) \in Int
    <3>1. p.slots[i].length \in Nat /\ q.slots[i].length \in Nat
      BY <1>2
    <3> QED BY <3>1
  <2>12. change(k) \in Int /\ change(k - 1) \in Int
    <3>1. k \in Int /\ k - 1 \in Int
      BY <2>3
    <3> HIDE DEF change
    <3> QED BY <2>11, <3>1
  <2>13. p.slots[k].length \in Nat /\ q.slots[k].length \in Nat
    BY <1>2, <2>5
  <2> HIDE DEF change
  <2>14. LengthsUpTo(q, k) = LengthsUpTo(p, k - 1) + change(k - 1) + q.slots[k].length
    BY <2>6, <2>9
  <2>15. LengthsUpTo(q, k) = LengthsUpTo(p, k) + change(k)
    <3>1. PICK c : c = change(k - 1)
      OBVIOUS
    <3>2. PICK a : a = LengthsUpTo(p, k - 1)
      OBVIOUS
    <3>3. PICK x, y : x = p.slots[k].length /\ y = q.slots[k].length
      OBVIOUS
    <3>4. c \in Int
      BY <2>12, <3>1
    <3>5. a \in Int /\ x \in Int /\ y \in Int
      BY <2>8, <2>13, <3>2, <3>3
    <3>6. LengthsUpTo(q, k) = a + c + y
      BY <2>14, <3>1, <3>2, <3>3
    <3>7. LengthsUpTo(p, k) = a + x /\ change(k) = c + y - x
      BY <2>8, <2>10, <3>1, <3>2, <3>3
    <3> QED BY <3>4, <3>5, <3>6, <3>7
  <2> QED BY <2>3, <2>15
<1>4. LengthsUpTo(q, n) = LengthsUpTo(p, n) + change(n)
  BY <1>3
<1>5. change(n) = q.slots[i].length - p.slots[i].length
  OBVIOUS
<1>6. LengthsUpTo(p, n) \in Int
  BY <1>1, LengthsAdd
<1> QED BY <1>2, <1>4, <1>5, <1>6

(* None changed.                                                             *)
LEMMA LengthsStay ==
    ASSUME NEW p, NEW q, HasLengths(p), HasLengths(q), NEW n \in Nat,
           n <= Len(p.slots), n <= Len(q.slots),
           \A k \in 1..n: q.slots[k].length = p.slots[k].length
    PROVE  LengthsUpTo(q, n) = LengthsUpTo(p, n)
<1>1. CASE n = 0
  <2>1. LengthsUpTo(q, 0) = 0 /\ LengthsUpTo(p, 0) = 0
    BY LengthsAdd
  <2> QED BY <1>1, <2>1
<1>2. CASE n # 0
  <2>1. 1 \in 1..n /\ Len(p.slots) \in Nat /\ Len(q.slots) \in Nat
    BY <1>2, LenProperties DEF HasLengths
  <2>2. LengthsUpTo(q, n) = LengthsUpTo(p, n) + q.slots[1].length - p.slots[1].length
    BY <2>1, LengthsChange
  <2>3. p.slots[1].length \in Nat /\ q.slots[1].length = p.slots[1].length
    BY <2>1, ElementOfSeq DEF HasLengths
  <2>4. LengthsUpTo(p, n) \in Nat
    BY <2>1, LengthsAdd
  <2> QED BY <2>2, <2>3, <2>4
<1> QED BY <1>1, <1>2

----------------------------------------------------------------------------
(* The parts of TypeOK that need nothing of the free space.                   *)
Slot == [offset : 0..PageSize, length : {0} \union Lengths, content : Contents \union {Gone}]

(* The records lie between data_end and the end of the page, and data_end     *)
(* is above the directory, as long as callers are careful.                   *)
RecordsAboveDataEnd(p) ==
    /\ DirectoryEnd(p) <= p.data_end
    /\ \A i \in Live(p): /\ p.data_end <= p.slots[i].offset
                         /\ p.slots[i].offset + p.slots[i].length <= PageSize

Apart(s, t) == s.offset + s.length <= t.offset \/ t.offset + t.length <= s.offset

RecordsApart(p) == \A i, j \in Live(p): i # j => Apart(p.slots[i], p.slots[j])

Layout == shown = {} => RecordsAboveDataEnd(page) /\ RecordsApart(page)

PageType == [slots : Seq(Slot), data_end : 0..PageSize, free_space : Int]

(* Slots have lengths.                                                       *)
LEMMA PageHasLengths ==
    ASSUME NEW p, p.slots \in Seq(Slot)
    PROVE  /\ HasLengths(p) /\ Len(p.slots) \in Nat
           /\ \A i \in 1..Len(p.slots): p.slots[i] \in Slot /\ p.slots[i].length \in Nat
<1>1. ASSUME NEW s \in Slot PROVE s.length \in Nat
  <2>1. s.length \in {0} \union Lengths
    BY DEF Slot
  <2>2. {0} \union Lengths \subseteq Nat
    BY PageAssumption
  <2> QED BY <2>1, <2>2, Zenon
<1> QED BY <1>1, LenProperties, ElementOfSeq DEF HasLengths

(* Where insert_record puts a record: a deleted slot, or a new one.           *)
LEMMA SlotForIs ==
    ASSUME NEW p, p.slots \in Seq(Slot)
    PROVE  \/ SlotFor(p) \in Deleted(p) /\ SlotFor(p) \in 1..Len(p.slots)
           \/ SlotFor(p) = Len(p.slots) + 1 /\ Deleted(p) = {}
<1>1. DOMAIN p.slots = 1..Len(p.slots) /\ Len(p.slots) \in Nat
  BY LenProperties
<1>2. CASE Deleted(p) = {}
  BY <1>2 DEF SlotFor
<1>3. CASE Deleted(p) # {}
  <2>1. Deleted(p) \in SUBSET Nat
    BY <1>1 DEF Deleted
  <2>2. \E i \in Deleted(p): \A j \in Deleted(p): i <= j
    BY <1>3, <2>1, LeastOfSet
  <2>3. SlotFor(p) \in Deleted(p)
    BY <1>3, <2>2 DEF SlotFor
  <2> QED BY <1>1, <2>3 DEF Deleted
<1> QED BY <1>2, <1>3

----------------------------------------------------------------------------
(* What an operation other than compact does to the slots: one gets another   *)
(* entry, a new one at the end or one that there is, and of the others only   *)
(* deleted ones change, to a tombstone.                                      *)
Changes(p, q, i, s) ==
    /\ q.slots \in Seq(Slot) /\ i \in 1..Len(q.slots) /\ q.slots[i] = s /\ s \in Slot
    /\ \/ i <= Len(p.slots) /\ Len(q.slots) = Len(p.slots)
       \/ i = Len(p.slots) + 1 /\ Len(q.slots) = i
    /\ \A k \in 1..Len(p.slots): k # i =>
          \/ q.slots[k] = p.slots[k]
          \/ IsDeleted(p.slots[k]) /\ q.slots[k] = Tombstone

LengthBefore(p, i) == IF i <= Len(p.slots) THEN p.slots[i].length ELSE 0

Effect(p, q, i, s) ==
    /\ p \in PageType /\ Changes(p, q, i, s)
    /\ q.free_space = p.free_space + LengthBefore(p, i) - s.length
                           - (IF i <= Len(p.slots) THEN 0 ELSE SlotSize)

(* A tombstone is a deleted slot.                                            *)
LEMMA TombstoneIsSlot == Tombstone \in Slot /\ IsDeleted(Tombstone)
BY PageAssumption DEF Slot, Tombstone, SlotEntry, IsDeleted

(* delete_record puts a tombstone and gives the length back.                 *)
LEMMA DeleteEffect ==
    ASSUME NEW p \in PageType, NEW i \in 1..Len(p.slots)
    PROVE  /\ Effect(p, DeleteRecord(p, i), i, Tombstone)
           /\ DeleteRecord(p, i).data_end = p.data_end
           /\ DeleteRecord(p, i).free_space = p.free_space + p.slots[i].length
           /\ DeleteRecord(p, i) \in PageType
           /\ DeleteRecord(p, i).slots = [p.slots EXCEPT ![i] = Tombstone]
<1>1. PICK q : q = DeleteRecord(p, i)
  OBVIOUS
<1>2. p.slots \in Seq(Slot) /\ p.data_end \in 0..PageSize /\ p.free_space \in Int
  BY DEF PageType
<1>3. p.slots[i].length \in Nat
  BY <1>2, PageHasLengths
<1>4. q = [p EXCEPT !.slots = [p.slots EXCEPT ![i] = Tombstone], !.free_space = @ + p.slots[i].length]
  BY <1>1 DEF DeleteRecord
<1>5. /\ q.slots = [p.slots EXCEPT ![i] = Tombstone] /\ q.data_end = p.data_end
      /\ q.free_space = p.free_space + p.slots[i].length
  BY <1>4 DEF PageType
<1>6. /\ q.slots \in Seq(Slot) /\ Len(q.slots) = Len(p.slots) /\ q.slots[i] = Tombstone
      /\ \A k \in 1..Len(p.slots): k # i => q.slots[k] = p.slots[k]
  BY <1>2, <1>5, TombstoneIsSlot, ExceptSeq, LenProperties
<1>7. Tombstone.length = 0 /\ i <= Len(p.slots) /\ i \in Nat /\ Len(p.slots) \in Nat
  BY LenProperties, <1>2 DEF Tombstone, SlotEntry
<1>8. Changes(p, q, i, Tombstone)
  BY <1>6, <1>7, TombstoneIsSlot DEF Changes
<1>9. Effect(p, q, i, Tombstone)
  BY <1>2, <1>3, <1>5, <1>7, <1>8 DEF Effect, LengthBefore
<1>10. q \in PageType
  <2>1. p.free_space + p.slots[i].length \in Int /\ [p.slots EXCEPT ![i] = Tombstone] \in Seq(Slot)
    BY <1>2, <1>3, <1>5, <1>6
  <2> QED BY <1>4, <2>1 DEF PageType
<1> QED BY <1>1, <1>5, <1>9, <1>10

(* update_record in place: a shorter record where the old one was.           *)
LEMMA OverwriteEffect ==
    ASSUME NEW p \in PageType, NEW i \in 1..Len(p.slots),
           NEW length \in Lengths, NEW content \in Contents
    PROVE  /\ Effect(p, Overwrite(p, i, length, content), i,
                     SlotEntry(p.slots[i].offset, length, content))
           /\ Overwrite(p, i, length, content).data_end = p.data_end
           /\ Overwrite(p, i, length, content) \in PageType
<1>1. PICK q, s : q = Overwrite(p, i, length, content)
                  /\ s = SlotEntry(p.slots[i].offset, length, content)
  OBVIOUS
<1>2. p.slots \in Seq(Slot) /\ p.data_end \in 0..PageSize /\ p.free_space \in Int
  BY DEF PageType
<1>3. p.slots[i].length \in Nat /\ p.slots[i] \in Slot
  BY <1>2, PageHasLengths
<1>4. q = [p EXCEPT !.slots = [p.slots EXCEPT ![i] = s],
                    !.free_space = @ + p.slots[i].length - length]
  BY <1>1 DEF Overwrite
<1>5. /\ q.slots = [p.slots EXCEPT ![i] = s] /\ q.data_end = p.data_end
      /\ q.free_space = p.free_space + p.slots[i].length - length
  BY <1>4 DEF PageType
<1>6. s \in Slot /\ s.length = length
  <2>1. p.slots[i].offset \in 0..PageSize
    BY <1>3 DEF Slot
  <2> QED BY <1>1, <2>1 DEF Slot, SlotEntry
<1>7. /\ q.slots \in Seq(Slot) /\ Len(q.slots) = Len(p.slots) /\ q.slots[i] = s
      /\ \A k \in 1..Len(p.slots): k # i => q.slots[k] = p.slots[k]
  BY <1>2, <1>5, <1>6, ExceptSeq, LenProperties
<1>8. length \in Nat /\ i <= Len(p.slots) /\ i \in Nat /\ Len(p.slots) \in Nat
  BY <1>2, LenProperties, PageAssumption
<1>9. Changes(p, q, i, s)
  BY <1>6, <1>7, <1>8 DEF Changes
<1>10. Effect(p, q, i, s)
  BY <1>2, <1>3, <1>5, <1>6, <1>8, <1>9 DEF Effect, LengthBefore
<1>11. q \in PageType
  <2>1. p.free_space + p.slots[i].length - length \in Int
    BY <1>2, <1>3, <1>8
  <2>2. [p.slots EXCEPT ![i] = s] \in Seq(Slot)
    BY <1>5, <1>7
  <2> QED BY <1>4, <2>1, <2>2 DEF PageType
<1> QED BY <1>1, <1>5, <1>10, <1>11

(* insert_record puts the record below data_end.                             *)
LEMMA InsertEffect ==
    ASSUME NEW p \in PageType, NEW length \in Lengths, NEW content \in Contents,
           length <= p.data_end
    PROVE  /\ Effect(p, InsertRecord(p, length, content), SlotFor(p),
                     SlotEntry(p.data_end - length, length, content))
           /\ InsertRecord(p, length, content).data_end = p.data_end - length
           /\ InsertRecord(p, length, content) \in PageType
           /\ InsertRecord(p, length, content).slots =
                 WithSlot(p, SlotFor(p), SlotEntry(p.data_end - length, length, content))
<1>1. PICK q, s, i : /\ q = InsertRecord(p, length, content) /\ i = SlotFor(p)
                     /\ s = SlotEntry(p.data_end - length, length, content)
  OBVIOUS
<1>2. p.slots \in Seq(Slot) /\ p.data_end \in 0..PageSize /\ p.free_space \in Int
  BY DEF PageType
<1>3. /\ length \in Nat /\ Len(p.slots) \in Nat /\ DOMAIN p.slots = 1..Len(p.slots)
      /\ SlotSize \in Nat /\ p.data_end - length \in 0..PageSize
  <2>1. length \in Nat /\ SlotSize \in Nat /\ PageSize \in Nat
    BY PageAssumption
  <2> QED BY <1>2, <2>1, LenProperties
<1>4. q = [slots |-> WithSlot(p, i, s), data_end |-> p.data_end - length,
           free_space |-> p.free_space - length - (IF i > Len(p.slots) THEN SlotSize ELSE 0)]
  BY <1>1 DEF InsertRecord
<1>5. s \in Slot /\ s.length = length
  BY <1>1, <1>3 DEF Slot, SlotEntry
<1>6. \/ i \in Deleted(p) /\ i \in 1..Len(p.slots)
      \/ i = Len(p.slots) + 1 /\ Deleted(p) = {}
  BY <1>1, <1>2, SlotForIs
<1>7. CASE i \in 1..Len(p.slots)
  <2>1. ~(i > Len(p.slots)) /\ i <= Len(p.slots)
    BY <1>3, <1>7
  <2>2. WithSlot(p, i, s) = [p.slots EXCEPT ![i] = s]
    BY <2>1 DEF WithSlot
  <2>3. /\ q.slots \in Seq(Slot) /\ Len(q.slots) = Len(p.slots) /\ q.slots[i] = s
        /\ \A k \in 1..Len(p.slots): k # i => q.slots[k] = p.slots[k]
    BY <1>2, <1>4, <1>5, <1>7, <2>2, ExceptSeq, LenProperties
  <2>4. Changes(p, q, i, s)
    BY <1>5, <1>7, <2>1, <2>3 DEF Changes
  <2>5. p.slots[i].length = 0
    <3>1. i \in Deleted(p)
      BY <1>3, <1>6, <1>7
    <3> QED BY <3>1 DEF Deleted, IsDeleted
  <2>6. q.free_space = p.free_space + 0 - length - 0
    BY <1>2, <1>3, <1>4, <2>1
  <2>7. Effect(p, q, i, s)
    BY <1>5, <2>1, <2>4, <2>5, <2>6 DEF Effect, LengthBefore
  <2>8. q \in PageType
    <3>1. q.free_space \in Int /\ q.slots \in Seq(Slot)
      BY <1>2, <1>3, <2>3, <2>6
    <3> QED BY <1>3, <1>4, <3>1 DEF PageType
  <2> QED BY <1>1, <1>4, <2>7, <2>8
<1>8. CASE i = Len(p.slots) + 1
  <2>1. i > Len(p.slots) /\ ~(i <= Len(p.slots)) /\ \A k \in 1..Len(p.slots): k # i
    BY <1>3, <1>8
  <2>2. WithSlot(p, i, s) = Append(p.slots, s)
    BY <2>1 DEF WithSlot
  <2>3. /\ q.slots \in Seq(Slot) /\ Len(q.slots) = i /\ q.slots[i] = s
        /\ \A k \in 1..Len(p.slots): q.slots[k] = p.slots[k]
    BY <1>2, <1>4, <1>5, <1>8, <2>2, AppendParts
  <2>4. Changes(p, q, i, s)
    BY <1>3, <1>5, <1>8, <2>3 DEF Changes
  <2>5. q.free_space = p.free_space + 0 - length - SlotSize
    BY <1>2, <1>3, <1>4, <2>1
  <2>7. Effect(p, q, i, s)
    BY <1>5, <2>1, <2>4, <2>5 DEF Effect, LengthBefore
  <2>8. q \in PageType
    <3>1. q.free_space \in Int /\ q.slots \in Seq(Slot)
      BY <1>2, <1>3, <2>3, <2>5
    <3> QED BY <1>3, <1>4, <3>1 DEF PageType
  <2> QED BY <1>1, <1>4, <2>7, <2>8
<1> QED BY <1>6, <1>7, <1>8

(* A longer record that fits: the entry of the deleted slot that insert_record *)
(* used is swapped with the record's own, which is a tombstone by then.        *)
LEMMA MovedEffect ==
    ASSUME NEW p \in PageType, NEW i \in 1..Len(p.slots),
           NEW length \in Lengths, NEW content \in Contents,
           length <= p.data_end, Fits(DeleteRecord(p, i), length)
    PROVE  /\ Effect(p, Moved(p, i, length, content), i,
                     SlotEntry(p.data_end - length, length, content))
           /\ Moved(p, i, length, content).data_end = p.data_end - length
           /\ Moved(p, i, length, content) \in PageType
<1>1. PICK q, s, d, j, r :
         /\ q = Moved(p, i, length, content)
         /\ s = SlotEntry(p.data_end - length, length, content)
         /\ d = DeleteRecord(p, i) /\ j = SlotFor(d) /\ r = InsertRecord(d, length, content)
  OBVIOUS
<1>2. p.slots \in Seq(Slot) /\ Len(p.slots) \in Nat /\ i <= Len(p.slots) /\ p.free_space \in Int
  BY LenProperties DEF PageType
<1>3. /\ d \in PageType /\ d.data_end = p.data_end /\ d.slots = [p.slots EXCEPT ![i] = Tombstone]
      /\ d.free_space = p.free_space + p.slots[i].length
  BY <1>1, DeleteEffect
<1>4. /\ d.slots \in Seq(Slot) /\ Len(d.slots) = Len(p.slots) /\ d.slots[i] = Tombstone
      /\ \A k \in 1..Len(p.slots): k # i => d.slots[k] = p.slots[k]
  BY <1>2, <1>3, TombstoneIsSlot, ExceptSeq, LenProperties
<1>5. j \in Deleted(d) /\ j \in 1..Len(p.slots)
  <2>1. i \in Deleted(d)
    BY <1>2, <1>4, TombstoneIsSlot, LenProperties DEF Deleted
  <2> QED BY <1>1, <1>4, <2>1, SlotForIs
<1>6. /\ Effect(d, r, j, s) /\ r.data_end = p.data_end - length /\ r \in PageType
      /\ r.slots = WithSlot(d, j, s)
  <2>1. length <= d.data_end
    BY <1>3
  <2> QED BY <1>1, <1>3, <2>1, InsertEffect
<1>7. r.slots = [d.slots EXCEPT ![j] = s]
  <2>1. ~(j > Len(d.slots))
    BY <1>2, <1>4, <1>5
  <2> QED BY <1>6, <2>1 DEF WithSlot
<1>8. s \in Slot
  BY <1>6 DEF Effect, Changes
<1>9. /\ r.slots \in Seq(Slot) /\ Len(r.slots) = Len(p.slots) /\ r.slots[j] = s
      /\ \A k \in 1..Len(p.slots): k # j => r.slots[k] = d.slots[k]
  BY <1>4, <1>5, <1>7, <1>8, ExceptSeq, LenProperties
<1>10. q = [r EXCEPT !.slots = [[r.slots EXCEPT ![i] = r.slots[j]] EXCEPT ![j] = r.slots[i]]]
  <2>1. q = [r EXCEPT !.slots[i] = r.slots[j], !.slots[j] = r.slots[i]]
    BY <1>1 DEF Moved
  <2> QED BY <1>6, <2>1 DEF PageType
<1>11. /\ q.slots = [[r.slots EXCEPT ![i] = r.slots[j]] EXCEPT ![j] = r.slots[i]]
       /\ q.data_end = r.data_end /\ q.free_space = r.free_space
  BY <1>6, <1>10 DEF PageType
<1>12. PICK a : a = [r.slots EXCEPT ![i] = r.slots[j]]
  OBVIOUS
<1>13. /\ a \in Seq(Slot) /\ Len(a) = Len(p.slots) /\ a[i] = s
       /\ \A k \in 1..Len(p.slots): k # i => a[k] = r.slots[k]
  BY <1>8, <1>9, <1>12, ExceptSeq, LenProperties
<1>14. r.slots[i] \in Slot /\ (i # j => r.slots[i] = Tombstone)
  BY <1>4, <1>8, <1>9, TombstoneIsSlot
<1>15. /\ q.slots \in Seq(Slot) /\ Len(q.slots) = Len(p.slots) /\ q.slots[j] = r.slots[i]
       /\ \A k \in 1..Len(p.slots): k # j => q.slots[k] = a[k]
  <2>1. q.slots = [a EXCEPT ![j] = r.slots[i]]
    BY <1>11, <1>12
  <2> QED BY <1>5, <1>13, <1>14, <2>1, ExceptSeq, LenProperties
<1>16. q.slots[i] = s
  BY <1>9, <1>13, <1>15
<1>17. ASSUME NEW k \in 1..Len(p.slots), k # i
       PROVE  \/ q.slots[k] = p.slots[k]
              \/ IsDeleted(p.slots[k]) /\ q.slots[k] = Tombstone
  <2>1. CASE k # j
    <3>1. q.slots[k] = d.slots[k]
      BY <1>9, <1>13, <1>15, <1>17, <2>1
    <3> QED BY <1>4, <1>17, <3>1
  <2>2. CASE k = j
    <3>1. IsDeleted(d.slots[k]) /\ d.slots[k] = p.slots[k]
      BY <1>4, <1>5, <1>17, <2>2 DEF Deleted
    <3> QED BY <1>14, <1>15, <1>17, <2>2, <3>1
  <2> QED BY <2>1, <2>2
<1>18. Changes(p, q, i, s)
  BY <1>2, <1>8, <1>15, <1>16, <1>17 DEF Changes
<1>19. q.free_space = p.free_space + p.slots[i].length - s.length - 0
  <2>1. r.free_space = d.free_space + LengthBefore(d, j) - s.length
                           - (IF j <= Len(d.slots) THEN 0 ELSE SlotSize)
    BY <1>6 DEF Effect
  <2>2. j <= Len(d.slots) /\ LengthBefore(d, j) = 0
    BY <1>2, <1>4, <1>5 DEF LengthBefore, Deleted, IsDeleted
  <2>3. p.slots[i].length \in Nat /\ s.length \in Nat
    BY <1>1, <1>2, PageHasLengths, PageAssumption DEF SlotEntry
  <2>4. r.free_space = d.free_space + 0 - s.length - 0
    BY <2>1, <2>2
  <2> QED BY <1>2, <1>3, <1>11, <2>3, <2>4
<1>20. Effect(p, q, i, s)
  BY <1>2, <1>18, <1>19 DEF Effect, LengthBefore
<1>21. q \in PageType
  BY <1>6, <1>10, <1>11, <1>15 DEF PageType
<1> QED BY <1>1, <1>6, <1>11, <1>20, <1>21

----------------------------------------------------------------------------
(* The sums and the directory after an operation.                            *)
Total(p) == LengthsUpTo(p, Len(p.slots))

Exact(p) == p.free_space = PageSize - DirectoryEnd(p) - Total(p)

(* The records take no negative room.                                        *)
LEMMA TotalIsNat ==
    ASSUME NEW p, p.slots \in Seq(Slot)
    PROVE  Total(p) \in Nat
<1>1. HasLengths(p) /\ Len(p.slots) \in 0..Len(p.slots)
  BY PageHasLengths
<1> QED BY <1>1, LengthsAdd DEF Total

(* The directory grows by one entry or not at all.                           *)
LEMMA DirectoryGrows ==
    ASSUME NEW p, NEW q, Len(p.slots) \in Nat
    PROVE  /\ DirectoryEnd(p) \in Nat /\ HeaderSize <= DirectoryEnd(p)
           /\ Len(q.slots) = Len(p.slots) => DirectoryEnd(q) = DirectoryEnd(p)
           /\ Len(q.slots) = Len(p.slots) + 1 => DirectoryEnd(q) = DirectoryEnd(p) + SlotSize
<1>1. HeaderSize \in Nat /\ SlotSize \in Nat
  BY PageAssumption
<1>2. PICK n : n = Len(p.slots)
  OBVIOUS
<1>3. n * SlotSize \in Nat /\ (n + 1) * SlotSize = n * SlotSize + SlotSize
  BY <1>1, <1>2
<1>4. DirectoryEnd(p) = HeaderSize + n * SlotSize
  BY <1>2 DEF DirectoryEnd
<1>5. Len(q.slots) = n + 1 => DirectoryEnd(q) = HeaderSize + (n + 1) * SlotSize
  BY DEF DirectoryEnd
<1>6. Len(q.slots) = n => DirectoryEnd(q) = HeaderSize + n * SlotSize
  BY DEF DirectoryEnd
<1> HIDE DEF DirectoryEnd
<1> QED BY <1>1, <1>2, <1>3, <1>4, <1>5, <1>6

(* The other slots are as long, and hold what they held.                     *)
LEMMA OthersStay ==
    ASSUME NEW p, NEW q, NEW i, NEW s, p.slots \in Seq(Slot), Changes(p, q, i, s),
           NEW k \in 1..Len(p.slots), k # i
    PROVE  /\ q.slots[k].length = p.slots[k].length
           /\ IsDeleted(p.slots[k]) <=> IsDeleted(q.slots[k])
           /\ ~IsDeleted(p.slots[k]) => q.slots[k] = p.slots[k]
           /\ q.slots[k] = p.slots[k] \/ (IsDeleted(p.slots[k]) /\ q.slots[k].content = Gone)
BY DEF Changes, IsDeleted, Tombstone, SlotEntry

(* The room that the records take changes as the one entry does.             *)
LEMMA TotalChanges ==
    ASSUME NEW p, NEW q, NEW i, NEW s, p.slots \in Seq(Slot), Changes(p, q, i, s)
    PROVE  Total(q) = Total(p) + s.length - LengthBefore(p, i)
<1>1. /\ HasLengths(p) /\ Len(p.slots) \in Nat
      /\ \A k \in 1..Len(p.slots): p.slots[k].length \in Nat
  BY PageHasLengths
<1>2. q.slots \in Seq(Slot) /\ i \in 1..Len(q.slots) /\ q.slots[i] = s
  BY DEF Changes
<1>3. HasLengths(q) /\ Len(q.slots) \in Nat /\ s.length \in Nat
  BY <1>2, PageHasLengths
<1>4. \A k \in 1..Len(p.slots): k # i => q.slots[k].length = p.slots[k].length
  BY OthersStay
<1>5. Total(p) \in Nat
  BY TotalIsNat
<1>6. CASE i <= Len(p.slots) /\ Len(q.slots) = Len(p.slots)
  <2>1. i \in 1..Len(p.slots) /\ Len(p.slots) <= Len(q.slots) /\ Len(p.slots) <= Len(p.slots)
    BY <1>1, <1>2, <1>6
  <2>2. LengthsUpTo(q, Len(p.slots)) =
           LengthsUpTo(p, Len(p.slots)) + q.slots[i].length - p.slots[i].length
    BY <1>1, <1>3, <1>4, <2>1, LengthsChange
  <2> QED BY <1>2, <1>6, <2>2 DEF Total, LengthBefore
<1>7. CASE i = Len(p.slots) + 1 /\ Len(q.slots) = i
  <2>1. PICK n : n = Len(p.slots)
    OBVIOUS
  <2>2. n \in Nat /\ n <= Len(p.slots) /\ n <= Len(q.slots) /\ ~(i <= n)
        /\ i - 1 = n /\ \A k \in 1..n: k # i
    BY <1>1, <1>7, <2>1
  <2>3. LengthsUpTo(q, n) = LengthsUpTo(p, n)
    BY <1>1, <1>3, <1>4, <2>1, <2>2, LengthsStay
  <2>4. LengthsUpTo(q, i) = LengthsUpTo(q, i - 1) + q.slots[i].length
    BY <1>2, <1>3, LengthsAdd
  <2>5. Total(q) = Total(p) + s.length
    BY <1>2, <1>7, <2>1, <2>2, <2>3, <2>4 DEF Total
  <2>6. LengthBefore(p, i) = 0
    BY <2>1, <2>2 DEF LengthBefore
  <2> QED BY <1>3, <1>5, <2>5, <2>6
<1> QED BY <1>6, <1>7 DEF Changes

(* Lengths are natural numbers.                                              *)
LEMMA EffectLengths ==
    ASSUME NEW p, NEW q, NEW i, NEW s, Effect(p, q, i, s)
    PROVE  s.length \in Nat /\ LengthBefore(p, i) \in Nat
<1>1. p \in PageType /\ Changes(p, q, i, s)
  BY DEF Effect
<1>2. p.slots \in Seq(Slot) /\ Len(p.slots) \in Nat
  BY <1>1, LenProperties DEF PageType
<1>3. s.length \in Nat
  <2>1. q.slots \in Seq(Slot) /\ i \in 1..Len(q.slots) /\ q.slots[i] = s
    BY <1>1 DEF Changes
  <2> QED BY <2>1, PageHasLengths
<1>4. ASSUME i <= Len(p.slots) PROVE LengthBefore(p, i) \in Nat
  <2>1. i \in 1..Len(p.slots)
    <3>1. i \in Nat /\ 1 <= i
      BY <1>1, LenProperties DEF Changes
    <3> QED BY <1>2, <1>4, <3>1
  <2>2. p.slots[i].length \in Nat
    BY <1>2, <2>1, PageHasLengths
  <2> QED BY <1>4, <2>2 DEF LengthBefore
<1>5. ASSUME ~(i <= Len(p.slots)) PROVE LengthBefore(p, i) \in Nat
  BY <1>5 DEF LengthBefore
<1> QED BY <1>3, <1>4, <1>5

(* The free space stays exact.                                               *)
LEMMA EffectIsExact ==
    ASSUME NEW p, NEW q, NEW i, NEW s, Effect(p, q, i, s), Exact(p)
    PROVE  Exact(q)
<1>1. p \in PageType /\ Changes(p, q, i, s)
  BY DEF Effect
<1>2. p.slots \in Seq(Slot) /\ p.free_space \in Int /\ Len(p.slots) \in Nat
  BY <1>1, LenProperties DEF PageType
<1>3. s.length \in Nat /\ LengthBefore(p, i) \in Nat
  BY EffectLengths
<1>4. Total(q) = Total(p) + s.length - LengthBefore(p, i) /\ Total(p) \in Nat
  BY <1>1, <1>2, TotalChanges, TotalIsNat
<1>5. PageSize \in Nat /\ SlotSize \in Nat /\ DirectoryEnd(p) \in Nat
  BY <1>2, PageAssumption, DirectoryGrows
<1>6. p.free_space = PageSize - DirectoryEnd(p) - Total(p)
  BY DEF Exact
<1>7. CASE i <= Len(p.slots) /\ Len(q.slots) = Len(p.slots)
  <2>1. DirectoryEnd(q) = DirectoryEnd(p)
    BY <1>2, <1>7, DirectoryGrows
  <2>2. q.free_space = p.free_space + LengthBefore(p, i) - s.length - 0
    BY <1>7 DEF Effect
  <2>3. q.free_space = PageSize - DirectoryEnd(q) - Total(q)
    BY <1>2, <1>3, <1>4, <1>5, <1>6, <2>1, <2>2
  <2> QED BY <2>3 DEF Exact
<1>8. CASE i = Len(p.slots) + 1 /\ Len(q.slots) = i
  <2>1. DirectoryEnd(q) = DirectoryEnd(p) + SlotSize
    BY <1>2, <1>8, DirectoryGrows
  <2>2. q.free_space = p.free_space + LengthBefore(p, i) - s.length - SlotSize
    <3>1. ~(i <= Len(p.slots))
      BY <1>2, <1>8
    <3> QED BY <3>1 DEF Effect
  <2>3. q.free_space = PageSize - DirectoryEnd(q) - Total(q)
    BY <1>2, <1>3, <1>4, <1>5, <1>6, <2>1, <2>2
  <2> QED BY <2>3 DEF Exact
<1> QED BY <1>1, <1>7, <1>8 DEF Changes

(* A page that is exact and not in debt has free space in bounds.             *)
LEMMA ExactIsBounded ==
    ASSUME NEW p \in PageType, Exact(p)
    PROVE  p.free_space <= PageSize - HeaderSize
<1>1. p.slots \in Seq(Slot) /\ p.free_space \in Int /\ Len(p.slots) \in Nat
  BY LenProperties DEF PageType
<1>2. Total(p) \in Nat /\ DirectoryEnd(p) \in Nat /\ HeaderSize <= DirectoryEnd(p)
  BY <1>1, TotalIsNat, DirectoryGrows
<1>3. PageSize \in Nat /\ HeaderSize \in Nat
  BY PageAssumption
<1>4. p.free_space = PageSize - DirectoryEnd(p) - Total(p)
  BY DEF Exact
<1> QED BY <1>1, <1>2, <1>3, <1>4

(* compact keeps every length and content, and moves the live records.        *)
LEMMA CompactKeeps ==
    ASSUME NEW p \in PageType, Exact(p), 0 <= p.free_space, NEW q, q = Compacted(p)
    PROVE  /\ q \in PageType /\ Len(q.slots) = Len(p.slots) /\ Exact(q)
           /\ q.free_space = p.free_space /\ DirectoryEnd(q) <= q.data_end
           /\ q.data_end = PageSize - Total(p)
           /\ \A k \in 1..Len(p.slots):
                 /\ q.slots[k].length = p.slots[k].length
                 /\ q.slots[k].content = p.slots[k].content
                 /\ IsDeleted(q.slots[k]) <=> IsDeleted(p.slots[k])
                 /\ ~IsDeleted(p.slots[k]) => q.slots[k].offset = PageSize - LengthsUpTo(p, k)
<1>1. /\ p.slots \in Seq(Slot) /\ p.free_space \in Int /\ Len(p.slots) \in Nat
      /\ DOMAIN p.slots = 1..Len(p.slots) /\ HasLengths(p)
  BY LenProperties, PageHasLengths DEF PageType
<1>2. PICK n : n = Len(p.slots)
  OBVIOUS
<1>3. /\ PageSize \in Nat /\ HeaderSize \in Nat /\ Total(p) \in Nat
      /\ DirectoryEnd(p) \in Nat
  BY <1>1, PageAssumption, TotalIsNat, DirectoryGrows
<1>4. p.free_space = PageSize - DirectoryEnd(p) - Total(p)
  BY DEF Exact
<1>5. PageSize - Total(p) \in 0..PageSize
  BY <1>1, <1>3, <1>4
<1>6. q = [slots |-> [k \in DOMAIN p.slots |->
                        IF k \in Deleted(p) THEN p.slots[k]
                        ELSE [p.slots[k] EXCEPT !.offset = PageSize - LengthsUpTo(p, k)]],
           data_end |-> PageSize - Total(p),
           free_space |-> (PageSize - Total(p)) - DirectoryEnd(p)]
  BY DEF Compacted, Total
<1>7. q.data_end = PageSize - Total(p) /\ q.free_space = (PageSize - Total(p)) - DirectoryEnd(p)
  BY <1>6
<1>8. ASSUME NEW k \in 1..n
      PROVE  /\ q.slots[k] \in Slot
             /\ q.slots[k].length = p.slots[k].length
             /\ q.slots[k].content = p.slots[k].content
             /\ IsDeleted(q.slots[k]) <=> IsDeleted(p.slots[k])
             /\ ~IsDeleted(p.slots[k]) => q.slots[k].offset = PageSize - LengthsUpTo(p, k)
  <2>1. k \in DOMAIN p.slots /\ p.slots[k] \in Slot /\ k \in 0..n /\ n \in k..n
    BY <1>1, <1>2, PageHasLengths
  <2>2. CASE IsDeleted(p.slots[k])
    <3>1. k \in Deleted(p)
      BY <2>1, <2>2 DEF Deleted
    <3>2. q.slots[k] = p.slots[k]
      BY <1>6, <2>1, <3>1
    <3> QED BY <2>1, <2>2, <3>2
  <2>3. CASE ~IsDeleted(p.slots[k])
    <3>1. k \notin Deleted(p)
      BY <2>3 DEF Deleted
    <3>2. q.slots[k] = [p.slots[k] EXCEPT !.offset = PageSize - LengthsUpTo(p, k)]
      BY <1>6, <2>1, <3>1
    <3>3. LengthsUpTo(p, k) \in Nat /\ LengthsUpTo(p, k) <= Total(p)
      BY <1>1, <1>2, <2>1, LengthsAdd, LengthsGrow DEF Total
    <3>4. PageSize - LengthsUpTo(p, k) \in 0..PageSize
      BY <1>3, <1>5, <3>3
    <3>5. /\ q.slots[k] \in Slot /\ q.slots[k].length = p.slots[k].length
          /\ q.slots[k].content = p.slots[k].content
          /\ q.slots[k].offset = PageSize - LengthsUpTo(p, k)
      BY <2>1, <3>2, <3>4 DEF Slot
    <3> QED BY <2>3, <3>5 DEF IsDeleted
  <2> QED BY <2>2, <2>3
<1>9. q.slots \in Seq(Slot) /\ Len(q.slots) = n
  <2>1. PICK f : f = [k \in 1..n |-> IF k \in Deleted(p) THEN p.slots[k]
                       ELSE [p.slots[k] EXCEPT !.offset = PageSize - LengthsUpTo(p, k)]]
    OBVIOUS
  <2>2. q.slots = f
    BY <1>1, <1>2, <1>6, <2>1
  <2>3. \A k \in 1..n: f[k] \in Slot
    BY <1>8, <2>2
  <2>4. f \in [1..n -> Slot] /\ n \in Nat
    BY <1>1, <1>2, <2>1, <2>3
  <2> QED BY <2>2, <2>4, SeqDef, LenProperties
<1>10. q \in PageType
  <2>1. (PageSize - Total(p)) - DirectoryEnd(p) \in Int
    BY <1>3
  <2> QED BY <1>5, <1>6, <1>7, <1>9, <2>1 DEF PageType
<1>11. DirectoryEnd(q) = DirectoryEnd(p)
  BY <1>1, <1>2, <1>9, DirectoryGrows
<1>12. Total(q) = Total(p)
  <2>1. HasLengths(q) /\ n \in Nat /\ n <= Len(p.slots) /\ n <= Len(q.slots)
    BY <1>1, <1>2, <1>9, PageHasLengths
  <2>2. LengthsUpTo(q, n) = LengthsUpTo(p, n)
    BY <1>1, <1>8, <2>1, LengthsStay
  <2> QED BY <1>2, <1>9, <2>2 DEF Total
<1>13. Exact(q) /\ q.free_space = p.free_space /\ DirectoryEnd(q) <= q.data_end
  <2>1. q.free_space = PageSize - DirectoryEnd(q) - Total(q)
    BY <1>3, <1>7, <1>11, <1>12
  <2>2. q.free_space = p.free_space
    BY <1>3, <1>4, <1>7
  <2>3. DirectoryEnd(q) <= q.data_end
    BY <1>1, <1>3, <1>4, <1>7, <1>11
  <2> QED BY <2>1, <2>2, <2>3 DEF Exact
<1> QED BY <1>2, <1>7, <1>8, <1>9, <1>10, <1>13

(* Packed in slot order, the records are below each other.                    *)
LEMMA CompactLaysOut ==
    ASSUME NEW p \in PageType, Exact(p), 0 <= p.free_space, NEW q, q = Compacted(p)
    PROVE  RecordsAboveDataEnd(q) /\ RecordsApart(q)
<1>1. /\ q \in PageType /\ Len(q.slots) = Len(p.slots) /\ DirectoryEnd(q) <= q.data_end
      /\ q.data_end = PageSize - Total(p)
      /\ \A k \in 1..Len(p.slots):
            /\ q.slots[k].length = p.slots[k].length
            /\ IsDeleted(q.slots[k]) <=> IsDeleted(p.slots[k])
            /\ ~IsDeleted(p.slots[k]) => q.slots[k].offset = PageSize - LengthsUpTo(p, k)
  BY CompactKeeps
<1>2. /\ p.slots \in Seq(Slot) /\ q.slots \in Seq(Slot) /\ Len(p.slots) \in Nat /\ HasLengths(p)
      /\ DOMAIN q.slots = 1..Len(p.slots) /\ PageSize \in Nat /\ Total(p) \in Nat
  BY <1>1, LenProperties, PageHasLengths, PageAssumption, TotalIsNat DEF PageType
<1>3. ASSUME NEW k \in Live(q)
      PROVE  /\ k \in 1..Len(p.slots) /\ p.slots[k].length \in Nat
             /\ LengthsUpTo(p, k) \in Nat /\ LengthsUpTo(p, k) <= Total(p)
             /\ q.slots[k].offset = PageSize - LengthsUpTo(p, k)
             /\ LengthsUpTo(p, k - 1) \in Nat
             /\ q.slots[k].offset + q.slots[k].length = PageSize - LengthsUpTo(p, k - 1)
  <2>1. k \in 1..Len(p.slots) /\ ~IsDeleted(q.slots[k])
    BY <1>2 DEF Live, Deleted
  <2>2. k \in 0..Len(p.slots) /\ k - 1 \in 0..Len(p.slots) /\ Len(p.slots) \in k..Len(p.slots)
    BY <1>2, <2>1
  <2>3. q.slots[k].offset = PageSize - LengthsUpTo(p, k) /\ q.slots[k].length = p.slots[k].length
    BY <1>1, <2>1
  <2>4. /\ LengthsUpTo(p, k) \in Nat /\ LengthsUpTo(p, k - 1) \in Nat
        /\ LengthsUpTo(p, k) = LengthsUpTo(p, k - 1) + p.slots[k].length
        /\ LengthsUpTo(p, k) <= Total(p)
    BY <1>2, <2>1, <2>2, LengthsAdd, LengthsGrow DEF Total
  <2>5. p.slots[k].length \in Nat
    BY <1>2, <2>1, PageHasLengths
  <2> QED BY <1>2, <2>1, <2>3, <2>4, <2>5
<1>4. ASSUME NEW k \in Live(q)
      PROVE  /\ q.data_end <= q.slots[k].offset
             /\ q.slots[k].offset + q.slots[k].length <= PageSize
  BY <1>1, <1>2, <1>3
<1>5. ASSUME NEW i \in Live(q), NEW j \in Live(q), i < j
      PROVE  q.slots[j].offset + q.slots[j].length <= q.slots[i].offset
  <2>1. i \in 1..Len(p.slots) /\ j \in 1..Len(p.slots)
    BY <1>3
  <2>2. i \in 0..Len(p.slots) /\ j - 1 \in i..Len(p.slots)
    BY <1>2, <1>5, <2>1
  <2>3. LengthsUpTo(p, i) <= LengthsUpTo(p, j - 1)
    BY <1>2, <2>2, LengthsGrow
  <2>4. /\ q.slots[i].offset = PageSize - LengthsUpTo(p, i) /\ LengthsUpTo(p, i) \in Nat
        /\ q.slots[j].offset + q.slots[j].length = PageSize - LengthsUpTo(p, j - 1)
        /\ LengthsUpTo(p, j - 1) \in Nat
    BY <1>3
  <2> QED BY <1>2, <2>3, <2>4
<1>6. RecordsApart(q)
  <2> SUFFICES ASSUME NEW i \in Live(q), NEW j \in Live(q), i # j
               PROVE  Apart(q.slots[i], q.slots[j])
    BY DEF RecordsApart
  <2>1. i < j \/ j < i
    <3>1. i \in 1..Len(p.slots) /\ j \in 1..Len(p.slots)
      BY <1>3
    <3> QED BY <1>2, <3>1
  <2> QED BY <1>5, <2>1 DEF Apart
<1> QED BY <1>1, <1>4, <1>6 DEF RecordsAboveDataEnd

----------------------------------------------------------------------------
(* Another record that is there after an operation was there before it.       *)
LEMMA LiveOthers ==
    ASSUME NEW p, NEW q, NEW i, NEW s, p.slots \in Seq(Slot), Changes(p, q, i, s),
           NEW k \in Live(q), k # i
    PROVE  k \in Live(p) /\ q.slots[k] = p.slots[k]
<1>1. q.slots \in Seq(Slot) /\ Len(q.slots) \in Nat /\ Len(p.slots) \in Nat
      /\ DOMAIN q.slots = 1..Len(q.slots) /\ DOMAIN p.slots = 1..Len(p.slots)
  BY LenProperties DEF Changes
<1>2. k \in 1..Len(q.slots) /\ ~IsDeleted(q.slots[k])
  BY <1>1 DEF Live, Deleted
<1>3. k \in 1..Len(p.slots)
  BY <1>1, <1>2 DEF Changes
<1>4. ~IsDeleted(p.slots[k]) /\ q.slots[k] = p.slots[k]
  BY <1>2, <1>3, OthersStay
<1> QED BY <1>1, <1>3, <1>4 DEF Live, Deleted

(* A tombstone or a record that is not longer, in place, keeps the layout.   *)
LEMMA LayoutInPlace ==
    ASSUME NEW p \in PageType, NEW q, NEW i \in Live(p), NEW s, Changes(p, q, i, s),
           q.data_end = p.data_end,
           IsDeleted(s) \/ (s.offset = p.slots[i].offset /\ s.length <= p.slots[i].length),
           RecordsAboveDataEnd(p), RecordsApart(p)
    PROVE  RecordsAboveDataEnd(q) /\ RecordsApart(q)
<1>1. /\ p.slots \in Seq(Slot) /\ Len(p.slots) \in Nat /\ DOMAIN p.slots = 1..Len(p.slots)
      /\ p.data_end \in Int /\ PageSize \in Nat
  BY LenProperties, PageAssumption DEF PageType
<1>2. i \in 1..Len(p.slots)
  BY <1>1 DEF Live
<1>3. Len(q.slots) = Len(p.slots) /\ q.slots[i] = s /\ q.slots \in Seq(Slot)
  BY <1>1, <1>2 DEF Changes
<1>4. \A k \in 1..Len(p.slots): p.slots[k].offset \in Nat /\ p.slots[k].length \in Nat
  <2>1. \A t \in Slot: t.offset \in Nat
    BY <1>1 DEF Slot
  <2> QED BY <1>1, <2>1, PageHasLengths
<1>5. s.length \in Nat
  BY <1>1, <1>2, <1>3, PageHasLengths
<1>6. DirectoryEnd(q) <= q.data_end
  BY <1>1, <1>3, DirectoryGrows DEF RecordsAboveDataEnd
<1>7. ASSUME NEW k \in Live(q)
      PROVE  /\ k \in Live(p) /\ k \in 1..Len(p.slots)
             /\ q.slots[k].offset = p.slots[k].offset
             /\ q.slots[k].length \in Nat /\ q.slots[k].length <= p.slots[k].length
  <2>1. CASE k = i
    <3>1. ~IsDeleted(s)
      BY <1>1, <1>3, <2>1, LenProperties DEF Live, Deleted
    <3> QED BY <1>2, <1>3, <1>5, <2>1, <3>1
  <2>2. CASE k # i
    <3>1. k \in Live(p) /\ q.slots[k] = p.slots[k]
      BY <1>1, <2>2, LiveOthers
    <3>2. k \in 1..Len(p.slots)
      BY <1>1, <3>1 DEF Live
    <3> QED BY <1>4, <3>1, <3>2
  <2> QED BY <2>1, <2>2
<1>8. ASSUME NEW k \in Live(q)
      PROVE  /\ q.data_end <= q.slots[k].offset
             /\ q.slots[k].offset + q.slots[k].length <= PageSize
  <2>1. p.data_end <= p.slots[k].offset /\ p.slots[k].offset + p.slots[k].length <= PageSize
    BY <1>7 DEF RecordsAboveDataEnd
  <2> QED BY <1>1, <1>4, <1>7, <2>1
<1>9. ASSUME NEW k \in Live(q), NEW l \in Live(q), k # l
      PROVE  Apart(q.slots[k], q.slots[l])
  <2>1. /\ q.slots[k].offset = p.slots[k].offset /\ p.slots[k].offset \in Nat
        /\ q.slots[k].length \in Nat /\ p.slots[k].length \in Nat
        /\ q.slots[k].length <= p.slots[k].length /\ k \in Live(p)
    BY <1>4, <1>7
  <2>2. /\ q.slots[l].offset = p.slots[l].offset /\ p.slots[l].offset \in Nat
        /\ q.slots[l].length \in Nat /\ p.slots[l].length \in Nat
        /\ q.slots[l].length <= p.slots[l].length /\ l \in Live(p)
    BY <1>4, <1>7
  <2>3. Apart(p.slots[k], p.slots[l])
    BY <1>9, <2>1, <2>2 DEF RecordsApart
  <2> QED BY <2>1, <2>2, <2>3 DEF Apart
<1> QED BY <1>6, <1>8, <1>9 DEF RecordsAboveDataEnd, RecordsApart

(* So does a record right below the others, if the directory ends below it.  *)
LEMMA LayoutAtBottom ==
    ASSUME NEW p \in PageType, NEW q, NEW i, NEW s, Changes(p, q, i, s),
           s.offset = q.data_end, q.data_end = p.data_end - s.length, q.data_end \in Nat,
           DirectoryEnd(q) <= q.data_end, RecordsAboveDataEnd(p), RecordsApart(p)
    PROVE  RecordsAboveDataEnd(q) /\ RecordsApart(q)
<1>1. /\ p.slots \in Seq(Slot) /\ DOMAIN p.slots = 1..Len(p.slots)
      /\ p.data_end \in 0..PageSize /\ PageSize \in Nat
  BY LenProperties, PageAssumption DEF PageType
<1>2. s.length \in Nat /\ q.slots[i] = s
  <2>1. q.slots \in Seq(Slot) /\ i \in 1..Len(q.slots) /\ q.slots[i] = s
    BY DEF Changes
  <2> QED BY <2>1, PageHasLengths
<1>3. ASSUME NEW k \in Live(q), k # i
      PROVE  /\ k \in Live(p) /\ q.slots[k] = p.slots[k] /\ p.data_end <= q.slots[k].offset
             /\ q.slots[k].offset + q.slots[k].length <= PageSize
             /\ q.slots[k].offset \in Nat
  <2>1. k \in Live(p) /\ q.slots[k] = p.slots[k]
    BY <1>1, <1>3, LiveOthers
  <2>2. p.slots[k].offset \in Nat
    <3>1. p.slots[k] \in Slot
      BY <1>1, <2>1, PageHasLengths DEF Live
    <3> QED BY <1>1, <3>1 DEF Slot
  <2> QED BY <2>1, <2>2 DEF RecordsAboveDataEnd
<1>4. s.offset + s.length = p.data_end
  BY <1>1, <1>2
<1>5. ASSUME NEW k \in Live(q)
      PROVE  /\ q.data_end <= q.slots[k].offset
             /\ q.slots[k].offset + q.slots[k].length <= PageSize
  <2>1. CASE k = i
    BY <1>1, <1>2, <1>4, <2>1
  <2>2. CASE k # i
    BY <1>1, <1>2, <1>3, <2>2
  <2> QED BY <2>1, <2>2
<1>6. ASSUME NEW k \in Live(q), k # i
      PROVE  Apart(q.slots[k], q.slots[i]) /\ Apart(q.slots[i], q.slots[k])
  BY <1>2, <1>3, <1>4, <1>6 DEF Apart
<1>7. ASSUME NEW k \in Live(q), NEW l \in Live(q), k # l
      PROVE  Apart(q.slots[k], q.slots[l])
  <2>1. CASE k = i
    BY <1>6, <1>7, <2>1
  <2>2. CASE l = i
    BY <1>6, <1>7, <2>2
  <2>3. CASE k # i /\ l # i
    <3>1. k \in Live(p) /\ l \in Live(p) /\ q.slots[k] = p.slots[k] /\ q.slots[l] = p.slots[l]
      BY <1>3, <2>3
    <3> QED BY <1>7, <3>1 DEF RecordsApart
  <2> QED BY <2>1, <2>2, <2>3
<1> QED BY <1>5, <1>7 DEF RecordsAboveDataEnd, RecordsApart

(* What stays of a page, whatever its callers do.                            *)
Good(p) ==
    /\ p \in PageType /\ Exact(p) /\ 0 <= p.free_space
    /\ \A k \in Deleted(p): p.slots[k].content = Gone

(* A page that is well stays well, and the other slots hold what they held.  *)
LEMMA GoodStays ==
    ASSUME NEW p, NEW q \in PageType, NEW i, NEW s, Good(p), Effect(p, q, i, s),
           0 <= q.free_space, IsDeleted(s) => s.content = Gone
    PROVE  /\ Good(q)
           /\ \A k \in 1..Len(p.slots): k # i => q.slots[k].content = p.slots[k].content
<1>1. Changes(p, q, i, s) /\ p.slots \in Seq(Slot) /\ q.slots \in Seq(Slot)
      /\ DOMAIN p.slots = 1..Len(p.slots) /\ DOMAIN q.slots = 1..Len(q.slots)
      /\ Len(p.slots) \in Nat /\ Len(q.slots) \in Nat
  BY LenProperties DEF Effect, PageType
<1>2. Exact(q)
  BY EffectIsExact DEF Good
<1>3. ASSUME NEW k \in 1..Len(p.slots), k # i PROVE q.slots[k].content = p.slots[k].content
  <2>1. q.slots[k] = p.slots[k] \/ (IsDeleted(p.slots[k]) /\ q.slots[k].content = Gone)
    BY <1>1, <1>3, OthersStay
  <2>2. IsDeleted(p.slots[k]) => p.slots[k].content = Gone
    BY <1>1 DEF Good, Deleted
  <2> QED BY <2>1, <2>2
<1>4. ASSUME NEW k \in Deleted(q) PROVE q.slots[k].content = Gone
  <2>1. k \in 1..Len(q.slots) /\ IsDeleted(q.slots[k])
    BY <1>1 DEF Deleted
  <2>2. CASE k = i
    BY <1>1, <2>1, <2>2 DEF Changes
  <2>3. CASE k # i
    <3>1. k \in 1..Len(p.slots)
      BY <1>1, <2>1, <2>3 DEF Changes
    <3>2. IsDeleted(p.slots[k])
      BY <1>1, <2>1, <2>3, <3>1, OthersStay
    <3>3. k \in Deleted(p)
      BY <1>1, <3>1, <3>2 DEF Deleted
    <3> QED BY <1>3, <2>3, <3>1, <3>3 DEF Good
  <2> QED BY <2>2, <2>3
<1> QED BY <1>2, <1>3, <1>4 DEF Good

----------------------------------------------------------------------------
(* The invariant.                                                           *)
CallerTypes == expected \in Seq(Contents \union {Gone}) /\ shown \subseteq Habits

PageInvariant == Good(page) /\ CallerTypes /\ ReadsBack /\ Layout

(* An empty page is well.                                                    *)
LEMMA InitPage == Init => PageInvariant
<1> SUFFICES ASSUME Init PROVE PageInvariant
  OBVIOUS
<1>1. /\ page = [slots |-> <<>>, data_end |-> PageSize, free_space |-> PageSize - HeaderSize]
      /\ expected = <<>> /\ shown = {}
  BY DEF Init
<1>2. PageSize \in Nat /\ HeaderSize \in Nat /\ SlotSize \in Nat /\ HeaderSize <= PageSize
  BY PageAssumption
<1>3. <<>> \in Seq(Slot) /\ <<>> \in Seq(Contents \union {Gone}) /\ Len(<<>>) = 0
  OBVIOUS
<1>4. /\ page.slots = <<>> /\ page.data_end = PageSize
      /\ page.free_space = PageSize - HeaderSize
  BY <1>1
<1>5. page \in PageType
  BY <1>1, <1>2, <1>3 DEF PageType
<1>6. Deleted(page) = {} /\ Live(page) = {}
  BY <1>4 DEF Deleted, Live
<1>7. DirectoryEnd(page) = HeaderSize /\ Total(page) = 0
  <2>1. Len(page.slots) = 0 /\ HasLengths(page)
    BY <1>3, <1>4, PageHasLengths
  <2>2. Total(page) = 0
    BY <2>1, LengthsAdd DEF Total
  <2>3. DirectoryEnd(page) = HeaderSize + 0 * SlotSize
    BY <2>1 DEF DirectoryEnd
  <2> QED BY <1>2, <2>2, <2>3
<1>8. Good(page)
  BY <1>2, <1>4, <1>5, <1>6, <1>7 DEF Good, Exact
<1>9. CallerTypes /\ ReadsBack
  BY <1>1, <1>3, <1>4 DEF CallerTypes, ReadsBack
<1>10. Layout
  BY <1>2, <1>4, <1>6, <1>7 DEF Layout, RecordsAboveDataEnd, RecordsApart
<1> QED BY <1>8, <1>9, <1>10 DEF PageInvariant

(* As long as nobody showed the habit "grow", there are as many expectations  *)
(* as slots.                                                                *)
LEMMA ExpectedLength ==
    ASSUME PageInvariant, "grow" \notin shown
    PROVE  /\ Len(page.slots) = Len(expected)
           /\ \A k \in 1..Len(page.slots): page.slots[k].content = expected[k]
<1>1. /\ DOMAIN page.slots = DOMAIN expected
      /\ \A k \in DOMAIN expected: page.slots[k].content = expected[k]
  BY DEF PageInvariant, ReadsBack
<1>2. page.slots \in Seq(Slot) /\ expected \in Seq(Contents \union {Gone})
  BY DEF PageInvariant, Good, PageType, CallerTypes
<1>3. PICK m, n \in Nat : m = Len(page.slots) /\ n = Len(expected)
                         /\ DOMAIN page.slots = 1..m /\ DOMAIN expected = 1..n
  BY <1>2, LenProperties
<1>4. 1..m = 1..n
  BY <1>1, <1>3
<1>5. m = n
  <2>1. CASE m < n
    BY <1>4, <2>1
  <2>2. CASE n < m
    BY <1>4, <2>2
  <2> QED BY <2>1, <2>2
<1> QED BY <1>1, <1>3, <1>5

(* What callers expect, after one entry changed as the page did.             *)
LEMMA ExpectationsFollow ==
    ASSUME PageInvariant, "grow" \notin shown, NEW i, NEW s,
           Effect(page, page', i, s), page' \in PageType,
           \A k \in 1..Len(page.slots): k # i => page'.slots[k].content = page.slots[k].content,
           expected' = IF i > Len(expected) THEN Append(expected, s.content)
                       ELSE [expected EXCEPT ![i] = s.content]
    PROVE  /\ DOMAIN page'.slots = DOMAIN expected'
           /\ \A k \in DOMAIN expected': page'.slots[k].content = expected'[k]
<1>1. /\ Len(page.slots) = Len(expected)
      /\ \A k \in 1..Len(page.slots): page.slots[k].content = expected[k]
  BY ExpectedLength
<1>2. PICK e, n : e = expected /\ n = Len(expected)
  OBVIOUS
<1>3. /\ e \in Seq(Contents \union {Gone}) /\ n \in Nat /\ n = Len(e) /\ DOMAIN e = 1..n
  BY <1>2, LenProperties DEF PageInvariant, CallerTypes
<1>4. Changes(page, page', i, s) /\ page'.slots \in Seq(Slot)
  BY DEF Effect, Changes
<1>5. i \in 1..Len(page'.slots) /\ page'.slots[i] = s /\ s \in Slot
      /\ ((i <= n /\ Len(page'.slots) = n) \/ (i = n + 1 /\ Len(page'.slots) = i))
  BY <1>1, <1>2, <1>4 DEF Changes
<1>6. s.content \in Contents \union {Gone}
  BY <1>5 DEF Slot
<1>7. Len(page'.slots) \in Nat /\ DOMAIN page'.slots = 1..Len(page'.slots)
  BY <1>4, LenProperties
<1>8. CASE i <= n /\ Len(page'.slots) = n
  <2>1. i \in 1..n /\ ~(i > n)
    BY <1>3, <1>5, <1>8
  <2>2. expected' = [e EXCEPT ![i] = s.content]
    BY <1>2, <2>1
  <2>3. /\ DOMAIN expected' = 1..n /\ expected'[i] = s.content
        /\ \A k \in 1..n: k # i => expected'[k] = e[k]
    BY <1>3, <2>1, <2>2
  <2>4. ASSUME NEW k \in 1..n PROVE page'.slots[k].content = expected'[k]
    <3>1. CASE k = i
      BY <1>5, <2>3, <3>1
    <3>2. CASE k # i
      BY <1>1, <1>2, <2>3, <3>2
    <3> QED BY <3>1, <3>2
  <2> QED BY <1>7, <1>8, <2>3, <2>4
<1>9. CASE i = n + 1 /\ Len(page'.slots) = i
  <2>1. i > n
    BY <1>3, <1>9
  <2>2. expected' = Append(e, s.content)
    BY <1>2, <2>1
  <2>3. /\ expected' \in Seq(Contents \union {Gone}) /\ Len(expected') = n + 1
        /\ expected'[n + 1] = s.content /\ \A k \in 1..n: expected'[k] = e[k]
    <3>1. PICK f, c : f = Append(e, c) /\ c = s.content
      OBVIOUS
    <3>2. /\ f \in Seq(Contents \union {Gone}) /\ Len(f) = n + 1
          /\ f[n + 1] = c /\ \A k \in 1..n: f[k] = e[k]
      BY <1>3, <1>6, <3>1, AppendParts
    <3> QED BY <2>2, <3>1, <3>2
  <2>4. DOMAIN expected' = 1..(n + 1)
    BY <2>3, LenProperties
  <2>5. ASSUME NEW k \in 1..(n + 1) PROVE page'.slots[k].content = expected'[k]
    <3>1. CASE k = i
      BY <1>5, <1>9, <2>3, <3>1
    <3>2. CASE k # i
      <4>1. k \in 1..n
        BY <1>3, <1>9, <3>2
      <4> QED BY <1>1, <1>2, <2>3, <3>2, <4>1
    <3> QED BY <3>1, <3>2
  <2> QED BY <1>7, <1>9, <2>4, <2>5
<1> QED BY <1>5, <1>8, <1>9

(* What callers expect is a sequence of contents.                            *)
LEMMA ExpectedTyped ==
    ASSUME NEW e \in Seq(Contents \union {Gone}), NEW i, NEW c \in Contents \union {Gone}
    PROVE  /\ [e EXCEPT ![i] = c] \in Seq(Contents \union {Gone})
           /\ Append(e, c) \in Seq(Contents \union {Gone})
<1>1. CASE i \in 1..Len(e)
  BY <1>1, ExceptSeq, AppendParts, LenProperties
<1>2. CASE i \notin 1..Len(e)
  <2>1. DOMAIN e = 1..Len(e)
    BY LenProperties
  <2>2. [e EXCEPT ![i] = c] = e
    BY <1>2, <2>1
  <2> QED BY <2>2, AppendParts
<1> QED BY <1>1, <1>2

(* A record or a tombstone in an entry, and what the page was keeps well.     *)
LEMMA CallerFollows ==
    ASSUME PageInvariant, NEW i, NEW s, Effect(page, page', i, s), page' \in PageType,
           0 <= page'.free_space, IsDeleted(s) => s.content = Gone,
           shown \subseteq shown', shown' \subseteq Habits,
           expected' = IF i > Len(expected) THEN Append(expected, s.content)
                       ELSE [expected EXCEPT ![i] = s.content]
    PROVE  Good(page)' /\ CallerTypes' /\ ReadsBack'
<1>1. /\ Good(page') 
      /\ \A k \in 1..Len(page.slots): k # i => page'.slots[k].content = page.slots[k].content
  BY GoodStays DEF PageInvariant
<1>2. s.content \in Contents \union {Gone}
  <2>1. s \in Slot
    BY DEF Effect, Changes
  <2> QED BY <2>1 DEF Slot
<1>3. CallerTypes'
  <2>1. expected \in Seq(Contents \union {Gone})
    BY DEF PageInvariant, CallerTypes
  <2>2. /\ [expected EXCEPT ![i] = s.content] \in Seq(Contents \union {Gone})
        /\ Append(expected, s.content) \in Seq(Contents \union {Gone})
    BY <1>2, <2>1, ExpectedTyped
  <2> QED BY <2>2 DEF CallerTypes
<1>4. ReadsBack'
  <2> SUFFICES ASSUME "grow" \notin shown'
               PROVE  /\ DOMAIN page'.slots = DOMAIN expected'
                      /\ \A k \in DOMAIN expected': page'.slots[k].content = expected'[k]
    BY DEF ReadsBack
  <2>1. "grow" \notin shown
    OBVIOUS
  <2> QED BY <1>1, <2>1, ExpectationsFollow
<1> QED BY <1>1, <1>3, <1>4

(* The same for an entry that there was.                                     *)
LEMMA KnownSlotFollows ==
    ASSUME PageInvariant, NEW i \in 1..Len(page.slots), NEW s, Effect(page, page', i, s),
           page' \in PageType, 0 <= page'.free_space, IsDeleted(s) => s.content = Gone,
           shown \subseteq shown', shown' \subseteq Habits,
           expected' = [expected EXCEPT ![i] = s.content]
    PROVE  Good(page)' /\ CallerTypes' /\ ReadsBack'
<1>1. /\ Good(page')
      /\ \A k \in 1..Len(page.slots): k # i => page'.slots[k].content = page.slots[k].content
  BY GoodStays DEF PageInvariant
<1>2. s.content \in Contents \union {Gone}
  <2>1. s \in Slot
    BY DEF Effect, Changes
  <2> QED BY <2>1 DEF Slot
<1>3. CallerTypes'
  <2>1. expected \in Seq(Contents \union {Gone})
    BY DEF PageInvariant, CallerTypes
  <2>2. [expected EXCEPT ![i] = s.content] \in Seq(Contents \union {Gone})
    BY <1>2, <2>1, ExpectedTyped
  <2> QED BY <2>2 DEF CallerTypes
<1>4. ReadsBack'
  <2> SUFFICES ASSUME "grow" \notin shown'
               PROVE  /\ DOMAIN page'.slots = DOMAIN expected'
                      /\ \A k \in DOMAIN expected': page'.slots[k].content = expected'[k]
    BY DEF ReadsBack
  <2>1. "grow" \notin shown
    OBVIOUS
  <2>2. ~(i > Len(expected))
    <3>1. Len(page.slots) = Len(expected) /\ Len(page.slots) \in Nat
      BY <2>1, ExpectedLength, LenProperties DEF PageInvariant, Good, PageType
    <3> QED BY <3>1
  <2>3. expected' = IF i > Len(expected) THEN Append(expected, s.content)
                    ELSE [expected EXCEPT ![i] = s.content]
    BY <2>2
  <2> QED BY <1>1, <2>1, <2>3, ExpectationsFollow
<1> QED BY <1>1, <1>3, <1>4

(* The entry of a record.                                                    *)
LEMMA NewRecordIsLive ==
    ASSUME NEW length \in Lengths, NEW offset, NEW content
    PROVE  /\ length \in Nat /\ SlotEntry(offset, length, content).length = length
           /\ ~IsDeleted(SlotEntry(offset, length, content))
           /\ SlotEntry(offset, length, content).offset = offset
           /\ SlotEntry(offset, length, content).content = content
<1>1. length \in Nat \ {0}
  BY PageAssumption
<1> QED BY <1>1 DEF SlotEntry, IsDeleted

(* Who shows no habit is careful.                                            *)
LEMMA SomeHabit == ASSUME NEW careful, NEW habit
                   PROVE  HabitsOf(careful, habit) = {} => careful
BY DEF HabitsOf

(* insert_record keeps the invariant.                                        *)
LEMMA InsertStep ==
    ASSUME PageInvariant, NEW length \in Lengths, NEW content \in Contents,
           Insert(length, content)
    PROVE  PageInvariant'
<1>1. PICK i, s : i = SlotFor(page) /\ s = SlotEntry(page.data_end - length, length, content)
  OBVIOUS
<1>2. /\ length <= page.data_end /\ Fits(page, length)
      /\ page' = InsertRecord(page, length, content)
      /\ expected' = IF i > Len(expected) THEN Append(expected, content)
                     ELSE [expected EXCEPT ![i] = content]
      /\ HabitsOf(Contiguous, "fragment") \subseteq Habits
      /\ shown' = shown \union HabitsOf(Contiguous, "fragment")
  BY <1>1 DEF Insert, Show
<1>3. page \in PageType /\ shown \subseteq Habits
  BY DEF PageInvariant, Good, CallerTypes
<1>4. /\ Effect(page, page', i, s) /\ page'.data_end = page.data_end - length
      /\ page' \in PageType
  BY <1>1, <1>2, <1>3, InsertEffect
<1>5. length \in Nat /\ s.length = length /\ ~IsDeleted(s) /\ s.content = content
      /\ s.offset = page.data_end - length
  BY <1>1, NewRecordIsLive
<1>6. /\ page.free_space \in Int /\ page.data_end \in Int /\ SlotSize \in Nat
      /\ LengthBefore(page, i) \in Nat /\ Len(page.slots) \in Nat
      /\ page'.data_end \in Nat
  BY <1>3, <1>4, EffectLengths, PageAssumption, LenProperties DEF PageType
<1>7. length + SlotSize <= page.free_space
  BY <1>2 DEF Fits
<1>8. 0 <= page'.free_space
  <2>1. page'.free_space = page.free_space + LengthBefore(page, i) - length
                               - (IF i <= Len(page.slots) THEN 0 ELSE SlotSize)
    BY <1>4, <1>5 DEF Effect
  <2> QED BY <1>5, <1>6, <1>7, <2>1
<1>9. Good(page)' /\ CallerTypes' /\ ReadsBack'
  BY <1>2, <1>3, <1>4, <1>5, <1>8, CallerFollows
<1>10. Layout'
  <2> SUFFICES ASSUME shown' = {} PROVE RecordsAboveDataEnd(page') /\ RecordsApart(page')
    BY DEF Layout
  <2>1. shown = {} /\ HabitsOf(Contiguous, "fragment") = {}
    BY <1>2
  <2>2. page.free_space = page.data_end - DirectoryEnd(page)
    BY <2>1, SomeHabit DEF Contiguous
  <2>3. RecordsAboveDataEnd(page) /\ RecordsApart(page)
    BY <2>1 DEF PageInvariant, Layout
  <2>4. Changes(page, page', i, s)
    BY <1>4 DEF Effect
  <2>5. DirectoryEnd(page') <= page'.data_end
    <3>1. \/ Len(page'.slots) = Len(page.slots)
          \/ Len(page'.slots) = Len(page.slots) + 1
      BY <2>4 DEF Changes
    <3>2. /\ DirectoryEnd(page) \in Nat
          /\ \/ DirectoryEnd(page') = DirectoryEnd(page)
             \/ DirectoryEnd(page') = DirectoryEnd(page) + SlotSize
      BY <1>6, <3>1, DirectoryGrows
    <3> QED BY <1>4, <1>5, <1>6, <1>7, <2>2, <3>2
  <2>6. s.offset = page'.data_end /\ page'.data_end = page.data_end - s.length
    BY <1>4, <1>5
  <2> QED BY <1>3, <1>6, <2>3, <2>4, <2>5, <2>6, LayoutAtBottom
<1> QED BY <1>9, <1>10 DEF PageInvariant

(* delete_record does.                                                       *)
LEMMA DeleteStep ==
    ASSUME PageInvariant, NEW i \in 1..Len(page.slots), Delete(i)
    PROVE  PageInvariant'
<1>1. /\ i \in Live(page) /\ page' = DeleteRecord(page, i) /\ shown' = shown
      /\ expected' = [expected EXCEPT ![i] = Gone]
  BY DEF Delete
<1>2. page \in PageType /\ shown \subseteq Habits
  BY DEF PageInvariant, Good, CallerTypes
<1>3. /\ Effect(page, page', i, Tombstone) /\ page'.data_end = page.data_end
      /\ page'.free_space = page.free_space + page.slots[i].length /\ page' \in PageType
  BY <1>1, <1>2, DeleteEffect
<1>4. 0 <= page'.free_space
  <2>1. page.free_space \in Int /\ page.slots[i].length \in Nat /\ 0 <= page.free_space
    BY <1>2, PageHasLengths DEF PageType, PageInvariant, Good
  <2> QED BY <1>3, <2>1
<1>5. Tombstone.content = Gone /\ IsDeleted(Tombstone)
  BY TombstoneIsSlot DEF Tombstone, SlotEntry
<1>6. Good(page)' /\ CallerTypes' /\ ReadsBack'
  <2>1. PICK s : s = Tombstone
    OBVIOUS
  <2>2. /\ Effect(page, page', i, s) /\ s.content = Gone
        /\ expected' = [expected EXCEPT ![i] = s.content]
    BY <1>1, <1>3, <1>5, <2>1
  <2>3. shown \subseteq shown' /\ shown' \subseteq Habits
    BY <1>1, <1>2
  <2> QED BY <1>3, <1>4, <2>2, <2>3, KnownSlotFollows
<1>7. Layout'
  <2> SUFFICES ASSUME shown' = {} PROVE RecordsAboveDataEnd(page') /\ RecordsApart(page')
    BY DEF Layout
  <2>1. RecordsAboveDataEnd(page) /\ RecordsApart(page)
    BY <1>1 DEF PageInvariant, Layout
  <2>2. Changes(page, page', i, Tombstone)
    BY <1>3 DEF Effect
  <2> QED BY <1>1, <1>2, <1>3, <1>5, <2>1, <2>2, LayoutInPlace
<1> QED BY <1>6, <1>7 DEF PageInvariant

(* update_record of a record that is not longer does.                        *)
LEMMA UpdateInPlaceStep ==
    ASSUME PageInvariant, NEW i \in 1..Len(page.slots), NEW length \in Lengths,
           NEW content \in Contents, UpdateInPlace(i, length, content)
    PROVE  PageInvariant'
<1>1. PICK s : s = SlotEntry(page.slots[i].offset, length, content)
  OBVIOUS
<1>2. /\ i \in Live(page) /\ length <= page.slots[i].length
      /\ page' = Overwrite(page, i, length, content)
      /\ expected' = [expected EXCEPT ![i] = content] /\ shown' = shown
  BY DEF UpdateInPlace
<1>3. page \in PageType /\ shown \subseteq Habits
  BY DEF PageInvariant, Good, CallerTypes
<1>4. /\ Effect(page, page', i, s) /\ page'.data_end = page.data_end /\ page' \in PageType
  BY <1>1, <1>2, <1>3, OverwriteEffect
<1>5. length \in Nat /\ s.length = length /\ ~IsDeleted(s) /\ s.content = content
      /\ s.offset = page.slots[i].offset
  BY <1>1, NewRecordIsLive
<1>6. /\ page.free_space \in Int /\ 0 <= page.free_space /\ page.slots[i].length \in Nat
      /\ i <= Len(page.slots)
  BY <1>3, PageHasLengths DEF PageType, PageInvariant, Good
<1>7. 0 <= page'.free_space
  <2>1. page'.free_space = page.free_space + page.slots[i].length - length - 0
    BY <1>4, <1>5, <1>6 DEF Effect, LengthBefore
  <2> QED BY <1>2, <1>5, <1>6, <2>1
<1>8. Good(page)' /\ CallerTypes' /\ ReadsBack'
  BY <1>2, <1>3, <1>4, <1>5, <1>7, KnownSlotFollows
<1>9. Layout'
  <2> SUFFICES ASSUME shown' = {} PROVE RecordsAboveDataEnd(page') /\ RecordsApart(page')
    BY DEF Layout
  <2>1. RecordsAboveDataEnd(page) /\ RecordsApart(page)
    BY <1>2 DEF PageInvariant, Layout
  <2>2. Changes(page, page', i, s)
    BY <1>4 DEF Effect
  <2> QED BY <1>2, <1>3, <1>4, <1>5, <2>1, <2>2, LayoutInPlace
<1> QED BY <1>8, <1>9 DEF PageInvariant

(* update_record of a longer record: it is moved, or it is gone.              *)
LEMMA UpdateLongerStep ==
    ASSUME PageInvariant, NEW i \in 1..Len(page.slots), NEW length \in Lengths,
           NEW content \in Contents, UpdateLonger(i, length, content)
    PROVE  PageInvariant'
<1>1. PICK d, h : /\ d = DeleteRecord(page, i)
                  /\ h = HabitsOf(Contiguous, "fragment") \union HabitsOf(Fits(page, length), "grow")
  OBVIOUS
<1>2. /\ i \in Live(page) /\ length <= page.data_end
      /\ page' = Moved(page, i, length, content)
      /\ expected' = IF Fits(d, length) THEN [expected EXCEPT ![i] = content] ELSE expected
      /\ h \subseteq Habits /\ shown' = shown \union h
  BY <1>1 DEF UpdateLonger, Show
<1>3. page \in PageType /\ shown \subseteq Habits
  BY DEF PageInvariant, Good, CallerTypes
<1>4. /\ page.free_space \in Int /\ 0 <= page.free_space /\ page.slots[i].length \in Nat
      /\ i <= Len(page.slots) /\ page.data_end \in Int /\ Len(page.slots) \in Nat
      /\ SlotSize \in Nat /\ length \in Nat
  BY <1>3, PageHasLengths, PageAssumption DEF PageType, PageInvariant, Good
<1>5. /\ Effect(page, d, i, Tombstone) /\ d \in PageType /\ d.data_end = page.data_end
      /\ d.free_space = page.free_space + page.slots[i].length
  BY <1>1, <1>3, DeleteEffect
<1>6. shown \subseteq shown' /\ shown' \subseteq Habits
  BY <1>2, <1>3
<1>7. CASE Fits(d, length)
  <2>1. PICK s : s = SlotEntry(page.data_end - length, length, content)
    OBVIOUS
  <2>2. /\ Effect(page, page', i, s) /\ page'.data_end = page.data_end - length
        /\ page' \in PageType
    BY <1>1, <1>2, <1>3, <1>7, <2>1, MovedEffect
  <2>3. s.length = length /\ ~IsDeleted(s) /\ s.content = content
        /\ s.offset = page.data_end - length
    BY <2>1, NewRecordIsLive
  <2>4. 0 <= page'.free_space
    <3>1. page'.free_space = page.free_space + page.slots[i].length - length - 0
      BY <1>4, <2>2, <2>3 DEF Effect, LengthBefore
    <3>2. length + SlotSize <= page.free_space + page.slots[i].length
      BY <1>5, <1>7 DEF Fits
    <3> QED BY <1>4, <3>1, <3>2
  <2>5. expected' = [expected EXCEPT ![i] = s.content]
    BY <1>2, <1>7, <2>3
  <2>6. Good(page)' /\ CallerTypes' /\ ReadsBack'
    BY <1>6, <2>2, <2>3, <2>4, <2>5, KnownSlotFollows
  <2>7. Layout'
    <3> SUFFICES ASSUME shown' = {} PROVE RecordsAboveDataEnd(page') /\ RecordsApart(page')
      BY DEF Layout
    <3>1. /\ shown = {} /\ HabitsOf(Contiguous, "fragment") = {}
          /\ HabitsOf(Fits(page, length), "grow") = {}
      BY <1>1, <1>2
    <3>2. page.free_space = page.data_end - DirectoryEnd(page)
      BY <3>1, SomeHabit DEF Contiguous
    <3>3. length + SlotSize <= page.free_space
      <4>1. Fits(page, length)
        BY <3>1, SomeHabit
      <4> QED BY <4>1 DEF Fits
    <3>4. RecordsAboveDataEnd(page) /\ RecordsApart(page)
      BY <3>1 DEF PageInvariant, Layout
    <3>5. Changes(page, page', i, s)
      BY <2>2 DEF Effect
    <3>6. DirectoryEnd(page') <= page'.data_end
      <4>1. Len(page'.slots) = Len(page.slots)
        BY <1>4, <3>5 DEF Changes
      <4>2. DirectoryEnd(page') = DirectoryEnd(page) /\ DirectoryEnd(page) \in Nat
        BY <1>4, <4>1, DirectoryGrows
      <4> QED BY <1>4, <2>2, <3>2, <3>3, <4>2
    <3>7. /\ s.offset = page'.data_end /\ page'.data_end = page.data_end - s.length
          /\ page'.data_end \in Nat
      BY <1>2, <1>4, <2>2, <2>3
    <3> QED BY <1>3, <3>4, <3>5, <3>6, <3>7, LayoutAtBottom
  <2> QED BY <2>6, <2>7 DEF PageInvariant
<1>8. CASE ~Fits(d, length)
  <2>1. page' = d
    BY <1>1, <1>2, <1>8 DEF Moved
  <2>2. "grow" \in shown'
    <3>1. ~Fits(page, length)
      BY <1>4, <1>5, <1>8 DEF Fits
    <3>2. HabitsOf(Fits(page, length), "grow") = {"grow"}
      BY <3>1 DEF HabitsOf
    <3> QED BY <1>1, <1>2, <3>2
  <2>3. Good(page')
    <3>1. PICK s : s = Tombstone
      OBVIOUS
    <3>2. Effect(page, page', i, s) /\ s.content = Gone
      BY <1>5, <2>1, <3>1 DEF Tombstone, SlotEntry
    <3>3. 0 <= page'.free_space /\ page' \in PageType
      BY <1>4, <1>5, <2>1
    <3> QED BY <3>2, <3>3, GoodStays DEF PageInvariant
  <2>4. CallerTypes'
    BY <1>2, <1>6, <1>8 DEF PageInvariant, CallerTypes
  <2> QED BY <2>2, <2>3, <2>4 DEF PageInvariant, ReadsBack, Layout
<1> QED BY <1>7, <1>8

(* compact does, and restores the layout.                                    *)
LEMMA CompactStep ==
    ASSUME PageInvariant, Compact
    PROVE  PageInvariant'
<1>1. page' = Compacted(page) /\ expected' = expected /\ shown' = shown
  BY DEF Compact
<1>2. Good(page) /\ page \in PageType /\ Exact(page) /\ 0 <= page.free_space
  BY DEF PageInvariant, Good
<1>3. /\ page' \in PageType /\ Len(page'.slots) = Len(page.slots) /\ Exact(page')
      /\ page'.free_space = page.free_space
      /\ \A k \in 1..Len(page.slots):
            /\ page'.slots[k].content = page.slots[k].content
            /\ IsDeleted(page'.slots[k]) <=> IsDeleted(page.slots[k])
  BY <1>1, <1>2, CompactKeeps
<1>4. DOMAIN page'.slots = 1..Len(page.slots) /\ DOMAIN page.slots = 1..Len(page.slots)
  BY <1>2, <1>3, LenProperties DEF PageType
<1>5. Good(page')
  <2>1. \A k \in Deleted(page'): page'.slots[k].content = Gone
    BY <1>2, <1>3, <1>4 DEF Good, Deleted
  <2> QED BY <1>2, <1>3, <2>1 DEF Good
<1>6. CallerTypes'
  BY <1>1 DEF PageInvariant, CallerTypes
<1>7. ReadsBack'
  <2> SUFFICES ASSUME "grow" \notin shown
               PROVE  /\ DOMAIN page'.slots = DOMAIN expected
                      /\ \A k \in DOMAIN expected: page'.slots[k].content = expected[k]
    BY <1>1 DEF ReadsBack
  <2>1. /\ DOMAIN page.slots = DOMAIN expected
        /\ \A k \in DOMAIN expected: page.slots[k].content = expected[k]
    BY DEF PageInvariant, ReadsBack
  <2> QED BY <1>3, <1>4, <2>1
<1>8. Layout'
  <2>1. RecordsAboveDataEnd(page') /\ RecordsApart(page')
    BY <1>1, <1>2, CompactLaysOut
  <2> QED BY <2>1 DEF Layout
<1> QED BY <1>5, <1>6, <1>7, <1>8 DEF PageInvariant

(* PageInvariant is inductive, and it says what the runs check.               *)
LEMMA StepPage == PageInvariant /\ [Next]_vars => PageInvariant'
<1> SUFFICES ASSUME PageInvariant, [Next]_vars PROVE PageInvariant'
  OBVIOUS
<1>1. DOMAIN page.slots = 1..Len(page.slots)
  BY LenProperties DEF PageInvariant, Good, PageType
<1>2. ASSUME NEW length \in Lengths, NEW content \in Contents, Insert(length, content)
      PROVE  PageInvariant'
  BY <1>2, InsertStep
<1>3. ASSUME NEW length \in Lengths, NEW content \in Contents, NEW i \in DOMAIN page.slots,
             UpdateInPlace(i, length, content) \/ UpdateLonger(i, length, content)
      PROVE  PageInvariant'
  BY <1>1, <1>3, UpdateInPlaceStep, UpdateLongerStep
<1>4. ASSUME NEW i \in DOMAIN page.slots, Delete(i) PROVE PageInvariant'
  BY <1>1, <1>4, DeleteStep
<1>5. ASSUME Compact PROVE PageInvariant'
  BY <1>5, CompactStep
<1>6. ASSUME UNCHANGED vars PROVE PageInvariant'
  <2>1. page' = page /\ expected' = expected /\ shown' = shown
    BY <1>6 DEF vars
  <2>2. Good(page') /\ CallerTypes'
    BY <2>1 DEF PageInvariant, CallerTypes
  <2>3. ReadsBack'
    BY <2>1 DEF PageInvariant, ReadsBack
  <2>4. Layout'
    BY <2>1 DEF PageInvariant, Layout
  <2> QED BY <2>2, <2>3, <2>4 DEF PageInvariant
<1> QED BY <1>2, <1>3, <1>4, <1>5, <1>6 DEF Next

(* It holds of every reachable page.                                         *)
LEMMA PageInvariantHolds == Spec => []PageInvariant
<1> QED BY InitPage, StepPage, PTL DEF Spec

(* The free space of an exact page is in its range.                          *)
LEMMA PageInvariantTypes == PageInvariant => TypeOK
<1> SUFFICES ASSUME PageInvariant PROVE TypeOK
  OBVIOUS
<1>1. page \in PageType /\ Exact(page) /\ 0 <= page.free_space
  BY DEF PageInvariant, Good
<1>2. page.slots \in Seq(Slot) /\ page.data_end \in 0..PageSize /\ page.free_space \in Int
  BY <1>1 DEF PageType
<1>3. page.free_space <= PageSize - HeaderSize
  BY <1>1, ExactIsBounded
<1>4. page.free_space \in 0..(PageSize - HeaderSize)
  <2>1. PageSize \in Int /\ HeaderSize \in Int
    BY PageAssumption
  <2> QED BY <1>1, <1>2, <1>3, <2>1
<1>5. page.slots \in Seq([offset : 0..PageSize, length : {0} \union Lengths,
                          content : Contents \union {Gone}])
  BY <1>2 DEF Slot
<1> QED BY <1>2, <1>4, <1>5 DEF TypeOK, PageInvariant, CallerTypes

(* Every field is in the range it has in the header and the slots, and the    *)
(* free space never goes below zero (page.py:208-246, 262-338).      *)
THEOREM PageTypes == Spec => []TypeOK
<1> QED BY PageInvariantHolds, PageInvariantTypes, PTL

(* free_space never drifts from what the slots take, through reused slots,     *)
(* updates in place, moves and compaction (page.py:243, 280, 308, 337).      *)
THEOREM FreeSpaceStaysExact == Spec => []FreeSpaceIsExact
<1>1. PageInvariant => FreeSpaceIsExact
  BY DEF PageInvariant, Good, Exact, Total, FreeSpaceIsExact
<1> QED BY PageInvariantHolds, <1>1, PTL

(* A slot index reads what was last stored under it, as long as no caller      *)
(* counts on the room of the record it replaces: a longer record that does     *)
(* not fit is deleted (page.py:281-294).                                     *)
THEOREM SlotsReadBack == Spec => []ReadsBack
<1>1. PageInvariant => ReadsBack
  BY DEF PageInvariant
<1> QED BY PageInvariantHolds, <1>1, PTL

(* Records that are apart have no byte in common.                            *)
LEMMA LayoutKeepsApart == PageInvariant => RecordsDoNotOverlap
<1> SUFFICES ASSUME PageInvariant, shown = {}
             PROVE  \A i \in Live(page):
                       /\ Extent(i) \subseteq DirectoryEnd(page)..(PageSize - 1)
                       /\ \A j \in Live(page) \ {i}: Extent(i) \cap Extent(j) = {}
  BY DEF RecordsDoNotOverlap
<1>1. RecordsAboveDataEnd(page) /\ RecordsApart(page)
  BY DEF PageInvariant, Layout
<1>2. /\ page.slots \in Seq(Slot) /\ DOMAIN page.slots = 1..Len(page.slots)
      /\ page.data_end \in Int /\ PageSize \in Nat /\ Len(page.slots) \in Nat
  BY LenProperties, PageAssumption DEF PageInvariant, Good, PageType
<1>3. DirectoryEnd(page) \in Nat
  BY <1>2, DirectoryGrows
<1>4. ASSUME NEW i \in Live(page)
      PROVE  page.slots[i].offset \in Nat /\ page.slots[i].length \in Nat
  <2>1. i \in 1..Len(page.slots)
    BY <1>2 DEF Live
  <2>2. page.slots[i] \in Slot /\ page.slots[i].length \in Nat
    BY <1>2, <2>1, PageHasLengths
  <2> QED BY <1>2, <2>2 DEF Slot
<1>5. ASSUME NEW i \in Live(page)
      PROVE  Extent(i) \subseteq DirectoryEnd(page)..(PageSize - 1)
  <2>1. /\ DirectoryEnd(page) <= page.data_end /\ page.data_end <= page.slots[i].offset
        /\ page.slots[i].offset + page.slots[i].length <= PageSize
    BY <1>1 DEF RecordsAboveDataEnd
  <2>2. PICK o, l, d : /\ o = page.slots[i].offset /\ l = page.slots[i].length
                       /\ d = DirectoryEnd(page)
    OBVIOUS
  <2>3. o \in Nat /\ l \in Nat /\ d \in Nat /\ d <= o /\ o + l <= PageSize
    BY <1>2, <1>3, <1>4, <2>1, <2>2
  <2>4. o..(o + l - 1) \subseteq d..(PageSize - 1)
    BY <1>2, <2>3
  <2> QED BY <2>2, <2>4 DEF Extent
<1>6. ASSUME NEW i \in Live(page), NEW j \in Live(page) \ {i}
      PROVE  Extent(i) \cap Extent(j) = {}
  <2>1. Apart(page.slots[i], page.slots[j])
    BY <1>1 DEF RecordsApart
  <2> QED BY <1>4, <2>1 DEF Extent, Apart
<1> QED BY <1>5, <1>6

(* No record shares a byte with the slot directory or with another record, as  *)
(* long as callers add only to a page whose free space is in one piece: what   *)
(* insert_record checks is free_space, not where data_end is (page.py:217-221, *)
(* and 364-368 for what to_bytes writes over).                                *)
THEOREM RecordsStayApart == Spec => []RecordsDoNotOverlap
<1> QED BY PageInvariantHolds, LayoutKeepsApart, PTL
==============================================================================
