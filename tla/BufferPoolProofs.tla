-------------------------- MODULE BufferPoolProofs --------------------------
(***************************************************************************)
(* What holds of the buffer pool for every pool size, number of pages, pins  *)
(* and writes; in the second part, that the pool implements the page store:  *)
(* caching, eviction, write-back and crashes.                                *)
(***************************************************************************)
EXTENDS BufferPool, TLAPS

USE PoolAssumption

(* The step around the clock stays within the frames.                        *)
LEMMA HandStays ==
    ASSUME NEW f \in Frames, clock_hand \in Frames
    PROVE  HandAfter(f) \in Frames
<1>1. (f + 1) % PoolSize \in 0..(PoolSize - 1)
  BY DEF Frames
<1> QED BY <1>1 DEF HandAfter, Frames

(* The ids that have been handed out are page ids of the instance.           *)
LEMMA PagesAreIds ==
    ASSUME TypeOK
    PROVE  Pages \subseteq PageIds /\ \A p \in Pages: disk[p] \in Versions
BY DEF TypeOK, Pages, PageIds

(* Hence so are the ids in the page table.                                   *)
LEMMA ResidentAreIds ==
    ASSUME TypeOK
    PROVE  Resident \subseteq PageIds
BY PagesAreIds DEF TypeOK

(* A write-back changes no page but the victim's.                            *)
LEMMA EvictionKeepsPages ==
    ASSUME TypeOK, NEW f \in Frames
    PROVE  /\ DOMAIN DiskAfterEviction(f) = Pages
           /\ \A p \in Pages: DiskAfterEviction(f)[p] \in Versions
<1>1. frames[f] \in Versions
  BY DEF TypeOK
<1> QED BY <1>1, PagesAreIds DEF TypeOK, DiskAfterEviction, Pages

----------------------------------------------------------------------------
(* Type correctness.                                                         *)
HeaderType == [page_id : PageIds \union {NoPage}, pin_count : Nat,
               is_dirty : BOOLEAN, ref_bit : BOOLEAN]

(* A sweep that clears reference bits leaves well-formed headers.            *)
LEMMA SweepTypes ==
    ASSUME TypeOK, NEW f \in Frames
    PROVE  SweptHeaders(f) \in [Frames -> HeaderType]
BY DEF TypeOK, HeaderType, SweptHeaders

(* Installing a page in a victim frame leaves a well-formed pool.            *)
LEMMA InstallTypes ==
    ASSUME TypeOK, NEW f \in Frames, NEW p \in PageIds, NEW c \in Versions,
           NEW dirty \in BOOLEAN, Install(f, p, c, dirty)
    PROVE  /\ frames' \in [Frames -> Versions]
           /\ headers' \in [Frames -> HeaderType]
           /\ page_table' \in [Resident' -> Frames]
           /\ Resident' \subseteq Resident \union {p}
           /\ clock_hand' \in Frames
<1>1. frames' \in [Frames -> Versions]
  BY DEF Install, TypeOK
<1>2. headers' \in [Frames -> HeaderType]
  BY SweepTypes DEF Install, HeaderType
<1>3. /\ page_table' \in [Resident' -> Frames]
      /\ Resident' \subseteq Resident \union {p}
  BY DEF Install, TypeOK, TableWith, TableWithout, Resident
<1>4. clock_hand' \in Frames
  BY HandStays DEF Install, TypeOK
<1> QED BY <1>1, <1>2, <1>3, <1>4

(* So does the eviction that a failing read of the new page cuts short.      *)
LEMMA HalfEvictedTypes ==
    ASSUME TypeOK, NEW f \in Frames, HalfEvicted(f)
    PROVE  /\ frames' \in [Frames -> Versions]
           /\ headers' \in [Frames -> HeaderType]
           /\ clock_hand' \in Frames
BY SweepTypes, HandStays DEF HalfEvicted, TypeOK

(* Each operation keeps the pool well formed; this needs no other invariant. *)
LEMMA TypeStep == TypeOK /\ [Next]_vars => TypeOK'
<1> SUFFICES ASSUME TypeOK, [Next]_vars PROVE TypeOK'
  OBVIOUS
<1> USE DEF HeaderType
<1>1. ASSUME NEW p \in PageIds, FetchHit(p) PROVE TypeOK'
  <2>1. page_table[p] \in Frames /\ held[p] + 1 \in Nat
    BY <1>1 DEF FetchHit, TypeOK, Resident
  <2>2. headers[page_table[p]] \in HeaderType
    BY <2>1 DEF TypeOK
  <2>3. headers[page_table[p]].pin_count + 1 \in Nat
    BY <2>2
  <2>4. [headers EXCEPT ![page_table[p]].pin_count = @ + 1] \in [Frames -> HeaderType]
    BY <2>1, <2>2, <2>3 DEF TypeOK
  <2>5. headers' \in [Frames -> HeaderType]
    BY <1>1, <2>1, <2>4 DEF FetchHit, TypeOK
  <2>6. held' \in [PageIds -> Nat]
    BY <1>1, <2>1 DEF FetchHit, TypeOK
  <2> QED BY <1>1, <2>5, <2>6 DEF FetchHit, TypeOK, Resident, Pages
<1>2. ASSUME NEW p \in PageIds, FetchMiss(p) PROVE TypeOK'
  <2>1. PICK f \in Frames:
          /\ disk' = DiskAfterEviction(f)
          /\ IF EvictionRaises(f)
             THEN HalfEvicted(f) /\ UNCHANGED <<page_table, held>>
             ELSE Install(f, p, disk'[p], FALSE) /\ held' = [held EXCEPT ![p] = @ + 1]
    BY <1>2 DEF FetchMiss
  <2>2. /\ DOMAIN disk' = Pages
        /\ \A q \in Pages: disk'[q] \in Versions
        /\ \E n \in 0..MaxPages: disk' \in [0..(n - 1) -> Versions]
    <3>1. DOMAIN disk' = Pages /\ \A q \in Pages: disk'[q] \in Versions
      BY <2>1, EvictionKeepsPages
    <3>2. disk' = [q \in DOMAIN disk' |-> disk'[q]]
      BY <2>1 DEF DiskAfterEviction, TypeOK
    <3> QED BY <3>1, <3>2 DEF TypeOK, Pages
  <2>3. p \in Pages /\ owed' = owed
    BY <1>2 DEF FetchMiss
  <2>4. CASE EvictionRaises(f)
    BY <2>1, <2>2, <2>3, <2>4, HalfEvictedTypes DEF TypeOK, Resident, Pages
  <2>5. CASE ~EvictionRaises(f)
    <3>1. Install(f, p, disk'[p], FALSE) /\ held' = [held EXCEPT ![p] = @ + 1]
      BY <2>1, <2>5
    <3>2. disk'[p] \in Versions
      BY <2>2, <2>3
    <3>3. Resident' \subseteq Pages'
      <4>1. p \in PageIds
        BY <2>3, PagesAreIds
      <4>2. Resident' \subseteq Resident \union {p}
        BY <3>1, <3>2, <4>1, InstallTypes
      <4>3. Pages' = Pages
        BY <2>2 DEF Pages
      <4> QED BY <2>3, <4>2, <4>3 DEF TypeOK
    <3>4. held' \in [PageIds -> Nat] /\ owed' \in [PageIds -> Nat]
      BY <2>3, <3>1 DEF TypeOK
    <3> QED BY <2>2, <3>1, <3>2, <3>3, <3>4, InstallTypes DEF TypeOK
  <2> QED BY <2>4, <2>5
<1>3. ASSUME NEW p \in PageIds, Modify(p) PROVE TypeOK'
  <2>1. frames[page_table[p]] + 1 \in Versions
    BY <1>3 DEF Modify, TypeOK, Versions, Resident
  <2> QED BY <1>3, <2>1 DEF Modify, TypeOK, Resident, Pages
<1>4. ASSUME NEW p \in PageIds, Unpin(p) PROVE TypeOK'
  <2>1. PICK dirty \in BOOLEAN, n \in {owed[p] - 1, owed[p]}:
          /\ IF n < owed[p] THEN n >= 0 /\ dirty ELSE owed[p] < held[p]
          /\ owed' = [owed EXCEPT ![p] = n]
          /\ held' = [held EXCEPT ![p] = @ - 1]
          /\ IF p \in Resident /\ headers[page_table[p]].pin_count > 0
             THEN headers' = [headers EXCEPT ![page_table[p]] = Released(@, dirty)]
             ELSE UNCHANGED headers
    BY <1>4 DEF Unpin
  <2>2. n \in Nat /\ held[p] - 1 \in Nat
    BY <1>4, <2>1 DEF Unpin, TypeOK
  <2>3. headers' \in [Frames -> HeaderType]
    <3>1. CASE p \in Resident /\ headers[page_table[p]].pin_count > 0
      <4>1. page_table[p] \in Frames
        BY <3>1 DEF TypeOK, Resident
      <4>2. Released(headers[page_table[p]], dirty) \in HeaderType
        <5>1. headers[page_table[p]] \in HeaderType
          BY <4>1 DEF TypeOK
        <5>2. headers[page_table[p]].pin_count - 1 \in Nat
          BY <3>1, <5>1
        <5> QED BY <5>1, <5>2 DEF Released
      <4> QED BY <2>1, <3>1, <4>1, <4>2 DEF TypeOK
    <3>2. CASE ~(p \in Resident /\ headers[page_table[p]].pin_count > 0)
      BY <2>1, <3>2 DEF TypeOK
    <3> QED BY <3>1, <3>2
  <2>4. held' \in [PageIds -> Nat] /\ owed' \in [PageIds -> Nat]
    BY <2>1, <2>2 DEF TypeOK
  <2> QED BY <1>4, <2>3, <2>4 DEF Unpin, TypeOK, Resident, Pages
<1>5. ASSUME NEW p \in PageIds, FlushPage(p) PROVE TypeOK'
  <2>1. page_table[p] \in Frames /\ frames[page_table[p]] \in Versions
    BY <1>5 DEF FlushPage, TypeOK, Resident
  <2>2. DOMAIN disk' = Pages
    BY <1>5 DEF FlushPage, TypeOK, Pages
  <2>3. \E n \in 0..MaxPages: disk' \in [0..(n - 1) -> Versions]
    BY <1>5, <2>1 DEF FlushPage, TypeOK
  <2>4. headers' \in [Frames -> HeaderType]
    BY <1>5, <2>1 DEF FlushPage, TypeOK
  <2> QED BY <1>5, <2>2, <2>3, <2>4 DEF FlushPage, TypeOK, callerVars, Resident, Pages
<1>6. ASSUME NEW p \in PageIds, DeletePage(p) PROVE TypeOK'
  BY <1>6 DEF DeletePage, TypeOK, callerVars, Resident, Pages, TableWithout,
              EmptyHeader, Versions
<1>7. CASE FetchAbsent
  <2>1. PICK f \in Frames: /\ disk' = DiskAfterEviction(f)
                           /\ HalfEvicted(f)
                           /\ page_table' = TableWithout(VictimPages(f))
    BY <1>7 DEF FetchAbsent
  <2>2. DOMAIN disk' = Pages /\ \E n \in 0..MaxPages: disk' \in [0..(n - 1) -> Versions]
    <3>1. DOMAIN disk' = Pages /\ \A q \in Pages: disk'[q] \in Versions
      BY <2>1, EvictionKeepsPages
    <3>2. disk' = [q \in DOMAIN disk' |-> disk'[q]]
      BY <2>1 DEF DiskAfterEviction, TypeOK
    <3> QED BY <3>1, <3>2 DEF TypeOK, Pages
  <2>3. page_table' \in [Resident' -> Frames] /\ Resident' \subseteq Pages
    BY <2>1 DEF TypeOK, TableWithout, Resident, Pages
  <2> QED BY <1>7, <2>1, <2>2, <2>3, HalfEvictedTypes
          DEF FetchAbsent, TypeOK, callerVars, Pages
<1>8. CASE NewPage
  <2>1. PICK p \in PageIds:
          /\ Pages = 0..(p - 1)
          /\ owed' = owed
          /\ \/ /\ disk' = [q \in 0..p |-> IF q = p THEN 0 ELSE disk[q]]
                /\ UNCHANGED <<poolVars, held>>
             \/ \E f \in Frames:
                  /\ disk' = [q \in 0..p |-> IF q = p THEN 0 ELSE DiskAfterEviction(f)[q]]
                  /\ IF EvictionRaises(f)
                     THEN HalfEvicted(f) /\ UNCHANGED <<page_table, held>>
                     ELSE Install(f, p, 0, TRUE) /\ held' = [held EXCEPT ![p] = @ + 1]
    BY <1>8, Zenon DEF NewPage
  <2>2. /\ p \in Nat /\ p + 1 \in 0..MaxPages /\ 0..p = 0..((p + 1) - 1)
        /\ 0 \in Versions
        /\ \A q \in 0..p: q # p => q \in Pages
        /\ p \notin Pages
    BY <2>1 DEF PageIds, Versions
  <2>3. CASE /\ disk' = [q \in 0..p |-> IF q = p THEN 0 ELSE disk[q]]
             /\ UNCHANGED <<poolVars, held>>
    <3>1. disk' \in [0..((p + 1) - 1) -> Versions]
      BY <2>2, <2>3, PagesAreIds
    <3>2. Pages \subseteq Pages'
      BY <2>1, <2>2, <2>3 DEF Pages
    <3> QED BY <2>1, <2>2, <2>3, <3>1, <3>2 DEF TypeOK, poolVars, Resident
  <2>4. ASSUME NEW f \in Frames,
               disk' = [q \in 0..p |-> IF q = p THEN 0 ELSE DiskAfterEviction(f)[q]],
               IF EvictionRaises(f)
               THEN HalfEvicted(f) /\ UNCHANGED <<page_table, held>>
               ELSE Install(f, p, 0, TRUE) /\ held' = [held EXCEPT ![p] = @ + 1]
        PROVE  TypeOK'
    <3>1. disk' \in [0..((p + 1) - 1) -> Versions]
      BY <2>2, <2>4, EvictionKeepsPages
    <3>2. Pages \union {p} \subseteq Pages'
      BY <2>1, <2>2, <2>4 DEF Pages
    <3>3. CASE EvictionRaises(f)
      BY <2>1, <2>2, <2>4, <3>1, <3>2, <3>3, HalfEvictedTypes DEF TypeOK, Resident
    <3>4. CASE ~EvictionRaises(f)
      <4>1. Install(f, p, 0, TRUE) /\ held' = [held EXCEPT ![p] = @ + 1]
        BY <2>4, <3>4
      <4>2. held' \in [PageIds -> Nat] /\ owed' \in [PageIds -> Nat]
        BY <2>1, <4>1 DEF TypeOK
      <4>3. Resident' \subseteq Pages'
        BY <2>2, <3>2, <4>1, InstallTypes DEF TypeOK
      <4> QED BY <2>2, <3>1, <4>1, <4>2, <4>3, InstallTypes DEF TypeOK
    <3> QED BY <3>3, <3>4
  <2> QED BY <2>1, <2>3, <2>4
<1>9. CASE FlushAll
  <2>1. DOMAIN disk' = Pages
    BY <1>9 DEF FlushAll
  <2>2. ASSUME NEW p \in Pages PROVE disk'[p] \in Versions
    <3>1. disk'[p] = IF LastDirty(p) = {} THEN disk[p]
                     ELSE frames[CHOOSE f \in LastDirty(p): TRUE]
      BY <1>9, <2>2 DEF FlushAll
    <3>2. LastDirty(p) \subseteq Frames
      BY DEF LastDirty, DirtyFrames
    <3>3. LastDirty(p) # {} => (CHOOSE f \in LastDirty(p): TRUE) \in Frames
      BY <3>2
    <3> QED BY <3>1, <3>3, PagesAreIds DEF TypeOK
  <2>3. disk' = [p \in DOMAIN disk' |-> disk'[p]]
    BY <1>9 DEF FlushAll
  <2>4. \E n \in 0..MaxPages: disk' \in [0..(n - 1) -> Versions]
    BY <2>1, <2>2, <2>3 DEF TypeOK, Pages
  <2>5. headers' \in [Frames -> HeaderType]
    BY <1>9 DEF FlushAll, TypeOK
  <2> QED BY <1>9, <2>1, <2>4, <2>5 DEF FlushAll, TypeOK, callerVars, Resident, Pages
<1>10. CASE Restart
  BY <1>10 DEF Restart, TypeOK, Resident, Pages, Frames, Versions, EmptyHeader, PageIds
<1>11. CASE UNCHANGED vars
  BY <1>11 DEF vars, TypeOK, Resident, Pages
<1> QED BY <1>1, <1>2, <1>3, <1>4, <1>5, <1>6, <1>7, <1>8, <1>9, <1>10, <1>11
        DEF Next

(* An empty pool over an empty file is well formed.                          *)
LEMMA TypeInit == Init => TypeOK
<1> SUFFICES ASSUME Init PROVE TypeOK
  OBVIOUS
<1>1. 0 \in Versions /\ clock_hand \in Frames
  BY DEF Init, Versions, Frames
<1>2. disk \in [0..(0 - 1) -> Versions] /\ 0 \in 0..MaxPages
  BY DEF Init
<1>3. EmptyHeader \in HeaderType
  BY DEF EmptyHeader, HeaderType
<1>4. page_table \in [Resident -> Frames] /\ Resident = {}
  BY DEF Init, Resident
<1> QED BY <1>1, <1>2, <1>3, <1>4 DEF Init, TypeOK, HeaderType

(* Every state the pool can reach is well formed, for every size of the pool *)
(* and of the file, requests for absent pages included.                      *)
THEOREM TypeCorrect == Spec => []TypeOK
BY TypeInit, TypeStep, PTL DEF Spec

----------------------------------------------------------------------------
(* The inductive invariant: page table and frames describe each other, the   *)
(* pin counts are the callers' pins, and unsaved changes are tracked.        *)
EmptyIsUnpinned ==
    \A f \in Frames: headers[f].page_id = NoPage => headers[f].pin_count = 0

HeldIsResident == \A p \in PageIds: held[p] > 0 => p \in Resident

PinsAreHeld == \A p \in Resident: headers[page_table[p]].pin_count = held[p]

OwedIsHeld == \A p \in PageIds: owed[p] <= held[p]

PoolInv ==
    /\ TypeOK
    /\ FetchFindsItsPage
    /\ OneFramePerPage
    /\ EmptyIsUnpinned
    /\ HeldIsResident
    /\ PinsAreHeld
    /\ OwedIsHeld
    /\ DirtyIsTracked

(* The empty pool satisfies the inductive invariant.                         *)
LEMMA PoolInit == Init => PoolInv
<1> SUFFICES ASSUME Init PROVE PoolInv
  OBVIOUS
<1>1. TypeOK
  BY TypeInit
<1>2. Resident = {}
  BY DEF Init, Resident
<1>3. \A f \in Frames: headers[f].page_id = NoPage /\ headers[f].pin_count = 0
  BY DEF Init, EmptyHeader
<1>4. \A p \in PageIds: held[p] = 0 /\ owed[p] = 0
  BY DEF Init
<1> QED BY <1>1, <1>2, <1>3, <1>4
        DEF PoolInv, FetchFindsItsPage, OneFramePerPage, EmptyIsUnpinned,
            HeldIsResident, PinsAreHeld, OwedIsHeld, DirtyIsTracked

(* Nobody holds the page of a victim, and the eviction finds it in the table. *)
LEMMA VictimIsFree ==
    ASSUME PoolInv, NEW f \in Frames, IsVictim(f)
    PROVE  /\ headers[f].pin_count = 0
           /\ ~EvictionRaises(f)
           /\ \A q \in VictimPages(f): /\ q \in Resident
                                       /\ page_table[q] = f
                                       /\ headers[f].page_id = q
                                       /\ held[q] = 0
                                       /\ owed[q] = 0
<1>1. headers[f].pin_count = 0
  BY DEF IsVictim, EmptyFrames, Cold, Unpinned, PoolInv, EmptyIsUnpinned
<1>2. ASSUME NEW q \in VictimPages(f)
      PROVE  /\ q \in Resident /\ page_table[q] = f /\ headers[f].page_id = q
             /\ held[q] = 0 /\ owed[q] = 0
  <2>1. headers[f].page_id # NoPage /\ q = headers[f].page_id
    BY <1>2 DEF VictimPages
  <2>2. q \in Resident /\ page_table[q] = f
    BY <2>1 DEF PoolInv, OneFramePerPage
  <2>3. held[q] = 0
    BY <1>1, <2>2 DEF PoolInv, PinsAreHeld
  <2>4. q \in PageIds /\ owed[q] \in Nat
    BY <2>2, PagesAreIds DEF PoolInv, TypeOK
  <2> QED BY <2>1, <2>2, <2>3, <2>4 DEF PoolInv, OwedIsHeld
<1> QED BY <1>1, <1>2 DEF EvictionRaises

(* What installing a page in a victim frame changes, frame by frame.         *)
LEMMA InstallEffect ==
    ASSUME PoolInv, NEW f \in Frames, IsVictim(f), NEW p \in PageIds \ Resident,
           NEW c \in Versions, NEW dirty \in BOOLEAN, Install(f, p, c, dirty)
    PROVE  /\ Resident' = (Resident \ VictimPages(f)) \union {p}
           /\ page_table'[p] = f
           /\ \A q \in Resident' \ {p}: /\ q \in Resident \ VictimPages(f)
                                        /\ page_table'[q] = page_table[q]
                                        /\ page_table[q] \in Frames \ {f}
           /\ frames'[f] = c
           /\ headers'[f].page_id = p
           /\ headers'[f].pin_count = 1
           /\ headers'[f].is_dirty = dirty
           /\ \A g \in Frames \ {f}: /\ frames'[g] = frames[g]
                                     /\ headers'[g].page_id = headers[g].page_id
                                     /\ headers'[g].pin_count = headers[g].pin_count
                                     /\ headers'[g].is_dirty = headers[g].is_dirty
<1>1. /\ Resident' = (Resident \ VictimPages(f)) \union {p}
      /\ page_table'[p] = f
      /\ \A q \in Resident' \ {p}: /\ q \in Resident \ VictimPages(f)
                                   /\ page_table'[q] = page_table[q]
  BY DEF Install, TableWith, TableWithout, Resident
<1>2. ASSUME NEW q \in Resident \ VictimPages(f) PROVE page_table[q] \in Frames \ {f}
  <2>1. page_table[q] \in Frames /\ headers[page_table[q]].page_id = q
    BY <1>2 DEF PoolInv, TypeOK, FetchFindsItsPage
  <2>2. q # NoPage
    BY <1>2, ResidentAreIds DEF PoolInv, PageIds, NoPage
  <2> QED BY <1>2, <2>1, <2>2 DEF VictimPages
<1>3. frames'[f] = c /\ \A g \in Frames \ {f}: frames'[g] = frames[g]
  BY DEF Install, PoolInv, TypeOK
<1>4. headers'[f] = [page_id |-> p, pin_count |-> 1, is_dirty |-> dirty, ref_bit |-> TRUE]
  BY SweepTypes DEF Install, PoolInv
<1>5. ASSUME NEW g \in Frames \ {f}
      PROVE  /\ headers'[g].page_id = headers[g].page_id
             /\ headers'[g].pin_count = headers[g].pin_count
             /\ headers'[g].is_dirty = headers[g].is_dirty
  <2>1. headers'[g] = SweptHeaders(f)[g]
    BY SweepTypes DEF Install, PoolInv
  <2>2. headers[g] \in HeaderType
    BY DEF PoolInv, TypeOK, HeaderType
  <2> QED BY <2>1, <2>2 DEF SweptHeaders, HeaderType
<1> QED BY <1>1, <1>2, <1>3, <1>4, <1>5

(* Hence a page that is brought into the pool, with the write-back of the     *)
(* victim before it, keeps the invariant.                                    *)
LEMMA InstallKeepsInv ==
    ASSUME PoolInv, TypeOK', NEW f \in Frames, IsVictim(f),
           NEW p \in PageIds \ Resident,
           NEW dirty \in BOOLEAN, disk'[p] \in Versions,
           Install(f, p, disk'[p], dirty),
           held' = [held EXCEPT ![p] = @ + 1], owed' = owed,
           \A q \in Resident \ VictimPages(f): disk'[q] = disk[q]
    PROVE  PoolInv'
<1> DEFINE c == disk'[p]
<1>1. /\ Resident' = (Resident \ VictimPages(f)) \union {p}
      /\ page_table'[p] = f
      /\ \A q \in Resident' \ {p}: /\ q \in Resident \ VictimPages(f)
                                   /\ page_table'[q] = page_table[q]
                                   /\ page_table[q] \in Frames \ {f}
      /\ frames'[f] = c
      /\ headers'[f].page_id = p
      /\ headers'[f].pin_count = 1
      /\ \A g \in Frames \ {f}: /\ frames'[g] = frames[g]
                                /\ headers'[g].page_id = headers[g].page_id
                                /\ headers'[g].pin_count = headers[g].pin_count
                                /\ headers'[g].is_dirty = headers[g].is_dirty
  BY InstallEffect
<1>2. held[p] = 0 /\ \A q \in PageIds: held[q] \in Nat /\ owed[q] \in Nat
  BY DEF PoolInv, HeldIsResident, TypeOK
<1>3. held'[p] = 1 /\ \A q \in PageIds \ {p}: held'[q] = held[q]
  BY <1>2 DEF PoolInv, TypeOK
<1>4. p # NoPage
  BY DEF PageIds, NoPage
<1>5. FetchFindsItsPage'
  BY <1>1 DEF PoolInv, FetchFindsItsPage
<1>6. OneFramePerPage'
  <2> SUFFICES ASSUME NEW g \in Frames, headers'[g].page_id # NoPage
               PROVE  /\ headers'[g].page_id \in Resident'
                      /\ page_table'[headers'[g].page_id] = g
    BY DEF OneFramePerPage
  <2>1. CASE g = f
    BY <1>1, <2>1
  <2>2. CASE g # f
    <3>1. headers[g].page_id \in Resident /\ page_table[headers[g].page_id] = g
      BY <1>1, <2>2 DEF PoolInv, OneFramePerPage
    <3>2. headers[g].page_id \notin VictimPages(f)
      BY <2>2, <3>1, VictimIsFree
    <3> QED BY <1>1, <2>2, <3>1, <3>2
  <2> QED BY <2>1, <2>2
<1>7. EmptyIsUnpinned'
  BY <1>1, <1>4 DEF PoolInv, EmptyIsUnpinned
<1>8. HeldIsResident'
  BY <1>1, <1>3, VictimIsFree DEF PoolInv, HeldIsResident
<1>9. PinsAreHeld'
  <2>1. Resident \subseteq PageIds
    BY ResidentAreIds DEF PoolInv
  <2> QED BY <1>1, <1>3, <2>1 DEF PoolInv, PinsAreHeld
<1>10. OwedIsHeld'
  BY <1>2, <1>3 DEF PoolInv, OwedIsHeld
<1>11. DirtyIsTracked'
  BY <1>1 DEF PoolInv, DirtyIsTracked
<1> QED BY <1>5, <1>6, <1>7, <1>8, <1>9, <1>10, <1>11 DEF PoolInv

(* A write-back leaves the pages of the other frames as they are in the file.*)
LEMMA WriteBackOfOthers ==
    ASSUME PoolInv, NEW f \in Frames, NEW q \in Pages, q \notin VictimPages(f)
    PROVE  DiskAfterEviction(f)[q] = disk[q]
BY DEF DiskAfterEviction, VictimPages, Pages

(* A resident page has one frame, so flush_all writes that one.              *)
LEMMA FlushedPage ==
    ASSUME PoolInv, NEW q \in Resident
    PROVE  /\ page_table[q] \in DirtyFrames => LastDirty(q) = {page_table[q]}
           /\ page_table[q] \notin DirtyFrames => LastDirty(q) = {}
<1>1. /\ page_table[q] \in Frames
      /\ headers[page_table[q]].page_id = q
      /\ Frames \subseteq Int
  BY DEF PoolInv, TypeOK, FetchFindsItsPage, Frames
<1>2. \A g \in DirtyFrames: headers[g].page_id = q => g = page_table[q]
  BY DEF PoolInv, OneFramePerPage, DirtyFrames
<1>3. ASSUME page_table[q] \in DirtyFrames PROVE LastDirty(q) = {page_table[q]}
  <2>1. page_table[q] \in LastDirty(q)
    <3>1. page_table[q] <= page_table[q]
      <4>1. page_table[q] \in Int
        BY <1>1
      <4>2. \A i \in Int: i <= i
        OBVIOUS
      <4> QED BY <4>1, <4>2
    <3>2. \A g \in DirtyFrames: headers[g].page_id = q => g <= page_table[q]
      BY <1>2, <3>1
    <3> QED BY <1>1, <1>3, <3>2 DEF LastDirty
  <2>2. \A g \in LastDirty(q): g = page_table[q]
    BY <1>2 DEF LastDirty
  <2> QED BY <2>1, <2>2
<1>4. ASSUME page_table[q] \notin DirtyFrames PROVE LastDirty(q) = {}
  <2>1. \A g \in LastDirty(q): g \in DirtyFrames /\ g = page_table[q]
    BY <1>2 DEF LastDirty
  <2> QED BY <1>4, <2>1
<1> QED BY <1>3, <1>4

(* flush_all writes to the file what is in memory, page by page.             *)
LEMMA FlushAllWrites ==
    ASSUME PoolInv, NEW q \in Resident,
           disk' = [p \in Pages |-> IF LastDirty(p) = {} THEN disk[p]
                                    ELSE frames[CHOOSE f \in LastDirty(p): TRUE]]
    PROVE  disk'[q] = IF page_table[q] \in DirtyFrames THEN frames[page_table[q]]
                                                       ELSE disk[q]
<1>1. q \in Pages
  BY DEF PoolInv, TypeOK
<1>2. disk'[q] = IF LastDirty(q) = {} THEN disk[q]
                 ELSE frames[CHOOSE f \in LastDirty(q): TRUE]
  BY <1>1
<1>3. CASE page_table[q] \in DirtyFrames
  <2>1. LastDirty(q) = {page_table[q]}
    BY <1>3, FlushedPage
  <2>2. (CHOOSE f \in {page_table[q]}: TRUE) = page_table[q]
    OBVIOUS
  <2> QED BY <1>2, <1>3, <2>1, <2>2
<1>4. CASE page_table[q] \notin DirtyFrames
  BY <1>2, <1>4, FlushedPage
<1> QED BY <1>3, <1>4

(* Each operation keeps the inductive invariant when the pages asked for exist.*)
LEMMA PoolStep == ~FetchMissing /\ PoolInv /\ [Next]_vars => PoolInv'
<1> SUFFICES ASSUME ~FetchMissing, PoolInv, [Next]_vars PROVE PoolInv'
  OBVIOUS
<1>0. TypeOK /\ TypeOK'
  BY TypeStep DEF PoolInv
<1> USE <1>0
<1>1. ASSUME NEW p \in PageIds, FetchHit(p) PROVE PoolInv'
  <2>1. /\ p \in Resident /\ page_table[p] \in Frames
        /\ UNCHANGED <<disk, frames, page_table, owed>>
        /\ held' = [held EXCEPT ![p] = @ + 1]
    BY <1>1 DEF FetchHit, TypeOK, Resident
  <2>2. /\ headers'[page_table[p]].page_id = headers[page_table[p]].page_id
        /\ headers'[page_table[p]].pin_count = headers[page_table[p]].pin_count + 1
        /\ headers'[page_table[p]].is_dirty = headers[page_table[p]].is_dirty
        /\ \A g \in Frames \ {page_table[p]}: headers'[g] = headers[g]
    <3>1. headers[page_table[p]] \in HeaderType
      BY <2>1 DEF TypeOK, HeaderType
    <3> QED BY <1>1, <2>1, <3>1 DEF FetchHit, TypeOK, HeaderType
  <2>3. held'[p] = held[p] + 1 /\ \A q \in PageIds \ {p}: held'[q] = held[q]
    BY <2>1 DEF TypeOK
  <2>4. Resident' = Resident /\ Resident \subseteq PageIds
    BY <2>1, ResidentAreIds DEF Resident
  <2>5. \A q \in Resident: page_table[q] \in Frames /\ headers[page_table[q]].page_id = q
    BY DEF PoolInv, FetchFindsItsPage, TypeOK
  <2>6. FetchFindsItsPage'
    BY <2>1, <2>2, <2>4, <2>5 DEF FetchFindsItsPage
  <2>7. OneFramePerPage'
    BY <2>1, <2>2, <2>4 DEF PoolInv, OneFramePerPage
  <2>8. EmptyIsUnpinned'
    <3>1. p # NoPage
      BY DEF PageIds, NoPage
    <3> QED BY <2>1, <2>2, <2>5, <3>1 DEF PoolInv, EmptyIsUnpinned
  <2>9. HeldIsResident'
    BY <2>1, <2>3, <2>4 DEF PoolInv, HeldIsResident
  <2>10. PinsAreHeld'
    BY <2>1, <2>2, <2>3, <2>4, <2>5 DEF PoolInv, PinsAreHeld
  <2>11. OwedIsHeld'
    BY <2>1, <2>3 DEF PoolInv, OwedIsHeld, TypeOK
  <2>12. DirtyIsTracked'
    BY <2>1, <2>2, <2>4, <2>5 DEF PoolInv, DirtyIsTracked
  <2> QED BY <2>6, <2>7, <2>8, <2>9, <2>10, <2>11, <2>12 DEF PoolInv
<1>2. ASSUME NEW p \in PageIds, FetchMiss(p) PROVE PoolInv'
  <2>1. PICK f \in Frames:
          /\ IsVictim(f)
          /\ disk' = DiskAfterEviction(f)
          /\ IF EvictionRaises(f)
             THEN HalfEvicted(f) /\ UNCHANGED <<page_table, held>>
             ELSE Install(f, p, disk'[p], FALSE) /\ held' = [held EXCEPT ![p] = @ + 1]
    BY <1>2 DEF FetchMiss
  <2>2. p \in Pages /\ p \in PageIds \ Resident /\ owed' = owed
    BY <1>2 DEF FetchMiss
  <2>3. Install(f, p, disk'[p], FALSE) /\ held' = [held EXCEPT ![p] = @ + 1]
    BY <2>1, VictimIsFree
  <2>4. disk'[p] \in Versions
    BY <2>1, <2>2, EvictionKeepsPages
  <2>5. \A q \in Resident \ VictimPages(f): disk'[q] = disk[q]
    BY <2>1, WriteBackOfOthers DEF TypeOK
  <2> QED BY <2>1, <2>2, <2>3, <2>4, <2>5, InstallKeepsInv
<1>3. ASSUME NEW p \in PageIds, Modify(p) PROVE PoolInv'
  <2>1. PICK n \in {owed[p], owed[p] + 1}:
          n \in 1..held[p] /\ owed' = [owed EXCEPT ![p] = n]
    BY <1>3 DEF Modify
  <2>2. /\ UNCHANGED <<disk, headers, page_table, held>>
        /\ p \in Resident /\ page_table[p] \in Frames
        /\ frames' = [frames EXCEPT ![page_table[p]] = @ + 1]
    BY <1>3 DEF Modify, TypeOK
  <2>3. owed'[p] > 0 /\ owed'[p] <= held[p] /\ \A q \in PageIds \ {p}: owed'[q] = owed[q]
    BY <2>1 DEF TypeOK
  <2>4. OwedIsHeld'
    BY <2>2, <2>3 DEF PoolInv, OwedIsHeld
  <2>5. DirtyIsTracked'
    <3> SUFFICES ASSUME NEW q \in Resident
                 PROVE  \/ frames'[page_table[q]] = disk[q]
                        \/ headers[page_table[q]].is_dirty
                        \/ owed'[q] > 0
      BY <2>2 DEF DirtyIsTracked, Resident
    <3>1. CASE q = p
      BY <2>3, <3>1
    <3>2. CASE q # p
      <4>1. page_table[q] # page_table[p] /\ q \in PageIds
        BY <2>2, <3>2, ResidentAreIds DEF PoolInv, FetchFindsItsPage
      <4>2. frames'[page_table[q]] = frames[page_table[q]] /\ owed'[q] = owed[q]
        BY <2>2, <2>3, <3>2, <4>1 DEF TypeOK
      <4> QED BY <4>2 DEF PoolInv, DirtyIsTracked
    <3> QED BY <3>1, <3>2
  <2> QED BY <2>2, <2>4, <2>5
          DEF PoolInv, FetchFindsItsPage, OneFramePerPage, EmptyIsUnpinned,
              HeldIsResident, PinsAreHeld, Resident
<1>4. ASSUME NEW p \in PageIds, Unpin(p) PROVE PoolInv'
  <2>1. PICK dirty \in BOOLEAN, n \in {owed[p] - 1, owed[p]}:
          /\ IF n < owed[p] THEN n >= 0 /\ dirty ELSE owed[p] < held[p]
          /\ owed' = [owed EXCEPT ![p] = n]
          /\ held' = [held EXCEPT ![p] = @ - 1]
          /\ IF p \in Resident /\ headers[page_table[p]].pin_count > 0
             THEN headers' = [headers EXCEPT ![page_table[p]] = Released(@, dirty)]
             ELSE UNCHANGED headers
    BY <1>4 DEF Unpin
  <2>2. held[p] > 0 /\ UNCHANGED <<disk, frames, page_table>>
    BY <1>4 DEF Unpin
  <2>3. p \in Resident /\ headers[page_table[p]].pin_count = held[p]
    BY <2>2 DEF PoolInv, HeldIsResident, PinsAreHeld
  <2>4. page_table[p] \in Frames
    BY <2>3 DEF TypeOK
  <2>5. headers' = [headers EXCEPT ![page_table[p]] = Released(@, dirty)]
    BY <2>1, <2>2, <2>3
  <2>6. /\ headers'[page_table[p]].page_id = headers[page_table[p]].page_id
        /\ headers'[page_table[p]].pin_count = headers[page_table[p]].pin_count - 1
        /\ headers[page_table[p]].is_dirty => headers'[page_table[p]].is_dirty
        /\ dirty => headers'[page_table[p]].is_dirty
        /\ \A g \in Frames \ {page_table[p]}: headers'[g] = headers[g]
    <3>1. headers[page_table[p]] \in HeaderType
      BY <2>4 DEF TypeOK, HeaderType
    <3>2. headers'[page_table[p]] = Released(headers[page_table[p]], dirty)
      BY <2>4, <2>5 DEF TypeOK
    <3>3. /\ Released(headers[page_table[p]], dirty).page_id = headers[page_table[p]].page_id
          /\ Released(headers[page_table[p]], dirty).pin_count
               = headers[page_table[p]].pin_count - 1
      BY <3>1 DEF Released, HeaderType
    <3>4. Released(headers[page_table[p]], dirty).is_dirty
            = IF dirty THEN TRUE ELSE headers[page_table[p]].is_dirty
      BY <3>1 DEF Released, HeaderType
    <3>5. \A g \in Frames \ {page_table[p]}: headers'[g] = headers[g]
      BY <2>4, <2>5 DEF TypeOK
    <3> QED BY <3>2, <3>3, <3>4, <3>5
  <2>7. /\ held'[p] = held[p] - 1 /\ owed'[p] = n
        /\ \A q \in PageIds \ {p}: held'[q] = held[q] /\ owed'[q] = owed[q]
    BY <2>1 DEF TypeOK
  <2>8. Resident' = Resident /\ Resident \subseteq PageIds
    BY <2>2, ResidentAreIds DEF Resident
  <2>9. \A q \in Resident: page_table[q] \in Frames /\ headers[page_table[q]].page_id = q
    BY DEF PoolInv, FetchFindsItsPage, TypeOK
  <2>10. FetchFindsItsPage'
    BY <2>2, <2>6, <2>8, <2>9 DEF FetchFindsItsPage
  <2>11. OneFramePerPage'
    BY <2>2, <2>6, <2>8, <2>4 DEF PoolInv, OneFramePerPage
  <2>12. EmptyIsUnpinned'
    <3>1. p # NoPage
      BY DEF PageIds, NoPage
    <3> QED BY <2>3, <2>6, <2>9, <3>1 DEF PoolInv, EmptyIsUnpinned
  <2>13. HeldIsResident'
    BY <2>3, <2>7, <2>8 DEF PoolInv, HeldIsResident
  <2>14. PinsAreHeld'
    BY <2>2, <2>3, <2>6, <2>7, <2>8, <2>9 DEF PoolInv, PinsAreHeld
  <2>15. OwedIsHeld'
    <3>1. n <= held[p] - 1
      BY <2>1 DEF PoolInv, OwedIsHeld, TypeOK
    <3> QED BY <2>7, <3>1 DEF PoolInv, OwedIsHeld
  <2>16. DirtyIsTracked'
    <3> SUFFICES ASSUME NEW q \in Resident
                 PROVE  \/ frames[page_table[q]] = disk[q]
                        \/ headers'[page_table[q]].is_dirty
                        \/ owed'[q] > 0
      BY <2>2, <2>8 DEF DirtyIsTracked
    <3>1. CASE q = p
      <4>1. n < owed[p] => dirty
        BY <2>1
      <4>2. ~(n < owed[p]) => n = owed[p]
        BY <2>1 DEF TypeOK
      <4> QED BY <2>6, <2>7, <3>1, <4>1, <4>2 DEF PoolInv, DirtyIsTracked
    <3>2. CASE q # p
      <4>1. page_table[q] # page_table[p] /\ q \in PageIds
        BY <2>3, <2>8, <2>9, <3>2
      <4> QED BY <2>6, <2>7, <2>9, <3>2, <4>1 DEF PoolInv, DirtyIsTracked
    <3> QED BY <3>1, <3>2
  <2> QED BY <2>10, <2>11, <2>12, <2>13, <2>14, <2>15, <2>16 DEF PoolInv
<1>5. ASSUME NEW p \in PageIds, FlushPage(p) PROVE PoolInv'
  <2>1. /\ p \in Resident /\ page_table[p] \in Frames /\ p \in Pages
        /\ UNCHANGED <<frames, page_table, held, owed>>
        /\ disk' = [disk EXCEPT ![p] = frames[page_table[p]]]
        /\ headers' = [headers EXCEPT ![page_table[p]].is_dirty = FALSE]
    BY <1>5 DEF FlushPage, TypeOK, callerVars
  <2>2. /\ \A g \in Frames: /\ headers'[g].page_id = headers[g].page_id
                            /\ headers'[g].pin_count = headers[g].pin_count
        /\ \A g \in Frames \ {page_table[p]}: headers'[g] = headers[g]
    <3>1. headers[page_table[p]] \in HeaderType
      BY <2>1 DEF TypeOK, HeaderType
    <3> QED BY <2>1, <3>1 DEF TypeOK, HeaderType
  <2>3. disk'[p] = frames[page_table[p]] /\ \A q \in Pages \ {p}: disk'[q] = disk[q]
    BY <2>1 DEF TypeOK, Pages
  <2>4. DirtyIsTracked'
    <3> SUFFICES ASSUME NEW q \in Resident
                 PROVE  \/ frames[page_table[q]] = disk'[q]
                        \/ headers'[page_table[q]].is_dirty
                        \/ owed[q] > 0
      BY <2>1 DEF DirtyIsTracked, Resident
    <3>1. CASE q = p
      BY <2>3, <3>1
    <3>2. CASE q # p
      <4>1. page_table[q] \in Frames \ {page_table[p]}
        BY <2>1, <3>2 DEF PoolInv, FetchFindsItsPage, TypeOK
      <4> QED BY <2>2, <2>3, <3>2, <4>1 DEF PoolInv, DirtyIsTracked, TypeOK
    <3> QED BY <3>1, <3>2
  <2> QED BY <2>1, <2>2, <2>4
          DEF PoolInv, TypeOK, FetchFindsItsPage, OneFramePerPage, EmptyIsUnpinned,
              HeldIsResident, PinsAreHeld, OwedIsHeld, Resident
<1>6. ASSUME NEW p \in PageIds, DeletePage(p) PROVE PoolInv'
  <2>1. /\ p \in Resident /\ page_table[p] \in Frames
        /\ headers[page_table[p]].pin_count = 0
        /\ UNCHANGED <<disk, held, owed>>
        /\ headers' = [headers EXCEPT ![page_table[p]] = EmptyHeader]
        /\ frames' = [frames EXCEPT ![page_table[p]] = 0]
        /\ page_table' = TableWithout({p})
    BY <1>6 DEF DeletePage, TypeOK, callerVars
  <2>2. /\ Resident' = Resident \ {p}
        /\ \A q \in Resident': page_table'[q] = page_table[q]
    BY <2>1 DEF TableWithout, Resident
  <2>3. \A q \in Resident': page_table[q] \in Frames \ {page_table[p]}
    BY <2>1, <2>2 DEF PoolInv, FetchFindsItsPage, TypeOK
  <2>4. /\ headers'[page_table[p]].page_id = NoPage
        /\ headers'[page_table[p]].pin_count = 0
        /\ \A g \in Frames \ {page_table[p]}: headers'[g] = headers[g] /\ frames'[g] = frames[g]
    BY <2>1 DEF TypeOK, EmptyHeader
  <2>5. held[p] = 0
    BY <2>1 DEF PoolInv, PinsAreHeld
  <2>6. FetchFindsItsPage'
    BY <2>2, <2>3, <2>4 DEF PoolInv, FetchFindsItsPage
  <2>7. OneFramePerPage'
    <3> SUFFICES ASSUME NEW g \in Frames, headers'[g].page_id # NoPage
                 PROVE  /\ headers'[g].page_id \in Resident'
                        /\ page_table'[headers'[g].page_id] = g
      BY DEF OneFramePerPage
    <3>1. g # page_table[p] /\ headers'[g] = headers[g]
      BY <2>4
    <3>2. headers[g].page_id \in Resident /\ page_table[headers[g].page_id] = g
      BY <3>1 DEF PoolInv, OneFramePerPage
    <3> QED BY <2>2, <3>1, <3>2
  <2>8. EmptyIsUnpinned'
    BY <2>4 DEF PoolInv, EmptyIsUnpinned
  <2>9. HeldIsResident'
    BY <2>1, <2>2, <2>5 DEF PoolInv, HeldIsResident
  <2>10. PinsAreHeld'
    BY <2>1, <2>2, <2>3, <2>4 DEF PoolInv, PinsAreHeld
  <2>11. OwedIsHeld'
    BY <2>1 DEF PoolInv, OwedIsHeld
  <2>12. DirtyIsTracked'
    BY <2>1, <2>2, <2>3, <2>4 DEF PoolInv, DirtyIsTracked
  <2> QED BY <2>6, <2>7, <2>8, <2>9, <2>10, <2>11, <2>12 DEF PoolInv
<1>7. CASE FetchAbsent
  BY <1>7 DEF FetchAbsent
<1>8. CASE NewPage
  <2>1. PICK p \in PageIds:
          /\ Pages = 0..(p - 1)
          /\ owed' = owed
          /\ \/ /\ disk' = [q \in 0..p |-> IF q = p THEN 0 ELSE disk[q]]
                /\ UNCHANGED <<poolVars, held>>
             \/ \E f \in Frames:
                  /\ IsVictim(f)
                  /\ disk' = [q \in 0..p |-> IF q = p THEN 0 ELSE DiskAfterEviction(f)[q]]
                  /\ IF EvictionRaises(f)
                     THEN HalfEvicted(f) /\ UNCHANGED <<page_table, held>>
                     ELSE Install(f, p, 0, TRUE) /\ held' = [held EXCEPT ![p] = @ + 1]
    BY <1>8, Zenon DEF NewPage
  <2>2. /\ p \in 0..p /\ \A q \in Pages: q \in 0..p /\ q # p
        /\ p \in PageIds \ Resident
        /\ 0 \in Versions
    BY <2>1 DEF PageIds, Versions, TypeOK
  <2>3. CASE /\ disk' = [q \in 0..p |-> IF q = p THEN 0 ELSE disk[q]]
             /\ UNCHANGED <<poolVars, held>>
    <3>1. \A q \in Resident: disk'[q] = disk[q]
      BY <2>2, <2>3 DEF TypeOK
    <3> QED BY <2>1, <2>3, <3>1
            DEF PoolInv, FetchFindsItsPage, OneFramePerPage, EmptyIsUnpinned,
                HeldIsResident, PinsAreHeld, OwedIsHeld, DirtyIsTracked, Resident, poolVars
  <2>4. ASSUME NEW f \in Frames, IsVictim(f),
               disk' = [q \in 0..p |-> IF q = p THEN 0 ELSE DiskAfterEviction(f)[q]],
               IF EvictionRaises(f)
               THEN HalfEvicted(f) /\ UNCHANGED <<page_table, held>>
               ELSE Install(f, p, 0, TRUE) /\ held' = [held EXCEPT ![p] = @ + 1]
        PROVE  PoolInv'
    <3>1. Install(f, p, 0, TRUE) /\ held' = [held EXCEPT ![p] = @ + 1]
      BY <2>4, VictimIsFree
    <3>2. disk'[p] = 0
      BY <2>2, <2>4
    <3>3. \A q \in Resident \ VictimPages(f): disk'[q] = disk[q]
      BY <2>2, <2>4, WriteBackOfOthers DEF TypeOK
    <3>4. Install(f, p, disk'[p], TRUE) /\ disk'[p] \in Versions
      BY <2>2, <3>1, <3>2
    <3> QED BY <2>1, <2>2, <2>4, <3>1, <3>3, <3>4, InstallKeepsInv
  <2> QED BY <2>1, <2>3, <2>4
<1>9. CASE FlushAll
  <2>1. /\ UNCHANGED <<frames, page_table, held, owed>>
        /\ disk' = [p \in Pages |-> IF LastDirty(p) = {} THEN disk[p]
                                    ELSE frames[CHOOSE f \in LastDirty(p): TRUE]]
        /\ headers' = [f \in Frames |-> IF f \in DirtyFrames
                                        THEN [headers[f] EXCEPT !.is_dirty = FALSE]
                                        ELSE headers[f]]
    BY <1>9 DEF FlushAll, callerVars
  <2>2. \A f \in Frames: /\ headers'[f].page_id = headers[f].page_id
                         /\ headers'[f].pin_count = headers[f].pin_count
                         /\ f \notin DirtyFrames => headers'[f] = headers[f]
    <3> SUFFICES ASSUME NEW f \in Frames
                 PROVE  /\ headers'[f].page_id = headers[f].page_id
                        /\ headers'[f].pin_count = headers[f].pin_count
                        /\ f \notin DirtyFrames => headers'[f] = headers[f]
      OBVIOUS
    <3>1. headers[f] \in HeaderType
      BY DEF TypeOK, HeaderType
    <3> QED BY <2>1, <3>1 DEF HeaderType
  <2>3. DirtyIsTracked'
    <3> SUFFICES ASSUME NEW q \in Resident
                 PROVE  \/ frames[page_table[q]] = disk'[q]
                        \/ headers'[page_table[q]].is_dirty
                        \/ owed[q] > 0
      BY <2>1 DEF DirtyIsTracked, Resident
    <3>1. disk'[q] = IF page_table[q] \in DirtyFrames THEN frames[page_table[q]] ELSE disk[q]
      BY <2>1, FlushAllWrites
    <3>2. page_table[q] \in Frames
      BY DEF TypeOK
    <3> QED BY <2>2, <3>1, <3>2 DEF PoolInv, DirtyIsTracked
  <2>4. \A q \in Resident: page_table[q] \in Frames
    BY DEF TypeOK
  <2>5. FetchFindsItsPage' /\ OneFramePerPage' /\ EmptyIsUnpinned'
    BY <2>1, <2>2, <2>4
       DEF PoolInv, FetchFindsItsPage, OneFramePerPage, EmptyIsUnpinned, Resident
  <2>6. HeldIsResident' /\ PinsAreHeld' /\ OwedIsHeld'
    BY <2>1, <2>2, <2>4 DEF PoolInv, HeldIsResident, PinsAreHeld, OwedIsHeld, Resident
  <2> QED BY <2>3, <2>5, <2>6 DEF PoolInv
<1>10. CASE Restart
  <2>1. Resident' = {}
    BY <1>10 DEF Restart, Resident
  <2>2. \A f \in Frames: headers'[f].page_id = NoPage /\ headers'[f].pin_count = 0
    BY <1>10 DEF Restart, EmptyHeader
  <2>3. \A p \in PageIds: held'[p] = 0 /\ owed'[p] = 0
    BY <1>10 DEF Restart
  <2> QED BY <2>1, <2>2, <2>3
          DEF PoolInv, FetchFindsItsPage, OneFramePerPage, EmptyIsUnpinned,
              HeldIsResident, PinsAreHeld, OwedIsHeld, DirtyIsTracked
<1>11. CASE UNCHANGED vars
  BY <1>11 DEF vars, PoolInv, FetchFindsItsPage, OneFramePerPage, EmptyIsUnpinned,
               HeldIsResident, PinsAreHeld, OwedIsHeld, DirtyIsTracked, Resident
<1> QED BY <1>1, <1>2, <1>3, <1>4, <1>5, <1>6, <1>7, <1>8, <1>9, <1>10, <1>11
        DEF Next

(* The invariant holds in every reachable state.                             *)
LEMMA PoolInvariant == ~FetchMissing => (Spec => []PoolInv)
<1>1. CASE ~FetchMissing
  <2>1. PoolInv /\ [Next]_vars => PoolInv'
    BY <1>1, PoolStep
  <2> QED BY <2>1, PoolInit, PTL DEF Spec
<1>2. CASE FetchMissing
  BY <1>2
<1> QED BY <1>1, <1>2

(* What callers rely on follows from the invariant.                          *)
LEMMA PoolInvImplies ==
    PoolInv => PinnedStaysResident /\ NoPinLeak
<1> SUFFICES ASSUME PoolInv PROVE PinnedStaysResident /\ NoPinLeak
  OBVIOUS
<1>1. PinnedStaysResident
  BY DEF PoolInv, HeldIsResident, PinsAreHeld, PinnedStaysResident
<1>2. NoPinLeak
  <2> SUFFICES ASSUME NEW f \in Frames, headers[f].pin_count > 0
               PROVE  held[headers[f].page_id] = headers[f].pin_count
    BY DEF NoPinLeak
  <2>1. headers[f].page_id # NoPage
    BY DEF PoolInv, EmptyIsUnpinned
  <2> QED BY <2>1 DEF PoolInv, OneFramePerPage, PinsAreHeld
<1> QED BY <1>1, <1>2

(* As long as callers only ask for pages the file has, a page in use is in   *)
(* the pool under exactly the pins its holders have (buffer_pool.py:11).     *)
THEOREM PinnedPagesStay == ~FetchMissing => (Spec => []PinnedStaysResident)
BY PoolInvariant, PoolInvImplies, PTL

(* ... and every pin the pool counts has a holder that will release it.      *)
THEOREM PinsAreReleased == ~FetchMissing => (Spec => []NoPinLeak)
BY PoolInvariant, PoolInvImplies, PTL

(* ... a page is in one frame only, the one the page table names.            *)
THEOREM PagesAreNotDuplicated == ~FetchMissing => (Spec => []OneFramePerPage)
<1>1. PoolInv => OneFramePerPage
  BY DEF PoolInv
<1> QED BY <1>1, PoolInvariant, PTL

(* ... and no change in memory is unknown to the pool and to its holder.     *)
THEOREM ChangesAreTracked == ~FetchMissing => (Spec => []DirtyIsTracked)
<1>1. PoolInv => DirtyIsTracked
  BY DEF PoolInv
<1> QED BY <1>1, PoolInvariant, PTL

(* flush_all, which checkpoints and close rely on, leaves no reported change *)
(* in memory only, pinned pages included.                                    *)
THEOREM FlushAllIsComplete == ~FetchMissing => (Spec => FlushAllMakesDurable)
<1>1. ASSUME PoolInv, FlushAll, NEW p \in Resident, owed[p] = 0
      PROVE  disk'[p] = frames[page_table[p]]
  <2>1. disk'[p] = IF page_table[p] \in DirtyFrames THEN frames[page_table[p]] ELSE disk[p]
    BY <1>1, FlushAllWrites DEF FlushAll
  <2>2. page_table[p] \in Frames /\ headers[page_table[p]].page_id = p /\ p # NoPage
    <3>1. p \in PageIds
      BY <1>1, ResidentAreIds DEF PoolInv
    <3>2. p # NoPage
      BY <3>1 DEF PageIds, NoPage
    <3> QED BY <1>1, <3>2 DEF PoolInv, TypeOK, FetchFindsItsPage
  <2>3. headers[page_table[p]].is_dirty => page_table[p] \in DirtyFrames
    BY <2>2 DEF DirtyFrames
  <2>4. owed[p] \in Nat /\ ~(owed[p] > 0)
    BY <1>1 DEF PoolInv, TypeOK
  <2> QED BY <1>1, <2>1, <2>3, <2>4 DEF PoolInv, DirtyIsTracked
<1>2. PoolInv /\ [Next]_vars =>
        [FlushAll => \A p \in Resident: owed[p] = 0 => disk'[p] = frames[page_table[p]]]_vars
  BY <1>1
<1> QED BY <1>2, PoolInvariant, PTL DEF Spec, FlushAllMakesDurable

----------------------------------------------------------------------------
(* The page table never names a frame that holds another page, requests for  *)
(* absent pages included.                                                    *)
LEMMA InstallKeepsTable ==
    ASSUME TypeOK, FetchFindsItsPage, NEW f \in Frames, NEW p \in PageIds,
           NEW c \in Versions, NEW dirty \in BOOLEAN, Install(f, p, c, dirty)
    PROVE  FetchFindsItsPage'
<1> SUFFICES ASSUME NEW q \in Resident' PROVE headers'[page_table'[q]].page_id = q
  BY DEF FetchFindsItsPage
<1>1. /\ q = p \/ (q \in Resident \ VictimPages(f) /\ page_table'[q] = page_table[q])
      /\ page_table'[p] = f
  BY DEF Install, TableWith, TableWithout, Resident
<1>2. headers'[f].page_id = p
  BY SweepTypes DEF Install
<1>3. ASSUME q # p PROVE headers'[page_table[q]].page_id = q
  <2>1. page_table[q] \in Frames /\ headers[page_table[q]].page_id = q
    BY <1>1, <1>3 DEF TypeOK, FetchFindsItsPage
  <2>2. q # NoPage
    BY <1>1, <1>3, ResidentAreIds DEF PageIds, NoPage
  <2>3. page_table[q] # f
    BY <1>1, <1>3, <2>1, <2>2 DEF VictimPages
  <2>4. headers'[page_table[q]] = SweptHeaders(f)[page_table[q]]
    BY <2>1, <2>3, SweepTypes DEF Install
  <2>5. SweptHeaders(f)[page_table[q]].page_id = headers[page_table[q]].page_id
    BY <2>1 DEF SweptHeaders, TypeOK
  <2> QED BY <2>1, <2>4, <2>5
<1> QED BY <1>1, <1>2, <1>3

(* The eviction that a failing read cuts short keeps the table right too.    *)
LEMMA HalfEvictedKeepsTable ==
    ASSUME TypeOK, FetchFindsItsPage, NEW f \in Frames, HalfEvicted(f),
           NEW P, page_table' = page_table \/ page_table' = TableWithout(P)
    PROVE  FetchFindsItsPage'
<1> SUFFICES ASSUME NEW q \in Resident' PROVE headers'[page_table'[q]].page_id = q
  BY DEF FetchFindsItsPage
<1>1. q \in Resident /\ page_table'[q] = page_table[q] /\ page_table[q] \in Frames
  BY DEF TableWithout, Resident, TypeOK
<1>2. headers'[page_table[q]].page_id = headers[page_table[q]].page_id
  BY <1>1 DEF HalfEvicted, SweptHeaders, TypeOK
<1> QED BY <1>1, <1>2 DEF FetchFindsItsPage

(* So does every other operation.                                            *)
LEMMA TableStep == TypeOK /\ FetchFindsItsPage /\ [Next]_vars => FetchFindsItsPage'
<1> SUFFICES ASSUME TypeOK, FetchFindsItsPage, [Next]_vars PROVE FetchFindsItsPage'
  OBVIOUS
<1>0. \A q \in Resident: page_table[q] \in Frames /\ headers[page_table[q]].page_id = q
  BY DEF TypeOK, FetchFindsItsPage
<1>1. ASSUME page_table' = page_table,
             \A g \in Frames: headers'[g].page_id = headers[g].page_id
      PROVE  FetchFindsItsPage'
  BY <1>0, <1>1 DEF FetchFindsItsPage, Resident
<1>2. ASSUME NEW p \in PageIds, FetchHit(p) PROVE FetchFindsItsPage'
  <2>1. \A g \in Frames: headers'[g].page_id = headers[g].page_id
    BY <1>0, <1>2 DEF FetchHit, TypeOK
  <2> QED BY <1>1, <1>2, <2>1 DEF FetchHit
<1>3. ASSUME NEW p \in PageIds, FetchMiss(p) PROVE FetchFindsItsPage'
  <2>1. PICK f \in Frames:
          /\ disk' = DiskAfterEviction(f)
          /\ IF EvictionRaises(f)
             THEN HalfEvicted(f) /\ UNCHANGED <<page_table, held>>
             ELSE Install(f, p, disk'[p], FALSE) /\ held' = [held EXCEPT ![p] = @ + 1]
    BY <1>3 DEF FetchMiss
  <2>2. p \in Pages
    BY <1>3 DEF FetchMiss
  <2>3. disk'[p] \in Versions
    BY <2>1, <2>2, EvictionKeepsPages
  <2>4. CASE EvictionRaises(f)
    BY <2>1, <2>4, HalfEvictedKeepsTable
  <2>5. CASE ~EvictionRaises(f)
    BY <2>1, <2>3, <2>5, InstallKeepsTable
  <2> QED BY <2>4, <2>5
<1>4. ASSUME NEW p \in PageIds, Modify(p) PROVE FetchFindsItsPage'
  BY <1>1, <1>4 DEF Modify
<1>5. ASSUME NEW p \in PageIds, Unpin(p) PROVE FetchFindsItsPage'
  <2>1. ASSUME NEW dirty \in BOOLEAN, p \in Resident,
               headers' = [headers EXCEPT ![page_table[p]] = Released(@, dirty)]
        PROVE  \A g \in Frames: headers'[g].page_id = headers[g].page_id
    BY <1>0, <2>1 DEF Released, TypeOK
  <2>2. \/ headers' = headers
        \/ \E dirty \in BOOLEAN:
             p \in Resident /\ headers' = [headers EXCEPT ![page_table[p]] = Released(@, dirty)]
    BY <1>5 DEF Unpin
  <2>3. page_table' = page_table
    BY <1>5 DEF Unpin
  <2> QED BY <1>1, <2>1, <2>2, <2>3
<1>6. ASSUME NEW p \in PageIds, FlushPage(p) PROVE FetchFindsItsPage'
  <2>1. \A g \in Frames: headers'[g].page_id = headers[g].page_id
    BY <1>0, <1>6 DEF FlushPage, TypeOK
  <2> QED BY <1>1, <1>6, <2>1 DEF FlushPage
<1>7. ASSUME NEW p \in PageIds, DeletePage(p) PROVE FetchFindsItsPage'
  <2> SUFFICES ASSUME NEW q \in Resident' PROVE headers'[page_table'[q]].page_id = q
    BY DEF FetchFindsItsPage
  <2>1. q \in Resident \ {p} /\ page_table'[q] = page_table[q] /\ p \in Resident
    BY <1>7 DEF DeletePage, TableWithout, Resident
  <2>2. page_table[q] # page_table[p]
    BY <1>0, <2>1
  <2>3. headers'[page_table[q]] = headers[page_table[q]]
    BY <1>0, <1>7, <2>1, <2>2 DEF DeletePage, TypeOK
  <2> QED BY <1>0, <2>1, <2>3
<1>8. CASE FetchAbsent
  BY <1>8, HalfEvictedKeepsTable DEF FetchAbsent
<1>9. CASE NewPage
  <2>1. PICK p \in PageIds:
          \/ UNCHANGED poolVars
          \/ \E f \in Frames:
               IF EvictionRaises(f)
               THEN HalfEvicted(f) /\ UNCHANGED <<page_table, held>>
               ELSE Install(f, p, 0, TRUE)
    BY <1>9, Zenon DEF NewPage
  <2>2. CASE UNCHANGED poolVars
    BY <1>1, <2>2 DEF poolVars
  <2>3. ASSUME NEW f \in Frames,
               IF EvictionRaises(f)
               THEN HalfEvicted(f) /\ UNCHANGED <<page_table, held>>
               ELSE Install(f, p, 0, TRUE)
        PROVE  FetchFindsItsPage'
    <3>1. 0 \in Versions
      BY DEF Versions
    <3>2. CASE EvictionRaises(f)
      BY <2>3, <3>2, HalfEvictedKeepsTable
    <3>3. CASE ~EvictionRaises(f)
      BY <2>3, <3>1, <3>3, InstallKeepsTable
    <3> QED BY <3>2, <3>3
  <2> QED BY <2>1, <2>2, <2>3
<1>10. CASE FlushAll
  <2>1. \A g \in Frames: headers'[g].page_id = headers[g].page_id
    BY <1>10 DEF FlushAll, TypeOK
  <2> QED BY <1>1, <1>10, <2>1 DEF FlushAll
<1>11. CASE Restart
  BY <1>11 DEF Restart, FetchFindsItsPage, Resident
<1>12. CASE UNCHANGED vars
  BY <1>1, <1>12 DEF vars
<1> QED BY <1>2, <1>3, <1>4, <1>5, <1>6, <1>7, <1>8, <1>9, <1>10, <1>11, <1>12
        DEF Next

(* A page found in the table is in the frame that the table names, for every *)
(* size of the pool and requests for absent pages included.                  *)
THEOREM TableNamesItsPage == Spec => []FetchFindsItsPage
<1>1. Init => FetchFindsItsPage
  BY PoolInit DEF PoolInv
<1> QED BY <1>1, TableStep, TypeCorrect, PTL DEF Spec

----------------------------------------------------------------------------

(* The current pages and the durable ones have the same page ids.            *)
LEMMA CurrentTypes ==
    /\ CurrentPages = [p \in Pages |-> CurrentPages[p]]
    /\ DOMAIN CurrentPages = Pages
    /\ \A p \in Resident \cap Pages: CurrentPages[p] = frames[page_table[p]]
    /\ \A p \in Pages \ Resident: CurrentPages[p] = disk[p]
BY DEF CurrentPages

(* A victim that is not marked dirty is in the file as it is in memory.      *)
LEMMA EvictionSaves ==
    ASSUME PoolInv, NEW f \in Frames, IsVictim(f), NEW q \in VictimPages(f)
    PROVE  DiskAfterEviction(f)[q] = frames[f]
<1>1. q \in Resident /\ page_table[q] = f /\ headers[f].page_id = q /\ owed[q] = 0
  BY VictimIsFree
<1>2. q \in Pages
  BY <1>1 DEF PoolInv, TypeOK
<1>3. CASE headers[f].is_dirty
  BY <1>1, <1>2, <1>3 DEF DiskAfterEviction, PoolInv, TypeOK, Pages
<1>4. CASE ~headers[f].is_dirty
  BY <1>1, <1>4 DEF DiskAfterEviction, PoolInv, DirtyIsTracked
<1> QED BY <1>3, <1>4

(* Bringing a page in moves contents between frames and file only: what the  *)
(* callers see of the pages that were there does not change.                 *)
LEMMA InstallShowsTheSame ==
    ASSUME PoolInv, NEW f \in Frames, IsVictim(f), NEW p \in PageIds \ Resident,
           NEW dirty \in BOOLEAN, disk'[p] \in Versions,
           Install(f, p, disk'[p], dirty),
           p \in Pages',
           \A q \in Pages \ {p}: q \in Pages' /\ disk'[q] = DiskAfterEviction(f)[q]
    PROVE  /\ CurrentPages'[p] = disk'[p]
           /\ \A q \in Pages \ {p}: CurrentPages'[q] = CurrentPages[q]
<1>1. /\ Resident' = (Resident \ VictimPages(f)) \union {p}
      /\ page_table'[p] = f
      /\ frames'[f] = disk'[p]
      /\ \A q \in Resident' \ {p}: /\ q \in Resident \ VictimPages(f)
                                   /\ page_table'[q] = page_table[q]
                                   /\ page_table[q] \in Frames \ {f}
      /\ \A g \in Frames \ {f}: frames'[g] = frames[g]
  BY InstallEffect
<1>2. CurrentPages'[p] = disk'[p]
  BY <1>1 DEF CurrentPages
<1>3. ASSUME NEW q \in Pages \ {p} PROVE CurrentPages'[q] = CurrentPages[q]
  <2>0. CurrentPages'[q] = IF q \in Resident' THEN frames'[page_table'[q]] ELSE disk'[q]
    BY <1>3 DEF CurrentPages
  <2>1. CASE q \in Resident'
    <3>1. CurrentPages'[q] = frames[page_table[q]]
      BY <1>1, <1>3, <2>0, <2>1
    <3>2. q \in Resident
      BY <1>1, <1>3, <2>1
    <3> QED BY <1>3, <3>1, <3>2 DEF CurrentPages
  <2>2. CASE q \in VictimPages(f)
    <3>1. q \notin Resident' /\ q \in Resident /\ page_table[q] = f
      BY <1>1, <1>3, <2>2, VictimIsFree
    <3>2. CurrentPages'[q] = frames[f]
      BY <1>3, <2>0, <2>2, <3>1, EvictionSaves
    <3> QED BY <1>3, <3>1, <3>2 DEF CurrentPages
  <2>3. CASE q \notin Resident' /\ q \notin VictimPages(f)
    <3>1. q \notin Resident
      BY <1>1, <2>3
    <3>2. CurrentPages'[q] = disk[q]
      BY <1>3, <2>0, <2>3, WriteBackOfOthers
    <3> QED BY <1>3, <3>1, <3>2 DEF CurrentPages
  <2> QED BY <2>1, <2>2, <2>3
<1> QED BY <1>2, <1>3

----------------------------------------------------------------------------
(* A step of the pool that only copies pages to the file is a Sync.          *)
LEMMA SyncStep ==
    ASSUME TypeOK, NEW P \in SUBSET Pages, CurrentPages' = CurrentPages,
           disk' = [q \in Pages |-> IF q \in P THEN CurrentPages[q] ELSE disk[q]]
    PROVE  Store!Next
<1>1. P \in SUBSET DOMAIN CurrentPages
  BY CurrentTypes
<1> QED BY <1>1, Zenon DEF Store!Next, Store!Sync, Pages

(* A crash of the pool is a Revert of the store to its durable pages.        *)
LEMMA RevertStep ==
    ASSUME TypeOK, NEW P \in SUBSET Pages, disk' = disk,
           CurrentPages' = [q \in Pages |-> IF q \in P THEN disk[q] ELSE CurrentPages[q]]
    PROVE  Store!Next
<1>1. P \in SUBSET DOMAIN CurrentPages /\ DOMAIN CurrentPages = Pages
  BY CurrentTypes
<1> QED BY <1>1, Zenon DEF Store!Next, Store!Revert

(* The dirty page of a victim, if it has one.                                *)
WrittenBack(f) == {q \in VictimPages(f) : headers[f].is_dirty}

(* Writing the victim back saves that one page.                              *)
LEMMA WriteBackIsSync ==
    ASSUME PoolInv, NEW f \in Frames, IsVictim(f)
    PROVE  /\ WrittenBack(f) \in SUBSET Pages
           /\ \A q \in Pages: DiskAfterEviction(f)[q] =
                IF q \in WrittenBack(f) THEN CurrentPages[q] ELSE disk[q]
<1>1. WrittenBack(f) \in SUBSET Pages
  BY VictimIsFree DEF WrittenBack, PoolInv, TypeOK
<1>2. ASSUME NEW q \in Pages
      PROVE  DiskAfterEviction(f)[q] =
                IF q \in WrittenBack(f) THEN CurrentPages[q] ELSE disk[q]
  <2>1. CASE q \in WrittenBack(f)
    <3>1. q \in VictimPages(f)
      BY <2>1 DEF WrittenBack
    <3>2. q \in Resident /\ page_table[q] = f
      BY <3>1, VictimIsFree
    <3> QED BY <1>2, <2>1, <3>1, <3>2, EvictionSaves DEF CurrentPages
  <2>2. CASE q \notin WrittenBack(f) /\ headers[f].is_dirty
    BY <2>2, WriteBackOfOthers DEF WrittenBack
  <2>3. CASE q \notin WrittenBack(f) /\ ~headers[f].is_dirty
    BY <2>3 DEF DiskAfterEviction
  <2> QED BY <2>1, <2>2, <2>3
<1> QED BY <1>1, <1>2

(* Each step of the pool is a step of the store, or changes nothing it shows.*)
LEMMA StoreStep ==
    ~FetchMissing /\ PoolInv /\ PoolInv' /\ [Next]_vars => [Store!Next]_(Store!storeVars)
<1> SUFFICES ASSUME ~FetchMissing, PoolInv, PoolInv', Next
             PROVE  Store!Next \/ UNCHANGED <<CurrentPages, disk>>
  BY DEF vars, CurrentPages, Store!storeVars, Pages, Resident
<1>0. TypeOK /\ TypeOK' /\ Resident \subseteq Pages
  BY DEF PoolInv, TypeOK
<1> USE <1>0
<1>1. ASSUME UNCHANGED <<disk, frames, page_table>>
      PROVE  UNCHANGED <<CurrentPages, disk>>
  BY <1>1 DEF CurrentPages, Pages, Resident
<1>2. ASSUME NEW p \in PageIds, FetchHit(p) PROVE UNCHANGED <<CurrentPages, disk>>
  BY <1>1, <1>2 DEF FetchHit
<1>3. ASSUME NEW p \in PageIds, FetchMiss(p) PROVE Store!Next
  <2>1. PICK f \in Frames:
          /\ IsVictim(f)
          /\ disk' = DiskAfterEviction(f)
          /\ IF EvictionRaises(f)
             THEN HalfEvicted(f) /\ UNCHANGED <<page_table, held>>
             ELSE Install(f, p, disk'[p], FALSE) /\ held' = [held EXCEPT ![p] = @ + 1]
    BY <1>3 DEF FetchMiss
  <2>2. p \in Pages /\ p \in PageIds \ Resident
    BY <1>3 DEF FetchMiss
  <2>3. Install(f, p, disk'[p], FALSE)
    BY <2>1, VictimIsFree
  <2>4. disk'[p] \in Versions /\ Pages' = Pages
    BY <2>1, <2>2, EvictionKeepsPages DEF Pages
  <2>5. p \notin VictimPages(f)
    BY <2>1, <2>2, VictimIsFree
  <2>6. disk'[p] = disk[p]
    BY <2>1, <2>2, <2>5, WriteBackOfOthers
  <2>7. /\ CurrentPages'[p] = disk'[p]
        /\ \A q \in Pages \ {p}: CurrentPages'[q] = CurrentPages[q]
    BY <2>1, <2>2, <2>3, <2>4, InstallShowsTheSame
  <2>8. CurrentPages[p] = disk[p]
    BY <2>2, CurrentTypes
  <2>9. CurrentPages' = CurrentPages
    BY <2>4, <2>6, <2>7, <2>8 DEF CurrentPages
  <2>10. disk' = [q \in Pages |-> disk'[q]]
    BY <2>1, <2>4 DEF DiskAfterEviction, TypeOK, Pages
  <2>11. disk' = [q \in Pages |-> IF q \in WrittenBack(f) THEN CurrentPages[q] ELSE disk[q]]
    BY <2>1, <2>10, WriteBackIsSync
  <2>12. WrittenBack(f) \in SUBSET Pages
    BY <2>1, WriteBackIsSync
  <2> QED BY <2>9, <2>11, <2>12, SyncStep
<1>4. ASSUME NEW p \in PageIds, Modify(p) PROVE Store!Next
  <2>1. /\ p \in Resident /\ p \in Pages /\ page_table[p] \in Frames
        /\ UNCHANGED <<disk, page_table>>
        /\ frames' = [frames EXCEPT ![page_table[p]] = @ + 1]
    BY <1>4 DEF Modify, TypeOK
  <2>2. ASSUME NEW q \in Pages \ {p} PROVE CurrentPages'[q] = CurrentPages[q]
    <3>1. CASE q \in Resident
      <4>1. page_table[q] \in Frames \ {page_table[p]}
        BY <2>1, <2>2, <3>1 DEF PoolInv, FetchFindsItsPage, TypeOK
      <4>2. frames'[page_table[q]] = frames[page_table[q]]
        BY <2>1, <4>1 DEF TypeOK
      <4> QED BY <2>1, <2>2, <3>1, <4>2 DEF CurrentPages, Pages, Resident
    <3>2. CASE q \notin Resident
      BY <2>1, <2>2, <3>2 DEF CurrentPages, Pages, Resident
    <3> QED BY <3>1, <3>2
  <2>3. CurrentPages' = [CurrentPages EXCEPT ![p] = CurrentPages'[p]]
    <3>1. Pages' = Pages
      BY <2>1 DEF Pages
    <3>2. CurrentPages' = [q \in Pages |-> CurrentPages'[q]]
      BY <3>1 DEF CurrentPages
    <3>3. CurrentPages = [q \in Pages |-> CurrentPages[q]]
      BY DEF CurrentPages
    <3> QED BY <2>1, <2>2, <3>2, <3>3
  <2>4. p \in DOMAIN CurrentPages
    BY <2>1, CurrentTypes
  <2> QED BY <2>1, <2>3, <2>4, Zenon DEF Store!Next, Store!Write
<1>5. ASSUME NEW p \in PageIds, Unpin(p) PROVE UNCHANGED <<CurrentPages, disk>>
  BY <1>1, <1>5 DEF Unpin
<1>6. ASSUME NEW p \in PageIds, FlushPage(p) PROVE Store!Next
  <2>1. /\ p \in Resident /\ p \in Pages
        /\ UNCHANGED <<frames, page_table>>
        /\ disk' = [disk EXCEPT ![p] = frames[page_table[p]]]
    BY <1>6 DEF FlushPage
  <2>2. CurrentPages[p] = frames[page_table[p]]
    BY <2>1 DEF CurrentPages
  <2>3. disk' = [q \in Pages |-> IF q \in {p} THEN CurrentPages[q] ELSE disk[q]]
    BY <2>1, <2>2 DEF TypeOK, Pages
  <2>4. CurrentPages' = CurrentPages
    <3>1. Pages' = Pages /\ Resident' = Resident
      BY <2>1, <2>3 DEF Pages, Resident
    <3>2. \A q \in Pages \ Resident: disk'[q] = disk[q]
      BY <2>1, <2>3
    <3> QED BY <2>1, <3>1, <3>2 DEF CurrentPages
  <2>5. {p} \in SUBSET Pages
    BY <2>1
  <2> QED BY <2>3, <2>4, <2>5, SyncStep
<1>7. ASSUME NEW p \in PageIds, DeletePage(p) PROVE Store!Next
  <2>1. /\ p \in Resident /\ page_table[p] \in Frames /\ disk' = disk
        /\ frames' = [frames EXCEPT ![page_table[p]] = 0]
        /\ page_table' = TableWithout({p})
    BY <1>7 DEF DeletePage, TypeOK
  <2>2. /\ Resident' = Resident \ {p}
        /\ \A q \in Resident': page_table'[q] = page_table[q]
    BY <2>1 DEF TableWithout, Resident
  <2>3. \A q \in Resident': frames'[page_table'[q]] = frames[page_table[q]]
    <3> SUFFICES ASSUME NEW q \in Resident'
                 PROVE  frames'[page_table'[q]] = frames[page_table[q]]
      OBVIOUS
    <3>1. page_table[q] \in Frames \ {page_table[p]}
      BY <2>1, <2>2 DEF PoolInv, FetchFindsItsPage, TypeOK
    <3> QED BY <2>1, <2>2, <3>1 DEF TypeOK
  <2>4. CurrentPages' = [q \in Pages |-> IF q \in {p} THEN disk[q] ELSE CurrentPages[q]]
    <3>1. \A q \in Pages: CurrentPages'[q] = IF q \in {p} THEN disk[q] ELSE CurrentPages[q]
      BY <2>1, <2>2, <2>3 DEF CurrentPages, Pages
    <3>2. CurrentPages' = [q \in Pages |-> CurrentPages'[q]]
      BY <2>1 DEF CurrentPages, Pages
    <3> QED BY <3>1, <3>2
  <2>5. {p} \in SUBSET Pages
    BY <2>1
  <2> QED BY <2>1, <2>4, <2>5, RevertStep
<1>8. ASSUME FetchAbsent PROVE FALSE
  BY <1>8 DEF FetchAbsent
<1>9. ASSUME NewPage PROVE Store!Next
  <2>1. PICK p \in PageIds:
          /\ Pages = 0..(p - 1)
          /\ \/ /\ disk' = [q \in 0..p |-> IF q = p THEN 0 ELSE disk[q]]
                /\ UNCHANGED <<poolVars, held>>
             \/ \E f \in Frames:
                  /\ IsVictim(f)
                  /\ disk' = [q \in 0..p |-> IF q = p THEN 0 ELSE DiskAfterEviction(f)[q]]
                  /\ IF EvictionRaises(f)
                     THEN HalfEvicted(f) /\ UNCHANGED <<page_table, held>>
                     ELSE Install(f, p, 0, TRUE) /\ held' = [held EXCEPT ![p] = @ + 1]
    BY <1>9, Zenon DEF NewPage
  <2>2. /\ p \in 0..p /\ \A q \in 0..p: (q # p) <=> (q \in Pages)
        /\ p \in PageIds \ Resident
        /\ 0 \in Versions
        /\ Pages \subseteq 0..p
    <3>1. p \in Nat
      BY DEF PageIds
    <3>2. \A q \in 0..p: (q # p) <=> (q \in 0..(p - 1))
      BY <3>1
    <3>3. p \in 0..p /\ p \notin 0..(p - 1) /\ 0..(p - 1) \subseteq 0..p
      BY <3>1
    <3>4. p \notin Resident
      BY <2>1, <3>3
    <3>5. 0 \in Versions
      BY PoolAssumption DEF Versions
    <3>6. \A q \in 0..p: (q # p) <=> (q \in Pages)
      BY <2>1, <3>2, Zenon
    <3>7. Pages \subseteq 0..p
      BY <2>1, <3>3
    <3> QED BY <3>3, <3>4, <3>5, <3>6, <3>7
  <2>3. SUFFICES \E P \in SUBSET Pages:
          /\ CurrentPages' = [q \in 0..p |-> IF q = p THEN 0 ELSE CurrentPages[q]]
          /\ disk' = [q \in 0..p |-> IF q = p THEN 0
                                    ELSE IF q \in P THEN CurrentPages[q] ELSE disk[q]]
    <3>1. DOMAIN CurrentPages = Pages /\ p \in 0..(MaxPages - 1)
      BY CurrentTypes DEF PageIds
    <3>2. PICK P \in SUBSET Pages :
            /\ CurrentPages' = [q \in 0..p |-> IF q = p THEN 0 ELSE CurrentPages[q]]
            /\ disk' = [q \in 0..p |-> IF q = p THEN 0
                                      ELSE IF q \in P THEN CurrentPages[q] ELSE disk[q]]
      BY <2>3
    <3>3. DOMAIN CurrentPages = 0..(p - 1) /\ P \in SUBSET DOMAIN CurrentPages
      BY <2>1, <3>1, Zenon
    <3>4. Store!Allocate
      BY <3>1, <3>2, <3>3, Zenon DEF Store!Allocate, Store!Fresh
    <3> QED BY <3>4 DEF Store!Next
  <2>4. CASE /\ disk' = [q \in 0..p |-> IF q = p THEN 0 ELSE disk[q]]
             /\ UNCHANGED <<poolVars, held>>
    <3>1. Pages' = 0..p /\ Resident' = Resident /\ UNCHANGED <<frames, page_table>>
      BY <2>4 DEF Pages, Resident, poolVars
    <3>2. CurrentPages' = [q \in 0..p |-> IF q = p THEN 0 ELSE CurrentPages[q]]
      BY <2>2, <2>4, <3>1 DEF CurrentPages
    <3>3. {} \in SUBSET Pages
      OBVIOUS
    <3>4. disk' = [q \in 0..p |-> IF q = p THEN 0
                                 ELSE IF q \in {} THEN CurrentPages[q] ELSE disk[q]]
      BY <2>4
    <3> QED BY <3>2, <3>3, <3>4
  <2>5. ASSUME NEW f \in Frames, IsVictim(f),
               disk' = [q \in 0..p |-> IF q = p THEN 0 ELSE DiskAfterEviction(f)[q]],
               IF EvictionRaises(f)
               THEN HalfEvicted(f) /\ UNCHANGED <<page_table, held>>
               ELSE Install(f, p, 0, TRUE) /\ held' = [held EXCEPT ![p] = @ + 1]
        PROVE  \E P \in SUBSET Pages:
          /\ CurrentPages' = [q \in 0..p |-> IF q = p THEN 0 ELSE CurrentPages[q]]
          /\ disk' = [q \in 0..p |-> IF q = p THEN 0
                                    ELSE IF q \in P THEN CurrentPages[q] ELSE disk[q]]
    <3>1. disk'[p] = 0 /\ Pages' = 0..p
      BY <2>2, <2>5 DEF Pages
    <3>2. Install(f, p, disk'[p], TRUE) /\ disk'[p] \in Versions
      BY <2>2, <2>5, <3>1, VictimIsFree
    <3>3. \A q \in Pages \ {p}: q \in Pages' /\ disk'[q] = DiskAfterEviction(f)[q]
      BY <2>2, <2>5, <3>1
    <3>4. p \in Pages'
      BY <2>2, <3>1
    <3>5. /\ CurrentPages'[p] = disk'[p]
          /\ \A q \in Pages \ {p}: CurrentPages'[q] = CurrentPages[q]
      BY <2>2, <2>5, <3>2, <3>3, <3>4, InstallShowsTheSame
    <3>6. CurrentPages' = [q \in 0..p |-> CurrentPages'[q]]
      BY <3>1 DEF CurrentPages
    <3>7. \A q \in 0..p: CurrentPages'[q] = IF q = p THEN 0 ELSE CurrentPages[q]
      BY <2>2, <3>1, <3>5
    <3>8. CurrentPages' = [q \in 0..p |-> IF q = p THEN 0 ELSE CurrentPages[q]]
      BY <3>6, <3>7
    <3>9. disk' = [q \in 0..p |-> IF q = p THEN 0
                     ELSE IF q \in WrittenBack(f) THEN CurrentPages[q] ELSE disk[q]]
      BY <2>2, <2>5, WriteBackIsSync
    <3>10. WrittenBack(f) \in SUBSET Pages
      BY <2>5, WriteBackIsSync
    <3> QED BY <3>8, <3>9, <3>10
  <2> QED BY <2>1, <2>4, <2>5
<1>10. ASSUME FlushAll PROVE Store!Next
  <2>1. /\ UNCHANGED <<frames, page_table>>
        /\ disk' = [p \in Pages |-> IF LastDirty(p) = {} THEN disk[p]
                                    ELSE frames[CHOOSE f \in LastDirty(p): TRUE]]
    BY <1>10 DEF FlushAll
  <2> DEFINE P == {q \in Resident : page_table[q] \in DirtyFrames}
  <2>2. P \in SUBSET Pages
    OBVIOUS
  <2>3. ASSUME NEW q \in Pages
        PROVE  disk'[q] = IF q \in P THEN CurrentPages[q] ELSE disk[q]
    <3>1. CASE q \in Resident
      BY <2>1, <3>1, FlushAllWrites DEF CurrentPages
    <3>2. CASE q \notin Resident
      <4>1. LastDirty(q) = {}
        BY <3>2 DEF LastDirty, DirtyFrames, PoolInv, OneFramePerPage
      <4> QED BY <2>1, <3>2, <4>1
    <3> QED BY <3>1, <3>2
  <2>4. disk' = [q \in Pages |-> IF q \in P THEN CurrentPages[q] ELSE disk[q]]
    BY <2>1, <2>3
  <2>5. CurrentPages' = CurrentPages
    <3>1. Pages' = Pages /\ Resident' = Resident
      BY <2>1 DEF Pages, Resident
    <3>2. \A q \in Pages \ Resident: disk'[q] = disk[q]
      BY <2>3
    <3> QED BY <2>1, <3>1, <3>2 DEF CurrentPages
  <2> QED BY <2>2, <2>4, <2>5, SyncStep
<1>11. ASSUME Restart PROVE Store!Next
  <2>1. disk' = disk /\ Pages' = Pages /\ Resident' = {}
    BY <1>11 DEF Restart, Pages, Resident
  <2>2. CurrentPages' = [q \in Pages |-> IF q \in Pages THEN disk[q] ELSE CurrentPages[q]]
    BY <2>1 DEF CurrentPages
  <2>3. Pages \in SUBSET Pages
    OBVIOUS
  <2> QED BY <2>1, <2>2, <2>3, RevertStep
<1> QED BY <1>2, <1>3, <1>4, <1>5, <1>6, <1>7, <1>8, <1>9, <1>10, <1>11 DEF Next

(* The empty pool shows an empty store.                                      *)
LEMMA StoreInit == Init => Store!Init
<1> SUFFICES ASSUME Init PROVE Store!Init
  OBVIOUS
<1>1. Pages = {} /\ disk = [p \in {} |-> 0]
  BY DEF Init, Pages
<1>2. CurrentPages = [p \in {} |-> 0]
  BY <1>1 DEF CurrentPages
<1> QED BY <1>1, <1>2 DEF Store!Init, Store!Fresh

(* The pool is transparent: to its callers it is the plain page store,        *)
(* whatever is cached, evicted, written back or lost in a crash.             *)
THEOREM PoolIsTransparent == ~FetchMissing => (Spec => ImplementsPageStore)
<1>1. CASE ~FetchMissing
  <2>1. PoolInv /\ PoolInv' /\ [Next]_vars => [Store!Next]_(Store!storeVars)
    BY <1>1, StoreStep
  <2>2. Spec => []PoolInv
    BY <1>1, PoolInvariant
  <2> QED BY <2>1, <2>2, StoreInit, PTL DEF Spec, ImplementsPageStore, Store!Spec
<1>2. CASE FetchMissing
  BY <1>2
<1> QED BY <1>1, <1>2
=============================================================================
