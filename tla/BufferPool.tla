----------------------------- MODULE BufferPool -----------------------------
(***************************************************************************)
(* pysql.storage.buffer_pool.BufferPool over pysql.storage.page.DiskManager, *)
(* with the callers of the pool (HeapFile is the only one in the code).      *)
(*                                                                          *)
(* Every public method runs under the pool's lock, so each is one step.      *)
(* Between two of its calls a caller holds a pinned Page object and may      *)
(* change it; it tells the pool later, in unpin_page(is_dirty=True).  The    *)
(* content of a page is a version number: all that the properties tell apart *)
(* is which write a copy holds.                                             *)
(***************************************************************************)
EXTENDS Integers, FiniteSets

CONSTANTS
    PoolSize,       \* frames in the pool (pool_size)
    MaxPages,       \* bound: pages the database file may grow to
    MaxPins,        \* bound: pins the callers may hold on one page
    MaxVersion,     \* bound: writes to one page
    FetchMissing    \* TRUE: a caller may ask for a page the file does not have

ASSUME PoolAssumption ==
    /\ PoolSize \in Nat \ {0}
    /\ MaxPages \in Nat
    /\ MaxPins \in Nat
    /\ MaxVersion \in Nat
    /\ FetchMissing \in BOOLEAN

VARIABLES
    disk,           \* DiskManager: disk[p] is the content of page p in the file
    frames,         \* _frames: the content of the Page object in each frame
    headers,        \* _headers
    page_table,     \* _page_table: page id -> frame
    clock_hand,     \* _clock_hand
    held,           \* callers: pins they hold on each page
    owed            \* callers: holders that changed the page and have yet to
                    \* report it

poolVars == <<frames, headers, page_table, clock_hand>>
callerVars == <<held, owed>>
vars == <<disk, frames, headers, page_table, clock_hand, held, owed>>

Frames == 0..(PoolSize - 1)
PageIds == 0..(MaxPages - 1)
Versions == 0..MaxVersion
NoPage == -1

(* FrameHeader(): the header of a frame that holds no page.                  *)
EmptyHeader ==
    [page_id |-> NoPage, pin_count |-> 0, is_dirty |-> FALSE, ref_bit |-> FALSE]

Pages == DOMAIN disk
Resident == DOMAIN page_table

----------------------------------------------------------------------------
(* _find_victim_frame.  An empty frame is taken at once.  Otherwise the hand *)
(* sweeps at most twice around: the first unpinned frame whose reference bit *)
(* is clear (cold) is taken; without one, the first sweep clears the bits    *)
(* and the second takes the first unpinned frame.                            *)
EmptyFrames == {f \in Frames : headers[f].page_id = NoPage}
UnpinnedOrNot == Frames          \* fault: the sweep ignores pins
Unpinned == {f \in Frames : headers[f].pin_count = 0}
Cold == {f \in Unpinned : ~headers[f].ref_bit}
Distance(f) == (f + PoolSize - clock_hand) % PoolSize

Exhausted == EmptyFrames = {} /\ Unpinned = {}

IsVictim(f) ==
    IF EmptyFrames # {}
    THEN f \in EmptyFrames /\ \A g \in EmptyFrames: f <= g
    ELSE LET candidates == IF Cold # {} THEN Cold ELSE Unpinned
         IN  f \in candidates /\ \A g \in candidates: Distance(f) <= Distance(g)

(* The frames whose reference bit the sweep clears on its way to f.          *)
Swept(f) ==
    IF EmptyFrames # {} THEN {}
    ELSE IF Cold # {} THEN {g \in Unpinned : Distance(g) < Distance(f)}
    ELSE Unpinned

HandAfterUnwrapped(f) ==         \* fault: the hand runs past the last frame
    IF EmptyFrames # {} THEN clock_hand ELSE f + 1

HandAfter(f) ==
    IF EmptyFrames # {} THEN clock_hand ELSE (f + 1) % PoolSize

SweptHeaders(f) ==
    [g \in Frames |-> IF g \in Swept(f) THEN [headers[g] EXCEPT !.ref_bit = FALSE]
                                        ELSE headers[g]]

(* Writing the victim back and removing it from the page table.  The page    *)
(* of a frame is the one its header names.                                  *)
VictimPages(f) ==
    IF headers[f].page_id = NoPage THEN {} ELSE {headers[f].page_id}

DiskWithoutWriteBack(f) == disk  \* fault: a dirty victim is dropped

DiskAfterEviction(f) ==
    IF VictimPages(f) # {} /\ headers[f].is_dirty
    THEN [disk EXCEPT ![headers[f].page_id] = frames[f]]
    ELSE disk

(* "del self._page_table[...]" raises KeyError when the victim's page is not  *)
(* in the table; the caller's request fails there.                           *)
EvictionRaises(f) == ~(VictimPages(f) \subseteq Resident)

TableAsItWas(P) == page_table    \* fault: the victim stays in the table

TableWithout(P) == [p \in Resident \ P |-> page_table[p]]

TableWith(table, p, f) ==
    [q \in DOMAIN table \union {p} |-> IF q = p THEN f ELSE table[q]]

(* Installing page p, content c, in the victim frame f.                      *)
Install(f, p, c, dirty) ==
    /\ frames' = [frames EXCEPT ![f] = c]
    /\ headers' = [SweptHeaders(f) EXCEPT
                     ![f] = [page_id |-> p, pin_count |-> 1,
                             is_dirty |-> dirty, ref_bit |-> TRUE]]
    /\ page_table' = TableWith(TableWithout(VictimPages(f)), p, f)
    /\ clock_hand' = HandAfter(f)

(* The same, when the call raises between the eviction and the installation: *)
(* the frame and its header still name the old page.                         *)
HalfEvicted(f) ==
    /\ headers' = SweptHeaders(f)
    /\ clock_hand' = HandAfter(f)
    /\ UNCHANGED frames

----------------------------------------------------------------------------
Init ==
    /\ disk = [p \in {} |-> 0]
    /\ frames = [f \in Frames |-> 0]
    /\ headers = [f \in Frames |-> EmptyHeader]
    /\ page_table = [p \in {} |-> 0]
    /\ clock_hand = 0
    /\ held = [p \in PageIds |-> 0]
    /\ owed = [p \in PageIds |-> 0]

(* fetch_page of a resident page: one more pin, a second chance.             *)
FetchHit(p) ==
    /\ p \in Resident
    /\ held[p] < MaxPins
    /\ headers' = [headers EXCEPT ![page_table[p]].pin_count = @ + 1,
                                  ![page_table[p]].ref_bit = TRUE]
    /\ held' = [held EXCEPT ![p] = @ + 1]
    /\ UNCHANGED <<disk, frames, page_table, clock_hand, owed>>

(* fetch_page of a page that must be read from the file.  When every frame   *)
(* is pinned it raises RuntimeError and changes nothing.                     *)
FetchMiss(p) ==
    /\ p \in Pages \ Resident
    /\ held[p] < MaxPins
    /\ \E f \in Frames:
          /\ IsVictim(f)
          /\ disk' = DiskAfterEviction(f)
          /\ IF EvictionRaises(f)
             THEN HalfEvicted(f) /\ UNCHANGED <<page_table, held>>
             ELSE Install(f, p, disk'[p], FALSE) /\ held' = [held EXCEPT ![p] = @ + 1]
    /\ UNCHANGED owed

(* fetch_page of a page the file does not have.  The victim has already been *)
(* written back and taken out of the page table when read_page raises        *)
(* ValueError: its frame and its header stay.                                *)
FetchAbsent ==
    /\ FetchMissing
    /\ \E f \in Frames:
          /\ IsVictim(f)
          /\ disk' = DiskAfterEviction(f)
          /\ HalfEvicted(f)
          /\ page_table' = TableWithout(VictimPages(f))
    /\ UNCHANGED callerVars

(* new_page.  The file grows first; when no frame can be freed the call      *)
(* raises and the new page stays in the file, known to nobody.               *)
NewPage ==
    \E p \in PageIds:
      /\ Pages = 0..(p - 1)
      /\ IF Exhausted
         THEN /\ disk' = [q \in 0..p |-> IF q = p THEN 0 ELSE disk[q]]
              /\ UNCHANGED <<poolVars, held>>
         ELSE \E f \in Frames:
              /\ IsVictim(f)
              /\ disk' = [q \in 0..p |-> IF q = p THEN 0 ELSE DiskAfterEviction(f)[q]]
              /\ IF EvictionRaises(f)
                 THEN HalfEvicted(f) /\ UNCHANGED <<page_table, held>>
                 ELSE Install(f, p, 0, TRUE) /\ held' = [held EXCEPT ![p] = @ + 1]
      /\ UNCHANGED owed

(* A caller changes the page object it holds.  The pool learns of it only    *)
(* when that caller unpins the page.                                         *)
Modify(p) ==
    /\ held[p] > 0
    /\ p \in Resident
    /\ frames[page_table[p]] < MaxVersion
    /\ frames' = [frames EXCEPT ![page_table[p]] = @ + 1]
    /\ \E n \in {owed[p], owed[p] + 1}:
          /\ n \in 1..held[p]
          /\ owed' = [owed EXCEPT ![p] = n]
    /\ UNCHANGED <<disk, headers, page_table, clock_hand, held>>

(* fault: a dirty unpin marks the page and forgets the pin                   *)
ReleasedIfClean(h, dirty) ==
    IF dirty THEN [h EXCEPT !.is_dirty = TRUE] ELSE [h EXCEPT !.pin_count = @ - 1]

(* fault: the last unpin decides whether the page is dirty                   *)
ReleasedAsLast(h, dirty) ==
    [h EXCEPT !.pin_count = @ - 1, !.is_dirty = dirty]

Released(h, dirty) ==
    [h EXCEPT !.pin_count = @ - 1, !.is_dirty = IF dirty THEN TRUE ELSE @]

(* unpin_page.  A holder that changed the page passes is_dirty=True; one     *)
(* that did not may pass either.  For a page that is not in the pool, or not *)
(* pinned, the call returns False and changes nothing.                       *)
Unpin(p) ==
    /\ held[p] > 0
    /\ \E dirty \in BOOLEAN, n \in {owed[p] - 1, owed[p]}:
          /\ IF n < owed[p] THEN n >= 0 /\ dirty ELSE owed[p] < held[p]
          /\ owed' = [owed EXCEPT ![p] = n]
          /\ held' = [held EXCEPT ![p] = @ - 1]
          /\ IF p \in Resident /\ headers[page_table[p]].pin_count > 0
             THEN headers' = [headers EXCEPT ![page_table[p]] = Released(@, dirty)]
             ELSE UNCHANGED headers
    /\ UNCHANGED <<disk, frames, page_table, clock_hand>>

(* flush_page: a page marked dirty is written and marked clean.              *)
FlushPage(p) ==
    /\ p \in Resident
    /\ headers[page_table[p]].is_dirty
    /\ disk' = [disk EXCEPT ![p] = frames[page_table[p]]]
    /\ headers' = [headers EXCEPT ![page_table[p]].is_dirty = FALSE]
    /\ UNCHANGED <<frames, page_table, clock_hand, callerVars>>

(* flush_all goes through the frames, not the page table, in index order: of *)
(* two frames that name the same page, the later one is in the file at the   *)
(* end.                                                                     *)
DirtyUnpinnedFrames ==           \* fault: flush_all skips pinned pages
    {f \in Unpinned : headers[f].page_id # NoPage /\ headers[f].is_dirty}

DirtyFrames == {f \in Frames : headers[f].page_id # NoPage /\ headers[f].is_dirty}
LastDirty(p) ==
    {f \in DirtyFrames : /\ headers[f].page_id = p
                         /\ \A g \in DirtyFrames: headers[g].page_id = p => g <= f}

FlushAll ==
    /\ DirtyFrames # {}
    /\ disk' = [p \in Pages |-> IF LastDirty(p) = {} THEN disk[p]
                                ELSE frames[CHOOSE f \in LastDirty(p): TRUE]]
    /\ headers' = [f \in Frames |-> IF f \in DirtyFrames
                                    THEN [headers[f] EXCEPT !.is_dirty = FALSE]
                                    ELSE headers[f]]
    /\ UNCHANGED <<frames, page_table, clock_hand, callerVars>>

(* fault: delete_page leaves the frame's header behind                       *)
DeletePageFromTable(p) ==
    /\ p \in Resident
    /\ headers[page_table[p]].pin_count = 0
    /\ page_table' = TableWithout({p})
    /\ UNCHANGED <<disk, frames, headers, clock_hand, callerVars>>

(* delete_page drops an unpinned page from the pool, written back or not.    *)
DeletePage(p) ==
    /\ p \in Resident
    /\ headers[page_table[p]].pin_count = 0
    /\ headers' = [headers EXCEPT ![page_table[p]] = EmptyHeader]
    /\ frames' = [frames EXCEPT ![page_table[p]] = 0]
    /\ page_table' = TableWithout({p})
    /\ UNCHANGED <<disk, clock_hand, callerVars>>

(* The process dies and a new pool opens the same file.                      *)
Restart ==
    /\ frames' = [f \in Frames |-> 0]
    /\ headers' = [f \in Frames |-> EmptyHeader]
    /\ page_table' = [p \in {} |-> 0]
    /\ clock_hand' = 0
    /\ held' = [p \in PageIds |-> 0]
    /\ owed' = [p \in PageIds |-> 0]
    /\ UNCHANGED disk

Next ==
    \/ \E p \in PageIds: \/ FetchHit(p)
                         \/ FetchMiss(p)
                         \/ Modify(p)
                         \/ Unpin(p)
                         \/ FlushPage(p)
                         \/ DeletePage(p)
    \/ FetchAbsent
    \/ NewPage
    \/ FlushAll
    \/ Restart

Spec == Init /\ [][Next]_vars

----------------------------------------------------------------------------
TypeOK ==
    /\ \E n \in 0..MaxPages: disk \in [0..(n - 1) -> Versions]
    /\ frames \in [Frames -> Versions]
    /\ headers \in [Frames -> [page_id : PageIds \union {NoPage}, pin_count : Nat,
                               is_dirty : BOOLEAN, ref_bit : BOOLEAN]]
    /\ page_table \in [Resident -> Frames]
    /\ Resident \subseteq Pages
    /\ clock_hand \in Frames
    /\ held \in [PageIds -> Nat]
    /\ owed \in [PageIds -> Nat]

(* The frame that fetch_page finds through the page table holds the page the *)
(* caller asked for, also after requests that failed half way.               *)
FetchFindsItsPage ==
    \A p \in Resident: headers[page_table[p]].page_id = p

(* Every occupied frame is in the page table, under its own page: so a page  *)
(* is never in two frames, whatever evictions and deletions preceded.        *)
OneFramePerPage ==
    \A f \in Frames: headers[f].page_id # NoPage =>
        /\ headers[f].page_id \in Resident
        /\ page_table[headers[f].page_id] = f

(* A page in use stays in the pool, in a frame whose pin count is exactly    *)
(* the number of holders ("pages in active use cannot be evicted").          *)
PinnedStaysResident ==
    \A p \in PageIds: held[p] > 0 =>
        p \in Resident /\ headers[page_table[p]].pin_count = held[p]

(* A frame the pool counts as pinned has a caller that will unpin it: no pin *)
(* is leaked by a legal sequence of calls.                                   *)
NoPinLeak ==
    \A f \in Frames: headers[f].pin_count > 0 =>
        held[headers[f].page_id] = headers[f].pin_count

(* What is in memory and not in the file is known to the pool as dirty, or a *)
(* holder has yet to report it: otherwise an eviction would lose the write.  *)
DirtyIsTracked ==
    \A p \in Resident:
        \/ frames[page_table[p]] = disk[p]
        \/ headers[page_table[p]].is_dirty
        \/ owed[p] > 0

(* After flush_all (a checkpoint, or close) the file has every page whose    *)
(* changes were reported, the pinned ones included.                          *)
FlushAllMakesDurable ==
    [][FlushAll => \A p \in Resident: owed[p] = 0 => disk'[p] = frames[page_table[p]]]_vars

(* Where a caller would find the current content of each page.               *)
CurrentPages ==
    [p \in Pages |-> IF p \in Resident THEN frames[page_table[p]] ELSE disk[p]]

Store == INSTANCE PageStore WITH pages <- CurrentPages, durable <- disk

(* The pool is transparent: caching, eviction, write-back and a crash never  *)
(* change what a page holds other than PageStore allows.                     *)
ImplementsPageStore == Store!Spec

(* new_page either brings the page it allocates into the pool, pinned, or    *)
(* leaves the file alone ("Allocate a new page on disk and bring it into the *)
(* buffer pool", buffer_pool.py:134).                                        *)
NewPageIsInPool ==
    [][\A p \in (DOMAIN disk') \ Pages: p \in DOMAIN page_table']_vars
=============================================================================
