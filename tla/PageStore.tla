----------------------------- MODULE PageStore -----------------------------
(***************************************************************************)
(* What the page layer of PySQL promises to its callers, whatever is cached *)
(* where: a growing set of pages, each with one current content and one     *)
(* durable content.  A page changes only when a caller writes it; it becomes *)
(* durable as a whole; a crash takes every page back to its durable content. *)
(* BufferPool implements this specification.                                *)
(***************************************************************************)
EXTENDS Naturals

CONSTANT MaxPages       \* bound on the pages of the database file

VARIABLES
    pages,              \* pages[p]: the content a caller sees
    durable             \* durable[p]: the content in the database file

storeVars == <<pages, durable>>

Fresh == 0              \* the content of a newly allocated page

Init ==
    /\ pages = [p \in {} |-> Fresh]
    /\ durable = [p \in {} |-> Fresh]

(* The file grows by exactly one page, empty in memory and on disk.  To make *)
(* room for it in memory, other pages may be written back.                   *)
Allocate ==
    \E p \in 0..(MaxPages - 1), P \in SUBSET DOMAIN pages:
        /\ DOMAIN pages = 0..(p - 1)
        /\ pages' = [q \in 0..p |-> IF q = p THEN Fresh ELSE pages[q]]
        /\ durable' = [q \in 0..p |-> IF q = p THEN Fresh
                                     ELSE IF q \in P THEN pages[q] ELSE durable[q]]

(* A caller changes one page; nothing becomes durable by it.                 *)
Write ==
    /\ \E p \in DOMAIN pages: pages' = [pages EXCEPT ![p] = pages'[p]]
    /\ UNCHANGED durable

(* Some pages are written back: each one whole, with its current content.    *)
Sync ==
    /\ \E P \in SUBSET DOMAIN pages:
          durable' = [p \in DOMAIN durable |-> IF p \in P THEN pages[p]
                                                         ELSE durable[p]]
    /\ UNCHANGED pages

(* Some pages lose what was never written back: a crash, or a page dropped   *)
(* from the pool.                                                           *)
Revert ==
    /\ \E P \in SUBSET DOMAIN pages:
          pages' = [p \in DOMAIN pages |-> IF p \in P THEN durable[p]
                                                     ELSE pages[p]]
    /\ UNCHANGED durable

Next == Allocate \/ Write \/ Sync \/ Revert

Spec == Init /\ [][Next]_storeVars
=============================================================================
