-------------------------- MODULE SnapshotIsolation --------------------------
(***************************************************************************)
(* Snapshot isolation as PySQL's documentation promises it: a transaction    *)
(* reads the database as it was when the transaction began, plus its own     *)
(* writes; its writes reach the database together, at commit, or not at all; *)
(* and of two concurrent transactions that write one key at most one         *)
(* commits.  MVCC implements this specification for disciplined callers.     *)
(***************************************************************************)
CONSTANTS
    Txns,           \* transaction identifiers
    Keys,           \* records
    Absent          \* the content of a key that does not exist

VARIABLES
    db,             \* the committed database
    view,           \* view[t]: the database as transaction t sees it
    written,        \* written[t]: the keys t has written
    active,         \* transactions in progress
    committed,      \* transactions that committed
    seen            \* seen[t]: the transactions committed when t began

siVars == <<db, view, written, active, committed, seen>>

Nothing == [k \in Keys |-> Absent]

Init ==
    /\ db = Nothing
    /\ view = [t \in Txns |-> Nothing]
    /\ written = [t \in Txns |-> {}]
    /\ active = {}
    /\ committed = {}
    /\ seen = [t \in Txns |-> {}]

Begin(t) ==
    /\ t \notin active \union committed
    /\ active' = active \union {t}
    /\ view' = [view EXCEPT ![t] = db]
    /\ seen' = [seen EXCEPT ![t] = committed]
    /\ UNCHANGED <<db, written, committed>>

Write(t, k) ==
    /\ t \in active
    /\ written' = [written EXCEPT ![t] = @ \union {k}]
    /\ view' = [view EXCEPT ![t][k] = view'[t][k]]
    /\ UNCHANGED <<db, active, committed, seen>>

NoConflict(t) ==
    \A u \in committed \ seen[t]: written[u] \cap written[t] = {}

Commit(t) ==
    /\ t \in active
    /\ NoConflict(t)
    /\ active' = active \ {t}
    /\ committed' = committed \union {t}
    /\ db' = [k \in Keys |-> IF k \in written[t] THEN view[t][k] ELSE db[k]]
    /\ view' = [view EXCEPT ![t] = Nothing]
    /\ UNCHANGED <<written, seen>>

Abort(t) ==
    /\ t \in active
    /\ active' = active \ {t}
    /\ view' = [view EXCEPT ![t] = Nothing]
    /\ UNCHANGED <<db, written, committed, seen>>

Next ==
    \E t \in Txns: \/ Begin(t)
                   \/ \E k \in Keys: Write(t, k)
                   \/ Commit(t)
                   \/ Abort(t)

Spec == Init /\ [][Next]_siVars
=============================================================================
