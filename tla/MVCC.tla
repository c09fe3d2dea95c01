-------------------------------- MODULE MVCC --------------------------------
(***************************************************************************)
(* pysql.mvcc.MVCCManager: transactions, their snapshots, and the version    *)
(* chain of every record.  Each method runs under the manager's lock and is  *)
(* one step; the transactions of several callers interleave between calls.   *)
(*                                                                          *)
(* One table is modelled: the manager treats the keys of different tables    *)
(* alike.  The data of a version is the pair of its writer and a payload.    *)
(***************************************************************************)
EXTENDS Integers, Sequences, FiniteSets

CONSTANTS
    Keys,           \* records of the table
    MaxTxns,        \* bound: transactions started
    Payloads,       \* what a transaction may write to a key
    MaxVersions,    \* bound: length of a version chain
    Absent,         \* the result None of read_version
    Callers         \* what the callers do that a disciplined caller would not

(* "concurrent": write a key that a concurrent transaction wrote too;        *)
(* "rewrite": write or delete a key twice in one transaction;                *)
(* "reinsert": write or delete a key whose last version is deleted.          *)
Habits == {"concurrent", "rewrite", "reinsert"}

ASSUME MVCCAssumption ==
    /\ MaxTxns \in Nat
    /\ MaxVersions \in Nat
    /\ Callers \subseteq Habits
    /\ Absent \notin (1..MaxTxns) \X Payloads

VARIABLES
    next_txn_id,    \* _next_txn_id
    active_txns,    \* _active_txns
    committed_txns, \* _committed_txns
    aborted_txns,   \* _aborted_txns
    snapshot,       \* Transaction.snapshot of each transaction
    write_set,      \* Transaction.write_set of each transaction
    versions        \* _versions: for each key its chain, newest version first

txnVars == <<next_txn_id, active_txns, committed_txns, aborted_txns, snapshot>>
vars == <<next_txn_id, active_txns, committed_txns, aborted_txns, snapshot,
          write_set, versions>>

Txns == 1..MaxTxns
Data == Txns \X Payloads

(* VersionRecord; xmax = 0 while nobody deleted or superseded the version.   *)
Version == [data : Data, xmin : Txns, xmax : Txns \union {0}]
NoSnapshot == [active |-> {}, committed |-> {}]

----------------------------------------------------------------------------
(* fault: what has committed by now is visible, not by the snapshot          *)
IsVisibleNow(v, t) ==
    \/ v.xmin = t /\ v.xmax # t
    \/ v.xmin \in committed_txns /\ v.xmax # t /\ v.xmax \notin committed_txns

(* fault: a transaction still sees what it deleted                           *)
IsVisibleToDeleter(v, t) ==
    LET snap == snapshot[t]
    IN  /\ v.xmin = t \/ (v.xmin \in snap.committed /\ v.xmin \notin snap.active)
        /\ v.xmax \notin snap.committed

(* VersionRecord.is_visible_to, with the snapshot's committed set.           *)
IsVisible(v, t) ==
    LET snap == snapshot[t]
        goneFor == v.xmax \in snap.committed /\ v.xmax \notin snap.active
    IN  IF v.xmin = t
        THEN v.xmax # t /\ v.xmax \notin snap.committed
        ELSE /\ v.xmin \in snap.committed
             /\ v.xmin \notin snap.active
             /\ v.xmax # t
             /\ ~goneFor

(* read_version: the first visible version along the chain, or None.         *)
VisibleIn(chain, t) == {i \in DOMAIN chain : IsVisible(chain[i], t)}

ReadVersion(t, k) ==
    LET seen == VisibleIn(versions[k], t)
    IN  IF seen = {} THEN Absent
        ELSE versions[k][CHOOSE i \in seen: \A j \in seen: i <= j].data

(* The write-write check of write_version and delete_version.                *)
HasConflict(k, t) ==
    /\ versions[k] # <<>>
    /\ LET old == Head(versions[k])
       IN  old.xmax # 0 /\ old.xmax # t /\ old.xmax \in active_txns

(* The chain whose newest version is marked superseded or deleted by t.      *)
Superseded(chain, t) ==
    IF chain = <<>> THEN <<>> ELSE [chain EXCEPT ![1].xmax = t]

NotRolledBack(chain, t) == chain \* fault: abort forgets the version chains

(* _do_abort, one key: only the newest version is looked at.                 *)
RolledBack(chain, t) ==
    IF chain = <<>> THEN <<>>
    ELSE IF Head(chain).xmin = t
    THEN IF Len(chain) > 1 /\ chain[2].xmax = t
         THEN [Tail(chain) EXCEPT ![1].xmax = 0]
         ELSE Tail(chain)
    ELSE IF Head(chain).xmax = t THEN [chain EXCEPT ![1].xmax = 0]
    ELSE chain

(* garbage_collect, one key: behind the newest version, the first one that   *)
(* was superseded by a committed transaction older than every active one     *)
(* becomes the end of the chain.                                            *)
MinActive ==
    IF active_txns = {} THEN next_txn_id
    ELSE CHOOSE t \in active_txns: \A u \in active_txns: t <= u

CutPoints(chain) ==
    {i \in 2..(Len(chain) - 1) : /\ chain[i].xmax # 0
                                 /\ chain[i].xmax < MinActive
                                 /\ chain[i].xmax \in committed_txns}

Collected(chain) ==
    IF CutPoints(chain) = {} THEN chain
    ELSE SubSeq(chain, 1, CHOOSE i \in CutPoints(chain):
                              \A j \in CutPoints(chain): i <= j)

----------------------------------------------------------------------------
(* The discipline of the callers: what is not among their habits they avoid. *)
EndedBefore(t, k) ==
    versions[k] # <<>> /\ Head(versions[k]).xmax \notin {0, t}

Disciplined(t, k) ==
    /\ "concurrent" \notin Callers =>
          \A u \in (active_txns \union committed_txns) \ {t}:
              k \in write_set[u] => u \in snapshot[t].committed
    /\ "rewrite" \notin Callers => k \notin write_set[t]
    /\ "reinsert" \notin Callers => ~EndedBefore(t, k)

Init ==
    /\ next_txn_id = 1
    /\ active_txns = {}
    /\ committed_txns = {}
    /\ aborted_txns = {}
    /\ snapshot = [t \in Txns |-> NoSnapshot]
    /\ write_set = [t \in Txns |-> {}]
    /\ versions = [k \in Keys |-> <<>>]

BeginTransaction ==
    /\ next_txn_id \in Txns
    /\ next_txn_id' = next_txn_id + 1
    /\ snapshot' = [snapshot EXCEPT ![next_txn_id] =
                       [active |-> active_txns, committed |-> committed_txns]]
    /\ active_txns' = active_txns \union {next_txn_id}
    /\ UNCHANGED <<committed_txns, aborted_txns, write_set, versions>>

(* commit_transaction.  Its conflict check looks for COMMITTED transactions  *)
(* among the active ones; a transaction leaves _active_txns in the step that *)
(* makes it COMMITTED, so the check never finds one.                         *)
CommitTransaction(t) ==
    /\ t \in active_txns
    /\ committed_txns' = committed_txns \union {t}
    /\ active_txns' = active_txns \ {t}
    /\ UNCHANGED <<next_txn_id, aborted_txns, snapshot, write_set, versions>>

AbortTransaction(t) ==
    /\ t \in active_txns
    /\ aborted_txns' = aborted_txns \union {t}
    /\ active_txns' = active_txns \ {t}
    /\ versions' = [k \in Keys |-> RolledBack(versions[k], t)]
    /\ UNCHANGED <<next_txn_id, committed_txns, snapshot, write_set>>

(* write_version; with a conflict it returns False and changes nothing.      *)
WriteVersion(t, k, payload) ==
    /\ t \in active_txns
    /\ Disciplined(t, k)
    /\ Len(versions[k]) < MaxVersions
    /\ ~HasConflict(k, t)
    /\ versions' = [versions EXCEPT ![k] =
          <<[data |-> <<t, payload>>, xmin |-> t, xmax |-> 0]>> \o Superseded(@, t)]
    /\ write_set' = [write_set EXCEPT ![t] = @ \union {k}]
    /\ UNCHANGED txnVars

(* delete_version; it returns False for a key without versions, too.         *)
DeleteVersion(t, k) ==
    /\ t \in active_txns
    /\ Disciplined(t, k)
    /\ versions[k] # <<>>
    /\ ~HasConflict(k, t)
    /\ versions' = [versions EXCEPT ![k] = Superseded(@, t)]
    /\ write_set' = [write_set EXCEPT ![t] = @ \union {k}]
    /\ UNCHANGED txnVars

GarbageCollect ==
    /\ versions' = [k \in Keys |-> Collected(versions[k])]
    /\ versions' # versions
    /\ UNCHANGED <<txnVars, write_set>>

Next ==
    \/ BeginTransaction
    \/ \E t \in Txns: \/ CommitTransaction(t)
                      \/ AbortTransaction(t)
                      \/ \E k \in Keys: \/ \E p \in Payloads: WriteVersion(t, k, p)
                                        \/ DeleteVersion(t, k)
    \/ GarbageCollect

Spec == Init /\ [][Next]_vars

----------------------------------------------------------------------------
TypeOK ==
    /\ next_txn_id \in 1..(MaxTxns + 1)
    /\ active_txns \subseteq Txns
    /\ committed_txns \subseteq Txns
    /\ aborted_txns \subseteq Txns
    /\ snapshot \in [Txns -> [active : SUBSET Txns, committed : SUBSET Txns]]
    /\ write_set \in [Txns -> SUBSET Keys]
    /\ versions \in [Keys -> Seq(Version)]

(* Along a chain, a version was ended by the transaction that created the    *)
(* next one; rollback and garbage collection keep it so.                     *)
ChainsAreLinked ==
    \A k \in Keys: \A i \in 1..(Len(versions[k]) - 1):
        versions[k][i + 1].xmax = versions[k][i].xmin

(* What a transaction that began now would read.                             *)
VisibleToAll(v) ==
    v.xmin \in committed_txns /\ v.xmax \notin committed_txns

CommittedData(k) ==
    LET seen == {i \in DOMAIN versions[k] : VisibleToAll(versions[k][i])}
    IN  IF seen = {} THEN Absent
        ELSE versions[k][CHOOSE i \in seen: \A j \in seen: i <= j].data

(* What each transaction in progress reads.                                  *)
Views ==
    [t \in Txns |-> [k \in Keys |-> IF t \in active_txns THEN ReadVersion(t, k)
                                                         ELSE Absent]]

SI == INSTANCE SnapshotIsolation
        WITH db <- [k \in Keys |-> CommittedData(k)],
             view <- Views,
             written <- write_set,
             active <- active_txns,
             committed <- committed_txns,
             seen <- [t \in Txns |-> snapshot[t].committed]

(* The version chains give every transaction snapshot isolation: stable      *)
(* reads of its snapshot and its own writes, atomic commit, complete         *)
(* rollback, and no two concurrent committed writers of one key.             *)
ImplementsSnapshotIsolation == SI!Spec

(* A version of an aborted transaction is in no chain ("Abort a transaction  *)
(* and roll back its changes", mvcc.py:236).                                 *)
NoAbortedVersions ==
    \A k \in Keys: \A i \in DOMAIN versions[k]:
        versions[k][i].xmin \notin aborted_txns

(* The chains are well formed after every write, rollback and collection,      *)
(* whichever transactions went through them before (mvcc.py:236-268).        *)
VersionsAreSound == TypeOK /\ ChainsAreLinked /\ NoAbortedVersions

(* A transaction reads back what it just wrote, and nothing where it just    *)
(* deleted, whoever else works on the chain.                                 *)
ReadYourWrites ==
    [][\A t \in Txns: \A k \in Keys:
          /\ \A p \in Payloads: WriteVersion(t, k, p) => ReadVersion(t, k)' = <<t, p>>
          /\ DeleteVersion(t, k) => ReadVersion(t, k)' = Absent]_vars

(* A transaction reads a key it has not written the same way until it ends   *)
(* ("each transaction reads from a consistent snapshot", mvcc.py:25).        *)
RepeatableReads ==
    [][\A t \in active_txns \cap active_txns': \A k \in Keys:
          k \notin write_set'[t] => ReadVersion(t, k)' = ReadVersion(t, k)]_vars

(* Garbage collection changes nothing that an active transaction can read    *)
(* ("No active transaction can see it", mvcc.py:360).                        *)
GarbageIsInvisible ==
    [][GarbageCollect => \A t \in active_txns: \A k \in Keys:
          ReadVersion(t, k)' = ReadVersion(t, k)]_vars

(* First-updater-wins: of two concurrent transactions that wrote the same    *)
(* key at most one commits ("Write-write conflicts are detected and one      *)
(* transaction is aborted", mvcc.py:13).                                     *)
FirstUpdaterWins ==
    \A t, u \in committed_txns:
        /\ t # u
        /\ u \notin snapshot[t].committed
        /\ t \notin snapshot[u].committed
        => write_set[t] \cap write_set[u] = {}
=============================================================================
