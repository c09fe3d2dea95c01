--------------------------------- MODULE WAL ---------------------------------
(***************************************************************************)
(* pysql.storage.wal.WALManager: the log buffer, the log file, and what a    *)
(* new process finds in the file.                                           *)
(*                                                                          *)
(* A record is what recovery looks at: its LSN, the LSN of the transaction's *)
(* record before it, the transaction, the type.  The bytes of a record       *)
(* matter in two places: whether the reader can take the header apart, and   *)
(* where a write that a crash cut short ends.                               *)
(***************************************************************************)
EXTENDS Integers, Sequences, FiniteSets

CONSTANTS
    LogHeaderSize,  \* LOG_HEADER_SIZE: bytes deserialize unpacks as a header
    Txns,           \* transactions; each is used once
    MaxLsn,         \* bound: records appended by one process
    MaxFile,        \* bound: records in the file
    MaxCrashes,     \* bound: crashes
    TornWrites,     \* TRUE: a crash may cut a record in two
    DiskErrors,     \* TRUE: a flush may fail after some records, and be retried
    Truncates       \* TRUE: the log is truncated after a checkpoint

ASSUME WALAssumption ==
    /\ LogHeaderSize \in Nat
    /\ MaxLsn \in Nat /\ MaxFile \in Nat /\ MaxCrashes \in Nat
    /\ {TornWrites, DiskErrors, Truncates} \subseteq BOOLEAN
    /\ 0 \notin Txns

VARIABLES
    next_lsn,       \* _next_lsn
    flushed_lsn,    \* _flushed_lsn
    buffer,         \* _buffer
    txn_table,      \* _txn_table: the last LSN of each transaction
    file,           \* the log file, as the pieces that were written to it
    recovered,      \* what recover() returned when this process started
    status,         \* callers: which transactions run
    acked,          \* callers: transactions whose log_commit returned
    crashes         \* crashes so far

vars == <<next_lsn, flushed_lsn, buffer, txn_table, file, recovered, status,
          acked, crashes>>

(* log_insert, log_delete and log_update differ in data recovery ignores.    *)
Types == {"BEGIN", "COMMIT", "ABORT", "CHANGE", "CHECKPOINT"}
NoTxn == 0
LogRecord == [lsn : Nat, prev_lsn : Nat, txn : Txns \union {NoTxn}, type : Types]

(* A piece of the file: a whole record, one cut before its last data field,  *)
(* or one cut later, in its redo data or trailing length.                    *)
Piece == [record : LogRecord, cut : {"no", "early", "late"}]

Written(records) == [i \in DOMAIN records |-> [record |-> records[i], cut |-> "no"]]

----------------------------------------------------------------------------
(* LogRecord.deserialize: struct.unpack wants exactly the bytes of ">qIBqIIH". *)
StructSize == 8 + 4 + 1 + 8 + 4 + 4 + 2
Unpackable == LogHeaderSize = StructSize

(* read_all: the records up to the first one that does not parse.  A record  *)
(* cut late still parses, with less data, and hides what follows it: the     *)
(* reader then starts in the middle of the next record.                      *)
ReadableButLast(f) ==            \* fault: the last record is not read
    IF Len(f) = 0 THEN 0 ELSE Len(f) - 1

ReadableLength(f) ==
    LET cuts == {i \in DOMAIN f : f[i].cut # "no"}
    IN  IF ~Unpackable THEN 0
        ELSE IF cuts = {} THEN Len(f)
        ELSE LET first == CHOOSE i \in cuts: \A j \in cuts: i <= j
             IN  IF f[first].cut = "late" THEN first ELSE first - 1

ReadAll(f) == [i \in 1..ReadableLength(f) |-> f[i].record]

(* fault: the transactions that were active at the crash are forgotten       *)
RecoveredEnded(records) ==
    LET txns(type) == {records[i].txn : i \in {j \in DOMAIN records : records[j].type = type}}
    IN  [committed |-> txns("COMMIT"), aborted |-> txns("ABORT")]

(* recover: the analysis pass.  The transactions that began and neither      *)
(* committed nor aborted count as aborted.                                   *)
Recovered(records) ==
    LET of(type) == {i \in DOMAIN records : records[i].type = type}
        txns(I) == {records[i].txn : i \in I}
        open == {i \in of("BEGIN") :
                    \A j \in of("COMMIT") \union of("ABORT"):
                        j > i => records[j].txn # records[i].txn}
    IN  [committed |-> txns(of("COMMIT")), aborted |-> txns(of("ABORT") \union open)]

(* fault: a record is chained to the record before it, whose-ever it is      *)
AppendedToLast(txn, type) ==
    Append(buffer, [lsn |-> next_lsn, prev_lsn |-> next_lsn - 1,
                    txn |-> txn, type |-> type])

(* append: the next LSN, chained to the transaction's previous record.       *)
Appended(txn, type) ==
    Append(buffer, [lsn |-> next_lsn, prev_lsn |-> txn_table[txn],
                    txn |-> txn, type |-> type])

CanAppend == next_lsn <= MaxLsn /\ Len(file) + Len(buffer) < MaxFile

Assign(txn) ==
    /\ CanAppend
    /\ next_lsn' = next_lsn + 1
    /\ txn_table' = [txn_table EXCEPT ![txn] = next_lsn]

(* fault: the record appended last misses the flush                          *)
FlushOfEarlier(records) ==
    /\ file' = file \o Written(buffer)
    /\ flushed_lsn' = IF records = <<>> THEN flushed_lsn ELSE records[Len(records)].lsn
    /\ buffer' = <<>>

(* fault: flushed_lsn is taken from next_lsn                                 *)
FlushOfNext(records) ==
    /\ file' = file \o Written(records)
    /\ flushed_lsn' = next_lsn
    /\ buffer' = <<>>

(* flush of these records: all of them reach stable storage.                 *)
FlushOf(records) ==
    /\ file' = file \o Written(records)
    /\ flushed_lsn' = IF records = <<>> THEN flushed_lsn ELSE records[Len(records)].lsn
    /\ buffer' = <<>>

----------------------------------------------------------------------------
NothingLogged == [t \in Txns \union {NoTxn} |-> 0]

Init ==
    /\ next_lsn = 1
    /\ flushed_lsn = 0
    /\ buffer = <<>>
    /\ txn_table = NothingLogged
    /\ file = <<>>
    /\ recovered = [committed |-> {}, aborted |-> {}]
    /\ status = [t \in Txns |-> "new"]
    /\ acked = {}
    /\ crashes = 0

(* log_begin, log_abort, log_insert, log_delete, log_update: buffered only.  *)
LogBuffered(t, type, from, to) ==
    /\ status[t] = from
    /\ Assign(t)
    /\ buffer' = Appended(t, type)
    /\ status' = [status EXCEPT ![t] = to]
    /\ UNCHANGED <<flushed_lsn, file, recovered, acked, crashes>>

LogBegin(t) == LogBuffered(t, "BEGIN", "new", "running")
LogChange(t) == LogBuffered(t, "CHANGE", "running", "running")
LogAbort(t) == LogBuffered(t, "ABORT", "running", "ended")

(* log_commit: append and flush; when it returns the caller may tell.        *)
LogCommit(t) ==
    /\ status[t] = "running"
    /\ Assign(t)
    /\ FlushOf(Appended(t, "COMMIT"))
    /\ status' = [status EXCEPT ![t] = "ended"]
    /\ acked' = acked \union {t}
    /\ UNCHANGED <<recovered, crashes>>

(* log_checkpoint: a record of no transaction, flushed.                      *)
LogCheckpoint ==
    /\ Assign(NoTxn)
    /\ FlushOf(Appended(NoTxn, "CHECKPOINT"))
    /\ UNCHANGED <<recovered, status, acked, crashes>>

Flush ==
    /\ buffer # <<>>
    /\ FlushOf(buffer)
    /\ UNCHANGED <<next_lsn, txn_table, recovered, status, acked, crashes>>

(* A flush that raises leaves the records it wrote in the file, the last of  *)
(* them maybe cut, and all of them in the buffer.                            *)
CutTail(records, n, kind) ==
    IF kind = "no" THEN <<>> ELSE <<[record |-> records[n + 1], cut |-> kind]>>

PartOf(records, n, kind) ==
    Written(SubSeq(records, 1, n)) \o CutTail(records, n, kind)

CutKinds(records, n) ==
    IF TornWrites /\ n < Len(records) THEN {"no", "early", "late"} ELSE {"no"}

FlushFailure(records) ==
    /\ DiskErrors
    /\ \E n \in 0..Len(records): \E kind \in CutKinds(records, n):
          /\ Len(file) + n + Len(records) < MaxFile
          /\ file' = file \o PartOf(records, n, kind)
    /\ buffer' = records
    /\ UNCHANGED flushed_lsn

FlushFails ==
    /\ buffer # <<>>
    /\ FlushFailure(buffer)
    /\ UNCHANGED <<next_lsn, txn_table, recovered, status, acked, crashes>>

(* log_commit or log_checkpoint whose flush raises: the record is appended,   *)
(* and the caller is not told that the transaction committed.                *)
LogCommitFails(t) ==
    /\ status[t] = "running"
    /\ Assign(t)
    /\ FlushFailure(Appended(t, "COMMIT"))
    /\ status' = [status EXCEPT ![t] = "ended"]
    /\ UNCHANGED <<recovered, acked, crashes>>

LogCheckpointFails ==
    /\ Assign(NoTxn)
    /\ FlushFailure(Appended(NoTxn, "CHECKPOINT"))
    /\ UNCHANGED <<recovered, status, acked, crashes>>

(* truncate, "called after checkpoint": the data file answers for what was   *)
(* committed before.                                                        *)
Truncate ==
    /\ Truncates
    /\ file # <<>>
    /\ file[Len(file)].record.type = "CHECKPOINT" /\ file[Len(file)].cut = "no"
    /\ buffer = <<>>
    /\ file' = <<>>
    /\ flushed_lsn' = 0
    /\ acked' = {}
    /\ UNCHANGED <<next_lsn, buffer, txn_table, recovered, status, crashes>>

(* The process dies, maybe in the middle of a flush, and a new one opens the *)
(* log: __init__ with _recover_lsn, then recover.                            *)
Crash ==
    /\ crashes < MaxCrashes
    /\ crashes' = crashes + 1
    /\ \E n \in 0..Len(buffer): \E kind \in CutKinds(buffer, n):
          file' = file \o PartOf(buffer, n, kind)
    /\ LET records == ReadAll(file')
           last == IF records = <<>> THEN 0 ELSE records[Len(records)].lsn
       IN  /\ recovered' = Recovered(records)
           /\ next_lsn' = last + 1
           /\ flushed_lsn' = last
    /\ buffer' = <<>>
    /\ txn_table' = NothingLogged
    /\ status' = [t \in Txns |-> IF status[t] = "running" THEN "ended" ELSE status[t]]
    /\ UNCHANGED acked

Next ==
    \/ \E t \in Txns: LogBegin(t) \/ LogChange(t) \/ LogAbort(t)
                      \/ LogCommit(t) \/ LogCommitFails(t)
    \/ LogCheckpoint
    \/ LogCheckpointFails
    \/ Flush
    \/ FlushFails
    \/ Truncate
    \/ Crash

Spec == Init /\ [][Next]_vars

----------------------------------------------------------------------------
TypeOK ==
    /\ next_lsn \in Nat \ {0}
    /\ flushed_lsn \in Nat
    /\ buffer \in Seq(LogRecord)
    /\ txn_table \in [Txns \union {NoTxn} -> Nat]
    /\ file \in Seq(Piece)
    /\ recovered \in [committed : SUBSET (Txns \union {NoTxn}),
                      aborted : SUBSET (Txns \union {NoTxn})]
    /\ status \in [Txns -> {"new", "running", "ended"}]
    /\ acked \subseteq Txns
    /\ crashes \in 0..MaxCrashes

WholeRecords == {file[i].record : i \in {j \in DOMAIN file : file[j].cut = "no"}}

(* The record of its transaction before r is among these records, or was     *)
(* dropped with all others of its age when the log was truncated.            *)
Traced(r, records) ==
    \/ r.prev_lsn = 0
    \/ \A q \in records: q.lsn > r.prev_lsn
    \/ \E q \in records: q.lsn = r.prev_lsn /\ q.txn = r.txn

WholeBefore(n) == {file[i].record : i \in {j \in 1..(n - 1) : file[j].cut = "no"}}

(* A commit that log_commit acknowledged has its COMMIT record in the file    *)
(* until the log is truncated, behind the transaction's other records        *)
(* ("After flush() returns, all buffered records are guaranteed to be on     *)
(* stable storage", wal.py:290).                                            *)
AckedCommitsAreDurable ==
    \A t \in acked: \E i \in DOMAIN file:
        /\ file[i].cut = "no"
        /\ file[i].record.type = "COMMIT" /\ file[i].record.txn = t
        /\ Traced(file[i].record, WholeBefore(i))

(* flushed_lsn does not run ahead of the file: its record is in the file, and *)
(* the buffer holds exactly the records of this process after it, in LSN     *)
(* order.  A page whose LSN is at most flushed_lsn may be written.           *)
FlushedLsnIsHonest ==
    /\ flushed_lsn # 0 => \E r \in WholeRecords: r.lsn = flushed_lsn
    /\ \A i \in DOMAIN buffer:
          /\ buffer[i].lsn > flushed_lsn
          /\ buffer[i].lsn = next_lsn - 1 - Len(buffer) + i

(* Each buffered record is chained to its transaction's record before it     *)
(* ("Previous LSN for this transaction", wal.py:76), which is in the file or  *)
(* the buffer unless the log was truncated since: undo can follow it back.   *)
UndoChainIsComplete ==
    \A i \in DOMAIN buffer:
        Traced(buffer[i], WholeRecords \union {buffer[j] : j \in 1..(i - 1)})

(* "Monotonically increasing sequence number" (wal.py:73): along the file no *)
(* two records carry the same LSN, and they come in LSN order.               *)
LsnsIncrease ==
    \A i, j \in DOMAIN file:
        i < j /\ file[i].cut = "no" /\ file[j].cut = "no" =>
            file[i].record.lsn < file[j].record.lsn

(* A new process recovers every acknowledged commit as committed and not as  *)
(* aborted ("assert 1 in committed", tests/test_pysql.py:511).               *)
RecoveryFindsCommits ==
    [][crashes' # crashes =>
          acked \subseteq recovered'.committed \ recovered'.aborted]_vars

(* ... and finds every other transaction that reached the file to roll back  *)
(* ("assert 2 in aborted", tests/test_pysql.py:512).                         *)
RecoveryFindsLosers ==
    [][crashes' # crashes =>
          \A i \in DOMAIN file':
              file'[i].record.type = "BEGIN" /\ file'[i].cut = "no" =>
                  LET t == file'[i].record.txn
                  IN  (t \in recovered'.committed) # (t \in recovered'.aborted)]_vars

(* Whatever was in the buffer when the process died, the next one sorts the   *)
(* transactions of the file into committed and aborted as they were           *)
(* (wal.py:345-367).                                                        *)
RecoveryIsRight == RecoveryFindsCommits /\ RecoveryFindsLosers
=============================================================================
