------------------------------ MODULE WALProofs ------------------------------
(***************************************************************************)
(* The log keeps its promises for any number of transactions, records and    *)
(* crashes, with torn writes, failed flushes and truncation.                 *)
(*                                                                          *)
(* What a transaction logs next is chained to txn_table, so that the chain   *)
(* is unbroken is a property of the table: the record it names is in the     *)
(* file or in the buffer, or is older than everything there, the log having   *)
(* been truncated since.  LSNs say what is older: those of the buffer end in  *)
(* next_lsn - 1 and leave no gap, also while records a failed flush has       *)
(* already written wait in the buffer to be written again.                    *)
(***************************************************************************)
EXTENDS WAL, SequenceFacts, TLAPS

Owners == Txns \union {NoTxn}

InBuffer(buf) == {buf[i] : i \in DOMAIN buf}

(* The table names the last record of each transaction.                      *)
TableIsCurrent(buf, next, table, whole) ==
    \A t \in Owners:
        /\ table[t] < next
        /\ Traced([txn |-> t, prev_lsn |-> table[t]], whole \union InBuffer(buf))

(* The buffer holds the latest LSNs, and each record leads further back.      *)
BufferIsConsecutive(buf, next) ==
    \A i \in DOMAIN buf: /\ buf[i].lsn = next - 1 - Len(buf) + i
                         /\ buf[i].prev_lsn < buf[i].lsn

BufferIsChained(buf, whole) ==
    \A i \in DOMAIN buf: Traced(buf[i], whole \union {buf[j] : j \in 1..(i - 1)})

(* A buffer, the next LSN, the table, the records in the file and the last    *)
(* LSN known to be there fit together.                                       *)
Sound(buf, next, table, whole, flushed) ==
    /\ buf \in Seq(LogRecord) /\ next \in Nat /\ flushed \in Nat
    /\ table \in [Owners -> Nat]
    /\ flushed + Len(buf) < next
    /\ BufferIsConsecutive(buf, next)
    /\ BufferIsChained(buf, whole)
    /\ TableIsCurrent(buf, next, table, whole)

LogInv ==
    /\ TypeOK
    /\ Sound(buffer, next_lsn, txn_table, WholeRecords, flushed_lsn)
    /\ AckedCommitsAreDurable

(* The whole records among the first n pieces of a file.                     *)
Whole(f, n) == {f[i].record : i \in {j \in 1..n : f[j].cut = "no"}}

----------------------------------------------------------------------------
(* A record stays traceable when newer records join those it leads to.       *)
LEMMA TracedGrows ==
    ASSUME NEW r, NEW S, NEW T, Traced(r, S), S \subseteq T,
           \A q \in T \ S: q.lsn > r.prev_lsn
    PROVE  Traced(r, T)
BY DEF Traced

(* Written turns records into whole pieces.                                  *)
LEMMA WrittenIsWhole ==
    ASSUME NEW records \in Seq(LogRecord)
    PROVE  /\ Written(records) \in Seq(Piece)
           /\ Len(Written(records)) = Len(records)
           /\ \A i \in DOMAIN records: Written(records)[i] = [record |-> records[i], cut |-> "no"]
<1>1. Written(records) = [i \in 1..Len(records) |-> [record |-> records[i], cut |-> "no"]]
  BY DEF Written
<1>2. \A i \in 1..Len(records): [record |-> records[i], cut |-> "no"] \in Piece
  BY DEF Piece
<1>3. Written(records) \in Seq(Piece)
  BY <1>1, <1>2, IsASeq
<1> QED BY <1>1, <1>3

(* What a failed flush or a crash leaves of the records: the first n, whole,  *)
(* and maybe a piece of the next.                                            *)
LEMMA PartIsPrefix ==
    ASSUME NEW records \in Seq(LogRecord), NEW n \in 0..Len(records),
           NEW kind \in CutKinds(records, n)
    PROVE  /\ PartOf(records, n, kind) \in Seq(Piece)
           /\ Len(PartOf(records, n, kind)) \in {n, n + 1}
           /\ \A i \in 1..n: PartOf(records, n, kind)[i] = [record |-> records[i], cut |-> "no"]
           /\ Len(PartOf(records, n, kind)) = n + 1 =>
                 TornWrites /\ PartOf(records, n, kind)[n + 1].cut # "no"
<1> DEFINE head == SubSeq(records, 1, n)
           tail == CutTail(records, n, kind)
<1>1. /\ head \in Seq(LogRecord) /\ Len(head) = n
      /\ \A i \in 1..n: head[i] = records[i]
  BY SubSeqProperties
<1> HIDE DEF head
<1>2. /\ Written(head) \in Seq(Piece) /\ Len(Written(head)) = n
      /\ \A i \in 1..n: Written(head)[i] = [record |-> records[i], cut |-> "no"]
  BY <1>1, WrittenIsWhole
<1>3. /\ tail \in Seq(Piece)
      /\ kind = "no" => Len(tail) = 0
      /\ kind # "no" => TornWrites /\ Len(tail) = 1 /\ tail[1].cut # "no"
  <2>1. CASE kind = "no"
    BY <2>1 DEF CutTail
  <2>2. CASE kind # "no"
    <3>1. TornWrites /\ n + 1 \in 1..Len(records) /\ kind \in {"no", "early", "late"}
      BY <2>2 DEF CutKinds
    <3>2. [record |-> records[n + 1], cut |-> kind] \in Piece
      BY <3>1 DEF Piece
    <3> QED BY <2>2, <3>1, <3>2 DEF CutTail
  <2> QED BY <2>1, <2>2
<1>4. PartOf(records, n, kind) = Written(head) \o tail
  BY DEF PartOf, head
<1> DEFINE w == Written(head)
           p == PartOf(records, n, kind)
<1>5. w \in Seq(Piece) /\ tail \in Seq(Piece) /\ p = w \o tail
  BY <1>2, <1>3, <1>4
<1> HIDE DEF tail, w, p
<1>6. /\ p \in Seq(Piece) /\ Len(p) = Len(w) + Len(tail)
      /\ \A i \in 1..Len(w): p[i] = w[i]
      /\ \A i \in 1..Len(tail): p[Len(w) + i] = tail[i]
  <2>1. /\ w \o tail \in Seq(Piece) /\ Len(w \o tail) = Len(w) + Len(tail)
        /\ \A i \in 1..Len(w): (w \o tail)[i] = w[i]
        /\ \A i \in 1..Len(tail): (w \o tail)[Len(w) + i] = tail[i]
    BY <1>5, ConcatParts
  <2> QED BY <1>5, <2>1, Zenon
<1>7. /\ Len(w) = n /\ \A i \in 1..n: w[i] = [record |-> records[i], cut |-> "no"]
      /\ Len(tail) = 0 \/ (Len(tail) = 1 /\ TornWrites /\ tail[1].cut # "no")
  BY <1>2, <1>3 DEF w
<1>8. /\ p \in Seq(Piece)
      /\ Len(p) \in {n, n + 1}
      /\ \A i \in 1..n: p[i] = [record |-> records[i], cut |-> "no"]
      /\ Len(p) = n + 1 => TornWrites /\ p[n + 1].cut # "no"
  <2>1. p \in Seq(Piece) /\ \A i \in 1..n: p[i] = [record |-> records[i], cut |-> "no"]
    BY <1>6, <1>7
  <2>2. CASE Len(tail) = 0
    BY <1>6, <1>7, <2>1, <2>2
  <2>3. CASE Len(tail) = 1 /\ TornWrites /\ tail[1].cut # "no"
    <3>1. p[n + 1] = tail[1] /\ Len(p) = n + 1
      BY <1>6, <1>7, <2>3
    <3> QED BY <2>1, <2>3, <3>1
  <2> QED BY <1>7, <2>2, <2>3
<1> QED BY <1>8 DEF p

(* The whole records of a longer file.                                       *)
LEMMA WholeOfConcat ==
    ASSUME NEW f \in Seq(Piece), NEW p \in Seq(Piece), NEW n \in 0..Len(p)
    PROVE  Whole(f \o p, Len(f) + n) = Whole(f, Len(f)) \union Whole(p, n)
<1> DEFINE g == f \o p
<1>1. /\ g \in Seq(Piece) /\ Len(g) = Len(f) + Len(p)
      /\ \A i \in 1..Len(f): g[i] = f[i]
      /\ \A i \in (Len(f) + 1)..(Len(f) + Len(p)): g[i] = p[i - Len(f)]
      /\ \A i \in 1..Len(p): g[Len(f) + i] = p[i]
      /\ Len(f) \in Nat /\ Len(p) \in Nat
  BY ConcatParts
<1> HIDE DEF g
<1>2. ASSUME NEW i \in 1..(Len(f) + n), g[i].cut = "no"
      PROVE  g[i].record \in Whole(f, Len(f)) \union Whole(p, n)
  <2>1. CASE i <= Len(f)
    <3>1. i \in 1..Len(f) /\ g[i] = f[i]
      BY <1>1, <2>1
    <3> QED BY <1>2, <3>1 DEF Whole
  <2>2. CASE i > Len(f)
    <3>1. i - Len(f) \in 1..n /\ g[i] = p[i - Len(f)]
      BY <1>1, <2>2
    <3> QED BY <1>2, <3>1 DEF Whole
  <2> QED BY <1>1, <2>1, <2>2
<1>3. ASSUME NEW i \in 1..Len(f), f[i].cut = "no" PROVE f[i].record \in Whole(g, Len(f) + n)
  <2>1. i \in 1..(Len(f) + n) /\ g[i] = f[i]
    BY <1>1
  <2> QED BY <1>3, <2>1 DEF Whole
<1>4. ASSUME NEW i \in 1..n, p[i].cut = "no" PROVE p[i].record \in Whole(g, Len(f) + n)
  <2>1. Len(f) + i \in 1..(Len(f) + n) /\ g[Len(f) + i] = p[i]
    BY <1>1
  <2> QED BY <1>4, <2>1 DEF Whole
<1>5. Whole(g, Len(f) + n) = Whole(f, Len(f)) \union Whole(p, n)
  BY <1>2, <1>3, <1>4 DEF Whole
<1> QED BY <1>5 DEF g

(* The file only grows at its end, but for truncation.                       *)
LEMMA FileGrows ==
    ASSUME file \in Seq(Piece), NEW p \in Seq(Piece), file' = file \o p
    PROVE  /\ file' \in Seq(Piece)
           /\ Len(file') = Len(file) + Len(p)
           /\ \A i \in 1..Len(file): file'[i] = file[i] /\ WholeBefore(i)' = WholeBefore(i)
           /\ \A i \in 1..Len(p): file'[Len(file) + i] = p[i]
           /\ WholeRecords' = WholeRecords \union Whole(p, Len(p))
<1>1. /\ file' \in Seq(Piece) /\ Len(file') = Len(file) + Len(p)
      /\ \A i \in 1..Len(file): file'[i] = file[i]
      /\ \A i \in 1..Len(p): file'[Len(file) + i] = p[i]
      /\ Len(p) \in Nat
  BY ConcatParts
<1>2. ASSUME NEW i \in 1..Len(file) PROVE WholeBefore(i)' = WholeBefore(i)
  <2>1. \A j \in 1..(i - 1): file'[j] = file[j]
    BY <1>1
  <2> QED BY <2>1 DEF WholeBefore
<1>3. WholeRecords = Whole(file, Len(file)) /\ WholeRecords' = Whole(file', Len(file'))
  BY <1>1 DEF WholeRecords, Whole
<1>4. Whole(file', Len(file')) = Whole(file, Len(file)) \union Whole(p, Len(p))
  BY <1>1, WholeOfConcat
<1> QED BY <1>1, <1>2, <1>3, <1>4

----------------------------------------------------------------------------
(* append: one more record, chained to its transaction's last.               *)
LEMMA AppendIsSound ==
    ASSUME NEW t \in Owners, NEW type \in Types, NEW W,
           Sound(buffer, next_lsn, txn_table, W, flushed_lsn), Assign(t)
    PROVE  Sound(Appended(t, type), next_lsn', txn_table', W, flushed_lsn)
<1> DEFINE r == [lsn |-> next_lsn, prev_lsn |-> txn_table[t], txn |-> t, type |-> type]
           buf == Append(buffer, r)
<1>1. /\ next_lsn' = next_lsn + 1
      /\ txn_table' = [txn_table EXCEPT ![t] = next_lsn]
      /\ Appended(t, type) = buf
  BY DEF Assign, Appended
<1>2. /\ buffer \in Seq(LogRecord) /\ next_lsn \in Nat /\ flushed_lsn \in Nat
      /\ txn_table \in [Owners -> Nat]
      /\ flushed_lsn + Len(buffer) < next_lsn
      /\ Len(buffer) \in Nat /\ DOMAIN buffer = 1..Len(buffer)
      /\ txn_table[t] < next_lsn
  BY LenProperties DEF Sound, TableIsCurrent
<1>3. r \in LogRecord
  BY <1>2 DEF LogRecord, Owners
<1>4. /\ buf \in Seq(LogRecord) /\ Len(buf) = Len(buffer) + 1
      /\ DOMAIN buf = 1..(Len(buffer) + 1)
      /\ \A i \in 1..Len(buffer): buf[i] = buffer[i]
      /\ buf[Len(buffer) + 1] = r
  BY <1>2, <1>3, AppendProperties
<1> HIDE DEF buf
<1>5. InBuffer(buf) = InBuffer(buffer) \union {r}
  <2>1. DOMAIN buf = 1..(Len(buffer) + 1) /\ DOMAIN buffer = 1..Len(buffer)
    BY <1>2, <1>4
  <2>2. 1..(Len(buffer) + 1) = (1..Len(buffer)) \union {Len(buffer) + 1}
    BY <1>2
  <2> QED BY <1>4, <2>1, <2>2 DEF InBuffer
<1>6. txn_table' \in [Owners -> Nat]
  BY <1>1, <1>2
<1>7. BufferIsConsecutive(buf, next_lsn')
  <2> SUFFICES ASSUME NEW i \in 1..(Len(buffer) + 1)
               PROVE  buf[i].lsn = next_lsn' - 1 - Len(buf) + i /\ buf[i].prev_lsn < buf[i].lsn
    BY <1>4 DEF BufferIsConsecutive
  <2>1. CASE i \in 1..Len(buffer)
    <3>1. buffer[i].lsn = next_lsn - 1 - Len(buffer) + i /\ buffer[i].prev_lsn < buffer[i].lsn
      BY <1>2, <2>1 DEF Sound, BufferIsConsecutive
    <3> QED BY <1>1, <1>2, <1>4, <2>1, <3>1
  <2>2. CASE i = Len(buffer) + 1
    BY <1>1, <1>2, <1>4, <2>2
  <2> QED BY <1>2, <2>1, <2>2
<1>8. BufferIsChained(buf, W)
  <2> SUFFICES ASSUME NEW i \in 1..(Len(buffer) + 1)
               PROVE  Traced(buf[i], W \union {buf[j] : j \in 1..(i - 1)})
    BY <1>4 DEF BufferIsChained
  <2>1. {buf[j] : j \in 1..(i - 1)} = {buffer[j] : j \in 1..(i - 1)}
    <3>1. \A j \in 1..(i - 1): buf[j] = buffer[j]
      BY <1>2, <1>4
    <3> QED BY <3>1
  <2>2. CASE i \in 1..Len(buffer)
    <3>1. Traced(buffer[i], W \union {buffer[j] : j \in 1..(i - 1)})
      BY <1>2, <2>2 DEF Sound, BufferIsChained
    <3> QED BY <1>4, <2>1, <2>2, <3>1
  <2>3. CASE i = Len(buffer) + 1
    <3>1. Traced([txn |-> t, prev_lsn |-> txn_table[t]], W \union InBuffer(buffer))
      BY DEF Sound, TableIsCurrent
    <3>2. 1..(i - 1) = DOMAIN buffer
      BY <1>2, <2>3
    <3>3. {buf[j] : j \in 1..(i - 1)} = InBuffer(buffer)
      BY <2>1, <3>2 DEF InBuffer
    <3> QED BY <1>4, <2>3, <3>1, <3>3 DEF Traced
  <2> QED BY <1>2, <2>2, <2>3
<1>9. TableIsCurrent(buf, next_lsn', txn_table', W)
  <2> SUFFICES ASSUME NEW o \in Owners
               PROVE  /\ txn_table'[o] < next_lsn'
                      /\ Traced([txn |-> o, prev_lsn |-> txn_table'[o]], W \union InBuffer(buf))
    BY DEF TableIsCurrent
  <2>1. CASE o = t
    <3>1. txn_table'[o] = next_lsn
      BY <1>1, <1>2, <2>1
    <3>2. r \in InBuffer(buf) /\ r.lsn = next_lsn /\ r.txn = t
      BY <1>5
    <3>3. Traced([txn |-> o, prev_lsn |-> next_lsn], W \union InBuffer(buf))
      BY <2>1, <3>2 DEF Traced
    <3> QED BY <1>1, <1>2, <3>1, <3>3
  <2>2. CASE o # t
    <3>1. txn_table'[o] = txn_table[o] /\ txn_table[o] \in Nat /\ txn_table[o] < next_lsn
      BY <1>1, <1>2, <2>2 DEF Sound, TableIsCurrent
    <3>2. Traced([txn |-> o, prev_lsn |-> txn_table[o]], W \union InBuffer(buffer))
      BY DEF Sound, TableIsCurrent
    <3>3. Traced([txn |-> o, prev_lsn |-> txn_table[o]], W \union InBuffer(buf))
      BY <1>5, <3>1, <3>2 DEF Traced
    <3> QED BY <1>1, <1>2, <3>1, <3>3
  <2> QED BY <2>1, <2>2
<1>10. flushed_lsn + Len(buf) < next_lsn'
  BY <1>1, <1>2, <1>4
<1> QED BY <1>1, <1>2, <1>4, <1>6, <1>7, <1>8, <1>9, <1>10 DEF Sound

(* flush: the buffer's records are in the file, and nothing is left.         *)
LEMMA FlushIsSound ==
    ASSUME NEW buf, NEW next, NEW table, NEW W, NEW flushed, NEW f,
           Sound(buf, next, table, W, flushed),
           f = IF buf = <<>> THEN flushed ELSE buf[Len(buf)].lsn
    PROVE  Sound(<<>>, next, table, W \union InBuffer(buf), f)
<1>1. /\ buf \in Seq(LogRecord) /\ next \in Nat /\ flushed \in Nat /\ Len(buf) \in Nat
      /\ table \in [Owners -> Nat] /\ flushed + Len(buf) < next
  BY DEF Sound
<1>2. f \in Nat /\ f < next
  <2>1. CASE buf = <<>>
    BY <1>1, <2>1
  <2>2. CASE buf # <<>>
    <3>1. Len(buf) \in DOMAIN buf
      BY <1>1, <2>2
    <3>2. buf[Len(buf)].lsn = next - 1
      BY <1>1, <3>1 DEF Sound, BufferIsConsecutive
    <3> QED BY <1>1, <2>2, <3>2
  <2> QED BY <2>1, <2>2
<1>3. InBuffer(<<>>) = {}
  BY DEF InBuffer
<1>4. TableIsCurrent(<<>>, next, table, W \union InBuffer(buf))
  BY <1>3 DEF Sound, TableIsCurrent
<1>5. BufferIsConsecutive(<<>>, next) /\ BufferIsChained(<<>>, W \union InBuffer(buf))
  BY DEF BufferIsConsecutive, BufferIsChained
<1> QED BY <1>1, <1>2, <1>4, <1>5 DEF Sound

(* A flush that fails: some of the buffer's records are in the file, too.    *)
LEMMA PartlyFlushedIsSound ==
    ASSUME NEW buf, NEW next, NEW table, NEW W, NEW X, NEW flushed,
           Sound(buf, next, table, W, flushed),
           W \subseteq X, X \subseteq W \union InBuffer(buf)
    PROVE  Sound(buf, next, table, X, flushed)
<1>1. buf \in Seq(LogRecord) /\ next \in Nat /\ Len(buf) \in Nat
  BY DEF Sound
<1>2. X \union InBuffer(buf) = W \union InBuffer(buf)
  OBVIOUS
<1>3. TableIsCurrent(buf, next, table, X)
  BY <1>2 DEF Sound, TableIsCurrent
<1>4. ASSUME NEW i \in DOMAIN buf
      PROVE  Traced(buf[i], X \union {buf[j] : j \in 1..(i - 1)})
  <2> DEFINE S == W \union {buf[j] : j \in 1..(i - 1)}
             T == X \union {buf[j] : j \in 1..(i - 1)}
  <2>1. Traced(buf[i], S) /\ S \subseteq T
    BY DEF Sound, BufferIsChained
  <2>2. ASSUME NEW q \in T \ S PROVE q.lsn > buf[i].prev_lsn
    <3>1. PICK k \in DOMAIN buf: q = buf[k] /\ k \notin 1..(i - 1)
      BY DEF InBuffer
    <3>2. k \in Nat /\ i \in Nat /\ k >= i
      BY <1>1, <3>1
    <3>3. /\ buf[k].lsn = next - 1 - Len(buf) + k
          /\ buf[i].lsn = next - 1 - Len(buf) + i /\ buf[i].prev_lsn < buf[i].lsn
      BY <3>1 DEF Sound, BufferIsConsecutive
    <3>4. buf[i] \in LogRecord
      BY <1>1, ElementOfSeq
    <3>5. buf[i].prev_lsn \in Nat
      BY <3>4 DEF LogRecord
    <3> QED BY <1>1, <3>1, <3>2, <3>3, <3>5
  <2> HIDE DEF S, T
  <2>3. Traced(buf[i], T)
    BY <2>1, <2>2, TracedGrows
  <2> QED BY <2>3 DEF T
<1> QED BY <1>3, <1>4 DEF Sound, BufferIsChained

----------------------------------------------------------------------------
(* The COMMIT record of t at position i of the file.                          *)
CommitAt(t, i) ==
    /\ file[i].cut = "no"
    /\ file[i].record.type = "COMMIT" /\ file[i].record.txn = t
    /\ Traced(file[i].record, WholeBefore(i))

(* Commits that were acknowledged stay where they are when the file grows.   *)
LEMMA AckedStay ==
    ASSUME LogInv, NEW p \in Seq(Piece), file' = file \o p, NEW t \in acked
    PROVE  \E i \in DOMAIN file': CommitAt(t, i)'
<1>1. file \in Seq(Piece) /\ DOMAIN file = 1..Len(file)
  BY LenProperties DEF LogInv, TypeOK
<1>2. /\ file' \in Seq(Piece) /\ Len(file') = Len(file) + Len(p)
      /\ \A i \in 1..Len(file): file'[i] = file[i] /\ WholeBefore(i)' = WholeBefore(i)
  BY <1>1, FileGrows
<1>3. PICK i \in 1..Len(file): CommitAt(t, i)
  BY <1>1 DEF LogInv, AckedCommitsAreDurable, CommitAt
<1>4. i \in DOMAIN file'
  BY <1>1, <1>2
<1>5. CommitAt(t, i)'
  BY <1>2, <1>3 DEF CommitAt
<1> QED BY <1>4, <1>5

(* What flush writes.                                                        *)
LEMMA FlushedFile ==
    ASSUME file \in Seq(Piece), NEW records \in Seq(LogRecord), FlushOf(records)
    PROVE  /\ Written(records) \in Seq(Piece) /\ file' = file \o Written(records)
           /\ file' \in Seq(Piece)
           /\ WholeRecords' = WholeRecords \union InBuffer(records)
<1>1. /\ Written(records) \in Seq(Piece) /\ Len(Written(records)) = Len(records)
      /\ \A i \in DOMAIN records: Written(records)[i] = [record |-> records[i], cut |-> "no"]
      /\ DOMAIN records = 1..Len(records)
  BY WrittenIsWhole, LenProperties
<1>2. file' = file \o Written(records)
  BY DEF FlushOf
<1>3. Whole(Written(records), Len(records)) = InBuffer(records)
  <2> DEFINE w == Written(records)
  <2>1. ASSUME NEW i \in 1..Len(records) PROVE w[i].cut = "no" /\ w[i].record = records[i]
    <3>1. w[i] = [record |-> records[i], cut |-> "no"]
      BY <1>1
    <3> QED BY <3>1
  <2> HIDE DEF w
  <2>2. {i \in 1..Len(records) : w[i].cut = "no"} = DOMAIN records
    BY <1>1, <2>1
  <2>3. \A i \in DOMAIN records: w[i].record = records[i]
    BY <1>1, <2>1
  <2>4. Whole(w, Len(records)) = InBuffer(records)
    BY <2>2, <2>3 DEF Whole, InBuffer
  <2> QED BY <2>4 DEF w
<1> QED BY <1>1, <1>2, <1>3, FileGrows

(* What a flush that fails has written.                                      *)
LEMMA PartlyWritten ==
    ASSUME file \in Seq(Piece), NEW records \in Seq(LogRecord), NEW n \in 0..Len(records),
           NEW kind \in CutKinds(records, n), file' = file \o PartOf(records, n, kind)
    PROVE  /\ \E p \in Seq(Piece): file' = file \o p
           /\ file' \in Seq(Piece)
           /\ WholeRecords \subseteq WholeRecords'
           /\ WholeRecords' \subseteq WholeRecords \union InBuffer(records)
<1> DEFINE p == PartOf(records, n, kind)
<1>1. /\ p \in Seq(Piece) /\ Len(p) \in {n, n + 1}
      /\ \A i \in 1..n: p[i] = [record |-> records[i], cut |-> "no"]
      /\ Len(p) = n + 1 => p[n + 1].cut # "no"
  BY PartIsPrefix
<1> HIDE DEF p
<1>2. file' = file \o p
  BY DEF p
<1>3. /\ file' \in Seq(Piece)
      /\ WholeRecords' = WholeRecords \union Whole(p, Len(p))
  BY <1>1, <1>2, FileGrows
<1>4. Whole(p, Len(p)) \subseteq InBuffer(records)
  <2> SUFFICES ASSUME NEW i \in 1..Len(p), p[i].cut = "no" PROVE p[i].record \in InBuffer(records)
    BY DEF Whole
  <2>1. i \in 1..n /\ n \in Nat /\ n <= Len(records)
    BY <1>1
  <2>2. i \in DOMAIN records
    BY <2>1, LenProperties
  <2>3. p[i] = [record |-> records[i], cut |-> "no"]
    BY <1>1, <2>1
  <2>4. p[i].record = records[i]
    BY <2>3
  <2> QED BY <2>2, <2>4 DEF InBuffer
<1> QED BY <1>1, <1>2, <1>3, <1>4

(* The log begins sound.                                                     *)
LEMMA LogInit == Init => LogInv
<1> SUFFICES ASSUME Init PROVE LogInv
  OBVIOUS
<1> USE DEF Init
<1>1. TypeOK
  BY WALAssumption DEF TypeOK, NothingLogged
<1>2. WholeRecords = {} /\ InBuffer(buffer) = {}
  BY DEF WholeRecords, InBuffer
<1>3. /\ TableIsCurrent(buffer, next_lsn, txn_table, WholeRecords)
      /\ BufferIsConsecutive(buffer, next_lsn)
      /\ BufferIsChained(buffer, WholeRecords)
  BY <1>2 DEF TableIsCurrent, BufferIsConsecutive, BufferIsChained, NothingLogged, Owners, Traced
<1>4. Sound(buffer, next_lsn, txn_table, WholeRecords, flushed_lsn)
  BY <1>1, <1>3 DEF Sound, TypeOK, Owners
<1>5. AckedCommitsAreDurable
  BY DEF AckedCommitsAreDurable
<1> QED BY <1>1, <1>4, <1>5 DEF LogInv

(* TypeOK is what Sound says and the types of the other variables.           *)
LEMMA TypesFromSound ==
    ASSUME Sound(buffer, next_lsn, txn_table, WholeRecords, flushed_lsn)',
           file' \in Seq(Piece),
           recovered' \in [committed : SUBSET (Txns \union {NoTxn}),
                           aborted : SUBSET (Txns \union {NoTxn})],
           status' \in [Txns -> {"new", "running", "ended"}],
           acked' \subseteq Txns, crashes' \in 0..MaxCrashes
    PROVE  TypeOK'
<1>1. /\ buffer' \in Seq(LogRecord) /\ next_lsn' \in Nat /\ flushed_lsn' \in Nat
      /\ txn_table' \in [Owners -> Nat] /\ flushed_lsn' + Len(buffer') < next_lsn'
  BY DEF Sound
<1>2. next_lsn' # 0
  BY <1>1
<1> QED BY <1>1, <1>2 DEF TypeOK, Owners

(* Steps that add to the file and acknowledge nothing.                       *)
LEMMA GrowthStep ==
    ASSUME LogInv, NEW p \in Seq(Piece), file' = file \o p, acked' = acked,
           Sound(buffer, next_lsn, txn_table, WholeRecords, flushed_lsn)',
           recovered' \in [committed : SUBSET (Txns \union {NoTxn}),
                           aborted : SUBSET (Txns \union {NoTxn})],
           status' \in [Txns -> {"new", "running", "ended"}],
           crashes' \in 0..MaxCrashes
    PROVE  LogInv'
<1>1. file' \in Seq(Piece)
  BY FileGrows DEF LogInv, TypeOK
<1>2. TypeOK'
  BY <1>1, TypesFromSound DEF LogInv, TypeOK
<1>3. \A t \in acked: \E i \in DOMAIN file': CommitAt(t, i)'
  BY AckedStay
<1>4. AckedCommitsAreDurable'
  BY <1>3 DEF AckedCommitsAreDurable, CommitAt
<1> QED BY <1>2, <1>4 DEF LogInv

(* log_begin, log_insert, log_delete, log_update, log_abort.                 *)
LEMMA BufferedStep ==
    ASSUME LogInv, NEW t \in Txns, NEW type \in Types, NEW from, NEW to \in {"running", "ended"},
           LogBuffered(t, type, from, to)
    PROVE  LogInv'
<1>1. Sound(buffer', next_lsn', txn_table', WholeRecords, flushed_lsn)
  BY AppendIsSound DEF LogBuffered, LogInv, Owners
<1>2. WholeRecords' = WholeRecords /\ flushed_lsn' = flushed_lsn
  BY DEF LogBuffered, WholeRecords
<1>3. Sound(buffer, next_lsn, txn_table, WholeRecords, flushed_lsn)'
  BY <1>1, <1>2
<1>4. file' = file \o <<>> /\ <<>> \in Seq(Piece)
  BY ConcatEmptySeq, EmptySeq DEF LogBuffered, LogInv, TypeOK
<1> QED BY <1>3, <1>4, GrowthStep DEF LogBuffered, LogInv, TypeOK

(* flush, of the buffer or of the buffer with a record at its end.           *)
LEMMA FlushStep ==
    ASSUME LogInv, NEW records, FlushOf(records), acked' = acked,
           Sound(records, next_lsn', txn_table', WholeRecords, flushed_lsn),
           recovered' = recovered, status' = status, crashes' = crashes
    PROVE  LogInv'
<1>1. file \in Seq(Piece) /\ records \in Seq(LogRecord)
  BY DEF LogInv, TypeOK, Sound
<1>2. /\ Written(records) \in Seq(Piece) /\ file' = file \o Written(records)
      /\ WholeRecords' = WholeRecords \union InBuffer(records)
  BY <1>1, FlushedFile
<1>3. /\ buffer' = <<>>
      /\ flushed_lsn' = IF records = <<>> THEN flushed_lsn ELSE records[Len(records)].lsn
  BY DEF FlushOf
<1>4. Sound(buffer, next_lsn, txn_table, WholeRecords, flushed_lsn)'
  BY <1>2, <1>3, FlushIsSound
<1> QED BY <1>2, <1>4, GrowthStep DEF LogInv, TypeOK

(* A flush that raises.                                                      *)
LEMMA FailureStep ==
    ASSUME LogInv, NEW records, FlushFailure(records), acked' = acked,
           Sound(records, next_lsn', txn_table', WholeRecords, flushed_lsn),
           recovered' = recovered, status' \in [Txns -> {"new", "running", "ended"}],
           crashes' = crashes
    PROVE  LogInv'
<1>1. file \in Seq(Piece) /\ records \in Seq(LogRecord)
  BY DEF LogInv, TypeOK, Sound
<1>2. PICK n \in 0..Len(records): \E kind \in CutKinds(records, n):
         file' = file \o PartOf(records, n, kind)
  BY DEF FlushFailure
<1>3. /\ \E p \in Seq(Piece): file' = file \o p
      /\ WholeRecords \subseteq WholeRecords'
      /\ WholeRecords' \subseteq WholeRecords \union InBuffer(records)
  BY <1>1, <1>2, PartlyWritten
<1>4. Sound(buffer, next_lsn, txn_table, WholeRecords, flushed_lsn)'
  <2>1. Sound(records, next_lsn', txn_table', WholeRecords', flushed_lsn)
    BY <1>3, PartlyFlushedIsSound
  <2> QED BY <2>1 DEF FlushFailure
<1> QED BY <1>3, <1>4, GrowthStep DEF LogInv, TypeOK

(* log_commit.                                                               *)
LEMMA CommitStep ==
    ASSUME LogInv, NEW t \in Txns, LogCommit(t)
    PROVE  LogInv'
<1> DEFINE records == Appended(t, "COMMIT")
<1>1. /\ Assign(t) /\ FlushOf(records) /\ acked' = acked \union {t}
      /\ status' = [status EXCEPT ![t] = "ended"]
      /\ recovered' = recovered /\ crashes' = crashes
  BY DEF LogCommit
<1>2. Sound(records, next_lsn', txn_table', WholeRecords, flushed_lsn)
  BY <1>1, AppendIsSound DEF LogInv, Owners, Types
<1>3. /\ file \in Seq(Piece) /\ buffer \in Seq(LogRecord) /\ records \in Seq(LogRecord)
      /\ DOMAIN buffer = 1..Len(buffer) /\ DOMAIN file = 1..Len(file)
      /\ Len(buffer) \in Nat /\ Len(file) \in Nat
  BY <1>2, LenProperties DEF Sound, LogInv, TypeOK
<1>4. /\ Written(records) \in Seq(Piece) /\ file' = file \o Written(records)
      /\ file' \in Seq(Piece)
      /\ WholeRecords' = WholeRecords \union InBuffer(records)
  BY <1>1, <1>3, FlushedFile
<1>5. Sound(buffer, next_lsn, txn_table, WholeRecords, flushed_lsn)'
  <2>1. /\ buffer' = <<>>
        /\ flushed_lsn' = IF records = <<>> THEN flushed_lsn ELSE records[Len(records)].lsn
    BY <1>1 DEF FlushOf
  <2> HIDE DEF records
  <2> QED BY <1>2, <1>4, <2>1, FlushIsSound
<1>6. TypeOK'
  BY <1>1, <1>4, <1>5, TypesFromSound DEF LogInv, TypeOK
<1>7. ASSUME NEW u \in acked PROVE \E i \in DOMAIN file': CommitAt(u, i)'
  BY <1>4, AckedStay
<1>8. \E i \in DOMAIN file': CommitAt(t, i)'
  <2> DEFINE n == Len(buffer)
             r == [lsn |-> next_lsn, prev_lsn |-> txn_table[t], txn |-> t, type |-> "COMMIT"]
  <2> PICK k \in Nat: k = Len(file) + n
    BY <1>3
  <2>1. /\ Len(records) = n + 1 /\ records[n + 1] = r
        /\ \A i \in 1..n: records[i] = buffer[i]
        /\ DOMAIN records = 1..(n + 1)
    <3>1. records = Append(buffer, r)
      BY DEF Appended
    <3>2. r \in LogRecord
      BY DEF LogInv, TypeOK, LogRecord, Types
    <3> QED BY <1>3, <3>1, <3>2, AppendProperties
  <2> DEFINE w == Written(records)
  <2> HIDE DEF records, r
  <2>2. /\ w \in Seq(Piece) /\ Len(w) = n + 1
        /\ \A i \in 1..(n + 1): w[i] = [record |-> records[i], cut |-> "no"]
    BY <1>3, <2>1, WrittenIsWhole
  <2> HIDE DEF w
  <2>3. file' = file \o w
    BY <1>4 DEF w
  <2>4. Len(file') = k + 1 /\ file'[k + 1] = [record |-> r, cut |-> "no"]
    <3>1. /\ Len(file') = Len(file) + Len(w)
          /\ \A i \in 1..Len(w): file'[Len(file) + i] = w[i]
      BY <1>3, <2>2, <2>3, FileGrows
    <3>2. n + 1 \in 1..Len(w) /\ Len(file) + (n + 1) = k + 1 /\ Len(file) + Len(w) = k + 1
      BY <1>3, <2>2
    <3>3. file'[k + 1] = w[n + 1]
      BY <3>1, <3>2
    <3>4. w[n + 1] = [record |-> records[n + 1], cut |-> "no"]
      BY <2>2, <3>2
    <3> QED BY <2>1, <3>1, <3>2, <3>3, <3>4
  <2>5. WholeBefore(k + 1)' = WholeRecords \union InBuffer(buffer)
    <3>1. WholeBefore(k + 1)' = Whole(file', k)
      BY <1>3 DEF WholeBefore, Whole
    <3>2. Whole(file', k) = Whole(file, Len(file)) \union Whole(w, n)
      <4>1. n \in 0..Len(w)
        BY <1>3, <2>2
      <4>2. Whole(file \o w, Len(file) + n) = Whole(file, Len(file)) \union Whole(w, n)
        BY <1>3, <2>2, <4>1, WholeOfConcat
      <4> QED BY <2>3, <4>2
    <3>3. Whole(file, Len(file)) = WholeRecords
      BY <1>3 DEF Whole, WholeRecords
    <3>4. Whole(w, n) = InBuffer(buffer)
      <4>1. ASSUME NEW i \in 1..n PROVE w[i].cut = "no" /\ w[i].record = buffer[i]
        <5>1. w[i] = [record |-> records[i], cut |-> "no"]
          BY <1>3, <2>2
        <5> QED BY <2>1, <5>1
      <4>2. {i \in 1..n : w[i].cut = "no"} = DOMAIN buffer
        BY <1>3, <4>1
      <4>3. \A i \in DOMAIN buffer: w[i].record = buffer[i]
        BY <1>3, <4>1
      <4> QED BY <4>2, <4>3 DEF Whole, InBuffer
    <3> QED BY <3>1, <3>2, <3>3, <3>4
  <2>6. Traced(r, WholeRecords \union InBuffer(buffer))
    <3>1. Traced([txn |-> t, prev_lsn |-> txn_table[t]], WholeRecords \union InBuffer(buffer))
      BY DEF LogInv, Sound, TableIsCurrent, Owners
    <3> QED BY <3>1 DEF Traced, r
  <2>7. CommitAt(t, k + 1)'
    <3>1. r.type = "COMMIT" /\ r.txn = t
      BY DEF r
    <3>2. /\ file'[k + 1].cut = "no"
          /\ file'[k + 1].record = r
      BY <2>4
    <3> QED BY <2>5, <2>6, <3>1, <3>2 DEF CommitAt
  <2>8. k + 1 \in DOMAIN file'
    BY <1>3, <1>4, <2>4, LenProperties
  <2> QED BY <2>7, <2>8
<1>9. AckedCommitsAreDurable'
  BY <1>1, <1>7, <1>8 DEF AckedCommitsAreDurable, CommitAt
<1> QED BY <1>5, <1>6, <1>9 DEF LogInv

(* truncate: everything that is gone is older than what comes.               *)
LEMMA TruncateStep ==
    ASSUME LogInv, Truncate
    PROVE  LogInv'
<1>1. /\ buffer = <<>> /\ buffer' = <<>> /\ file' = <<>> /\ flushed_lsn' = 0 /\ acked' = {}
      /\ UNCHANGED <<next_lsn, txn_table, recovered, status, crashes>>
  BY DEF Truncate
<1>2. WholeRecords' = {} /\ InBuffer(<<>>) = {} /\ <<>> \in Seq(Piece)
  BY <1>1 DEF WholeRecords, InBuffer
<1>3. Sound(buffer, next_lsn, txn_table, WholeRecords, flushed_lsn)'
  <2>1. TableIsCurrent(<<>>, next_lsn, txn_table, {})
    BY <1>2 DEF LogInv, Sound, TableIsCurrent, Traced
  <2>2. BufferIsConsecutive(<<>>, next_lsn) /\ BufferIsChained(<<>>, {})
    BY DEF BufferIsConsecutive, BufferIsChained
  <2>3. 0 + Len(<<>>) < next_lsn
    BY DEF LogInv, TypeOK
  <2>4. Sound(<<>>, next_lsn, txn_table, {}, 0)
    BY <2>1, <2>2, <2>3 DEF LogInv, Sound
  <2> QED BY <1>1, <1>2, <2>4
<1>4. TypeOK'
  BY <1>1, <1>2, <1>3, TypesFromSound DEF LogInv, TypeOK
<1>5. AckedCommitsAreDurable'
  BY <1>1 DEF AckedCommitsAreDurable
<1> QED BY <1>3, <1>4, <1>5 DEF LogInv

(* What read_all returns is a prefix of the records in the file.             *)
LEMMA ReadAllIsPrefix ==
    ASSUME NEW f \in Seq(Piece)
    PROVE  /\ ReadableLength(f) \in 0..Len(f)
           /\ ReadAll(f) \in Seq(LogRecord) /\ Len(ReadAll(f)) = ReadableLength(f)
           /\ \A i \in 1..ReadableLength(f): ReadAll(f)[i] = f[i].record
<1> DEFINE cuts == {i \in DOMAIN f : f[i].cut # "no"}
           first == CHOOSE i \in cuts: \A j \in cuts: i <= j
<1>1. Len(f) \in Nat /\ DOMAIN f = 1..Len(f)
  BY LenProperties
<1>2. ReadableLength(f) \in 0..Len(f)
  <2>1. CASE ~Unpackable \/ cuts = {}
    BY <1>1, <2>1 DEF ReadableLength
  <2>2. CASE Unpackable /\ cuts # {}
    <3>1. \E i \in cuts: \A j \in cuts: i <= j
      <4>1. cuts \subseteq Nat
        BY <1>1
      <4> QED BY <2>2, <4>1, LeastOfSet
    <3>2. first \in cuts
      BY <3>1
    <3>3. ReadableLength(f) = IF f[first].cut = "late" THEN first ELSE first - 1
      BY <2>2 DEF ReadableLength
    <3> HIDE DEF first
    <3> QED BY <1>1, <3>2, <3>3
  <2> QED BY <2>1, <2>2
<1>3. \A i \in 1..ReadableLength(f): f[i].record \in LogRecord
  <2>1. \A i \in 1..Len(f): f[i] \in Piece
    BY ElementOfSeq
  <2> QED BY <1>1, <1>2, <2>1 DEF Piece
<1>4. ReadAll(f) = [i \in 1..ReadableLength(f) |-> f[i].record]
  BY DEF ReadAll
<1>5. ReadAll(f) \in Seq(LogRecord)
  BY <1>2, <1>3, <1>4, IsASeq
<1> QED BY <1>1, <1>2, <1>4, <1>5

(* A new process: empty buffer, empty table, whatever recover returns.       *)
LEMMA CrashStep ==
    ASSUME LogInv, Crash
    PROVE  LogInv'
<1> DEFINE records == ReadAll(file')
           last == IF records = <<>> THEN 0 ELSE records[Len(records)].lsn
<1>1. file \in Seq(Piece) /\ buffer \in Seq(LogRecord)
  BY DEF LogInv, TypeOK
<1>2. PICK n \in 0..Len(buffer): \E kind \in CutKinds(buffer, n):
         file' = file \o PartOf(buffer, n, kind)
  BY DEF Crash
<1>3. (\E p \in Seq(Piece): file' = file \o p) /\ file' \in Seq(Piece)
  BY <1>1, <1>2, PartlyWritten
<1>4. records \in Seq(LogRecord)
  BY <1>3, ReadAllIsPrefix
<1>5. /\ recovered' = Recovered(records) /\ next_lsn' = last + 1 /\ flushed_lsn' = last
      /\ buffer' = <<>> /\ txn_table' = NothingLogged /\ acked' = acked
      /\ crashes < MaxCrashes /\ crashes' = crashes + 1
      /\ status' = [t \in Txns |-> IF status[t] = "running" THEN "ended" ELSE status[t]]
  BY DEF Crash
<1> HIDE DEF records
<1>6. last \in Nat
  <2>1. CASE records = <<>>
    BY <2>1
  <2>2. CASE records # <<>>
    <3>1. records[Len(records)] \in LogRecord
      BY <1>4, <2>2, ElementOfSeq, EmptySeq, LenProperties
    <3> QED BY <2>2, <3>1 DEF LogRecord
  <2> QED BY <2>1, <2>2
<1> HIDE DEF last
<1>7. recovered' \in [committed : SUBSET (Txns \union {NoTxn}),
                      aborted : SUBSET (Txns \union {NoTxn})]
  <2>1. \A i \in DOMAIN records: records[i].txn \in Txns \union {NoTxn}
    <3>1. \A i \in DOMAIN records: records[i] \in LogRecord
      BY <1>4, ElementOfSeq, LenProperties
    <3> QED BY <3>1 DEF LogRecord
  <2> QED BY <1>5, <2>1 DEF Recovered
<1>8. Sound(buffer, next_lsn, txn_table, WholeRecords, flushed_lsn)'
  <2>1. TableIsCurrent(<<>>, last + 1, NothingLogged, WholeRecords')
    BY <1>6 DEF TableIsCurrent, NothingLogged, Owners, Traced
  <2>2. BufferIsConsecutive(<<>>, last + 1) /\ BufferIsChained(<<>>, WholeRecords')
    BY DEF BufferIsConsecutive, BufferIsChained
  <2>3. NothingLogged \in [Owners -> Nat] /\ last + Len(<<>>) < last + 1 /\ <<>> \in Seq(LogRecord)
    BY <1>6, EmptySeq DEF NothingLogged, Owners
  <2>4. Sound(<<>>, last + 1, NothingLogged, WholeRecords', last)
    BY <1>6, <2>1, <2>2, <2>3 DEF Sound
  <2> QED BY <1>5, <2>4
<1>9. status' \in [Txns -> {"new", "running", "ended"}] /\ crashes' \in 0..MaxCrashes
  BY <1>5, WALAssumption DEF LogInv, TypeOK
<1> QED BY <1>3, <1>5, <1>7, <1>8, <1>9, GrowthStep

(* Each step keeps the log sound.                                            *)
LEMMA LogStep == LogInv /\ [Next]_vars => LogInv'
<1> SUFFICES ASSUME LogInv, [Next]_vars PROVE LogInv'
  OBVIOUS
<1>1. ASSUME NEW t \in Txns, LogBegin(t) PROVE LogInv'
  BY <1>1, BufferedStep DEF LogBegin, Types
<1>2. ASSUME NEW t \in Txns, LogChange(t) PROVE LogInv'
  BY <1>2, BufferedStep DEF LogChange, Types
<1>3. ASSUME NEW t \in Txns, LogAbort(t) PROVE LogInv'
  BY <1>3, BufferedStep DEF LogAbort, Types
<1>4. ASSUME NEW t \in Txns, LogCommit(t) PROVE LogInv'
  BY <1>4, CommitStep
<1>5. ASSUME NEW t \in Txns, LogCommitFails(t) PROVE LogInv'
  <2>1. Sound(Appended(t, "COMMIT"), next_lsn', txn_table', WholeRecords, flushed_lsn)
    BY <1>5, AppendIsSound DEF LogCommitFails, LogInv, Owners, Types
  <2> QED BY <1>5, <2>1, FailureStep DEF LogCommitFails, LogInv, TypeOK
<1>6. CASE LogCheckpoint
  <2>1. Sound(Appended(NoTxn, "CHECKPOINT"), next_lsn', txn_table', WholeRecords, flushed_lsn)
    BY <1>6, AppendIsSound DEF LogCheckpoint, LogInv, Owners, Types
  <2> QED BY <1>6, <2>1, FlushStep DEF LogCheckpoint
<1>7. CASE LogCheckpointFails
  <2>1. Sound(Appended(NoTxn, "CHECKPOINT"), next_lsn', txn_table', WholeRecords, flushed_lsn)
    BY <1>7, AppendIsSound DEF LogCheckpointFails, LogInv, Owners, Types
  <2> QED BY <1>7, <2>1, FailureStep DEF LogCheckpointFails, LogInv, TypeOK
<1>8. CASE Flush
  BY <1>8, FlushStep DEF Flush, LogInv
<1>9. CASE FlushFails
  BY <1>9, FailureStep DEF FlushFails, LogInv, TypeOK
<1>10. CASE Truncate
  BY <1>10, TruncateStep
<1>11. CASE Crash
  BY <1>11, CrashStep
<1>12. CASE UNCHANGED vars
  <2>1. WholeRecords' = WholeRecords
    BY <1>12 DEF vars, WholeRecords
  <2>2. Sound(buffer, next_lsn, txn_table, WholeRecords, flushed_lsn)'
    BY <1>12, <2>1 DEF vars, LogInv
  <2>3. file' = file \o <<>> /\ <<>> \in Seq(Piece)
    BY <1>12, ConcatEmptySeq, EmptySeq DEF vars, LogInv, TypeOK
  <2> QED BY <1>12, <2>2, <2>3, GrowthStep DEF vars, LogInv, TypeOK
<1> QED BY <1>1, <1>2, <1>3, <1>4, <1>5, <1>6, <1>7, <1>8, <1>9, <1>10, <1>11, <1>12 DEF Next

(* The invariant of the log, in every reachable state.                        *)
LEMMA LogIsSound == Spec => []LogInv
BY LogInit, LogStep, PTL DEF Spec

(* Every reachable state of the log manager is well formed (wal.py:180).      *)
THEOREM LogTypes == Spec => []TypeOK
<1>1. LogInv => TypeOK
  BY DEF LogInv
<1> QED BY <1>1, LogIsSound, PTL

(* "After flush() returns, all buffered records are guaranteed to be on       *)
(* stable storage" (wal.py:290): an acknowledged commit is in the file, behind *)
(* its transaction's other records, until the log is truncated.              *)
THEOREM AckedCommitsStay == Spec => []AckedCommitsAreDurable
<1>1. LogInv => AckedCommitsAreDurable
  BY DEF LogInv
<1> QED BY <1>1, LogIsSound, PTL

(* "Previous LSN for this transaction" (wal.py:76): the chain of a record is  *)
(* unbroken, from the buffer into the file.                                   *)
THEOREM UndoCanFollow == Spec => []UndoChainIsComplete
<1>1. LogInv => UndoChainIsComplete
  BY DEF LogInv, Sound, BufferIsChained, UndoChainIsComplete
<1> QED BY <1>1, LogIsSound, PTL

----------------------------------------------------------------------------
(* flushed_lsn names a record that is whole in the file.  A new process takes *)
(* it from the last record it reads, which is whole unless the reader takes    *)
(* a torn one for a record; with the header size of the code it reads none.   *)
FlushedIsInFile == flushed_lsn # 0 => \E r \in WholeRecords: r.lsn = flushed_lsn

NothingTorn == ~TornWrites => \A i \in DOMAIN file: file[i].cut = "no"

HonestInv == LogInv /\ FlushedIsInFile /\ NothingTorn

(* Appending whole pieces, or any when writes may be torn, tears nothing.     *)
LEMMA NothingTornGrows ==
    ASSUME file \in Seq(Piece), NothingTorn, NEW p \in Seq(Piece), file' = file \o p,
           ~TornWrites => \A i \in 1..Len(p): p[i].cut = "no"
    PROVE  NothingTorn'
<1> SUFFICES ASSUME ~TornWrites, NEW i \in 1..Len(file') PROVE file'[i].cut = "no"
  BY LenProperties, FileGrows DEF NothingTorn
<1>1. /\ Len(file') = Len(file) + Len(p) /\ Len(file) \in Nat /\ Len(p) \in Nat
      /\ \A j \in 1..Len(file): file'[j] = file[j]
      /\ \A j \in 1..Len(p): file'[Len(file) + j] = p[j]
  BY FileGrows, LenProperties
<1>2. CASE i \in 1..Len(file)
  BY <1>1, <1>2, LenProperties DEF NothingTorn
<1>3. CASE i \notin 1..Len(file)
  <2>1. i - Len(file) \in 1..Len(p) /\ Len(file) + (i - Len(file)) = i
    BY <1>1, <1>3
  <2>2. file'[i] = p[i - Len(file)]
    BY <1>1, <2>1
  <2> QED BY <2>1, <2>2
<1> QED BY <1>2, <1>3

(* What a flush, a failed one or a crash writes is whole or may be torn.      *)
LEMMA FlushTearsNothing ==
    ASSUME file \in Seq(Piece), NothingTorn, NEW records \in Seq(LogRecord), FlushOf(records)
    PROVE  NothingTorn'
<1>1. /\ Written(records) \in Seq(Piece) /\ file' = file \o Written(records)
      /\ Len(Written(records)) = Len(records)
      /\ \A i \in 1..Len(records): Written(records)[i] = [record |-> records[i], cut |-> "no"]
  BY FlushedFile, WrittenIsWhole, LenProperties
<1>2. ASSUME NEW i \in 1..Len(Written(records)) PROVE Written(records)[i].cut = "no"
  <2>1. Written(records)[i] = [record |-> records[i], cut |-> "no"]
    BY <1>1
  <2> QED BY <2>1
<1> QED BY <1>1, <1>2, NothingTornGrows

LEMMA PartTearsNothing ==
    ASSUME file \in Seq(Piece), NothingTorn, NEW records \in Seq(LogRecord),
           NEW n \in 0..Len(records), NEW kind \in CutKinds(records, n),
           file' = file \o PartOf(records, n, kind)
    PROVE  NothingTorn'
<1> DEFINE p == PartOf(records, n, kind)
<1>1. /\ p \in Seq(Piece) /\ Len(p) \in {n, n + 1} /\ file' = file \o p
      /\ \A i \in 1..n: p[i] = [record |-> records[i], cut |-> "no"]
      /\ Len(p) = n + 1 => TornWrites
  BY PartIsPrefix
<1> HIDE DEF p
<1>2. ASSUME ~TornWrites, NEW i \in 1..Len(p) PROVE p[i].cut = "no"
  <2>1. p[i] = [record |-> records[i], cut |-> "no"]
    BY <1>1, <1>2
  <2> QED BY <2>1
<1> QED BY <1>1, <1>2, NothingTornGrows

(* After a flush the last record written is in the file.                     *)
LEMMA HonestFlush ==
    ASSUME HonestInv, NEW records \in Seq(LogRecord), FlushOf(records)
    PROVE  FlushedIsInFile' /\ NothingTorn'
<1>1. file \in Seq(Piece)
  BY DEF HonestInv, LogInv, TypeOK
<1>2. WholeRecords' = WholeRecords \union InBuffer(records) /\ NothingTorn'
  BY <1>1, FlushedFile, FlushTearsNothing DEF HonestInv
<1>3. CASE records = <<>>
  BY <1>2, <1>3 DEF FlushOf, HonestInv, FlushedIsInFile
<1>4. CASE records # <<>>
  <2>1. Len(records) \in DOMAIN records
    BY <1>4, LenProperties, EmptySeq
  <2>2. records[Len(records)] \in WholeRecords'
    BY <1>2, <2>1 DEF InBuffer
  <2> QED BY <1>2, <1>4, <2>2 DEF FlushOf, FlushedIsInFile
<1> QED BY <1>3, <1>4

LEMMA HonestFailure ==
    ASSUME HonestInv, NEW records \in Seq(LogRecord), FlushFailure(records)
    PROVE  FlushedIsInFile' /\ NothingTorn'
<1>1. file \in Seq(Piece)
  BY DEF HonestInv, LogInv, TypeOK
<1>2. PICK n \in 0..Len(records): \E kind \in CutKinds(records, n):
         file' = file \o PartOf(records, n, kind)
  BY DEF FlushFailure
<1>3. WholeRecords \subseteq WholeRecords' /\ NothingTorn'
  BY <1>1, <1>2, PartlyWritten, PartTearsNothing DEF HonestInv
<1>4. flushed_lsn' = flushed_lsn
  BY DEF FlushFailure
<1> QED BY <1>3, <1>4 DEF HonestInv, FlushedIsInFile

(* The last record a new process reads is whole.                             *)
LEMMA HonestCrash ==
    ASSUME Unpackable => ~TornWrites, HonestInv, Crash
    PROVE  FlushedIsInFile' /\ NothingTorn'
<1> DEFINE records == ReadAll(file')
<1>1. file \in Seq(Piece) /\ buffer \in Seq(LogRecord)
  BY DEF HonestInv, LogInv, TypeOK
<1>2. PICK n \in 0..Len(buffer): \E kind \in CutKinds(buffer, n):
         file' = file \o PartOf(buffer, n, kind)
  BY DEF Crash
<1>3. file' \in Seq(Piece) /\ NothingTorn'
  BY <1>1, <1>2, PartlyWritten, PartTearsNothing DEF HonestInv
<1>4. flushed_lsn' = IF records = <<>> THEN 0 ELSE records[Len(records)].lsn
  BY DEF Crash
<1>5. /\ ReadableLength(file') \in 0..Len(file')
      /\ records \in Seq(LogRecord) /\ Len(records) = ReadableLength(file')
      /\ \A i \in 1..ReadableLength(file'): records[i] = file'[i].record
  BY <1>3, ReadAllIsPrefix
<1> HIDE DEF records
<1>6. CASE records = <<>>
  BY <1>3, <1>4, <1>6 DEF FlushedIsInFile
<1>7. CASE records # <<>>
  <2> PICK k : k = Len(records)
    OBVIOUS
  <2>1. k \in 1..Len(file') /\ records[k] = file'[k].record
    BY <1>3, <1>5, <1>7, LenProperties, EmptySeq
  <2>2. Unpackable
    BY <1>5, <1>7, LenProperties, EmptySeq DEF ReadableLength
  <2>3. k \in DOMAIN file' /\ file'[k].cut = "no"
    BY <1>3, <2>1, <2>2, LenProperties DEF NothingTorn
  <2>4. file'[k].record \in WholeRecords'
    BY <2>3 DEF WholeRecords
  <2> QED BY <1>3, <1>4, <1>7, <2>1, <2>4 DEF FlushedIsInFile
<1> QED BY <1>6, <1>7

LEMMA HonestStep ==
    ASSUME Unpackable => ~TornWrites
    PROVE  HonestInv /\ [Next]_vars => HonestInv'
<1> SUFFICES ASSUME HonestInv, [Next]_vars PROVE FlushedIsInFile' /\ NothingTorn'
  BY LogStep DEF HonestInv
<1>1. ASSUME NEW t \in Owners, NEW type \in Types, Assign(t)
      PROVE  Appended(t, type) \in Seq(LogRecord)
  <2>1. Sound(Appended(t, type), next_lsn', txn_table', WholeRecords, flushed_lsn)
    BY <1>1, AppendIsSound DEF HonestInv, LogInv
  <2> QED BY <2>1 DEF Sound
<1>2. ASSUME UNCHANGED <<file, flushed_lsn>> PROVE FlushedIsInFile' /\ NothingTorn'
  <2>1. WholeRecords' = WholeRecords
    BY <1>2 DEF WholeRecords
  <2> QED BY <1>2, <2>1 DEF HonestInv, FlushedIsInFile, NothingTorn
<1>3. ASSUME NEW t \in Txns, LogBegin(t) \/ LogChange(t) \/ LogAbort(t)
      PROVE  FlushedIsInFile' /\ NothingTorn'
  BY <1>2, <1>3 DEF LogBegin, LogChange, LogAbort, LogBuffered
<1>4. ASSUME NEW t \in Txns, LogCommit(t) PROVE FlushedIsInFile' /\ NothingTorn'
  <2>1. Appended(t, "COMMIT") \in Seq(LogRecord)
    BY <1>1, <1>4 DEF LogCommit, Owners, Types
  <2> QED BY <1>4, <2>1, HonestFlush DEF LogCommit
<1>5. ASSUME NEW t \in Txns, LogCommitFails(t) PROVE FlushedIsInFile' /\ NothingTorn'
  <2>1. Appended(t, "COMMIT") \in Seq(LogRecord)
    BY <1>1, <1>5 DEF LogCommitFails, Owners, Types
  <2> QED BY <1>5, <2>1, HonestFailure DEF LogCommitFails
<1>6. CASE LogCheckpoint
  <2>1. Appended(NoTxn, "CHECKPOINT") \in Seq(LogRecord)
    BY <1>1, <1>6 DEF LogCheckpoint, Owners, Types
  <2> QED BY <1>6, <2>1, HonestFlush DEF LogCheckpoint
<1>7. CASE LogCheckpointFails
  <2>1. Appended(NoTxn, "CHECKPOINT") \in Seq(LogRecord)
    BY <1>1, <1>7 DEF LogCheckpointFails, Owners, Types
  <2> QED BY <1>7, <2>1, HonestFailure DEF LogCheckpointFails
<1>8. CASE Flush
  BY <1>8, HonestFlush DEF Flush, HonestInv, LogInv, TypeOK
<1>9. CASE FlushFails
  BY <1>9, HonestFailure DEF FlushFails, HonestInv, LogInv, TypeOK
<1>10. CASE Truncate
  BY <1>10 DEF Truncate, FlushedIsInFile, NothingTorn
<1>11. CASE Crash
  BY <1>11, HonestCrash
<1>12. CASE UNCHANGED vars
  BY <1>2, <1>12 DEF vars
<1> QED BY <1>3, <1>4, <1>5, <1>6, <1>7, <1>8, <1>9, <1>10, <1>11, <1>12 DEF Next

(* The limit a page is written by (wal.py:182-185, "The highest LSN that has    *)
(* been flushed to disk"): flushed_lsn names a record of the file, and the     *)
(* buffer continues behind it without a gap.  It needs that no torn record is  *)
(* taken for a whole one: with the header size of the code none is read.      *)
THEOREM FlushedIsHonest ==
    ASSUME Unpackable => ~TornWrites
    PROVE  Spec => []FlushedLsnIsHonest
<1>1. Init => HonestInv
  BY LogInit DEF HonestInv, Init, FlushedIsInFile, NothingTorn
<1>2. HonestInv => FlushedLsnIsHonest
  <2> SUFFICES ASSUME HonestInv, NEW i \in DOMAIN buffer
               PROVE  /\ buffer[i].lsn > flushed_lsn
                      /\ buffer[i].lsn = next_lsn - 1 - Len(buffer) + i
    BY DEF FlushedLsnIsHonest, HonestInv, FlushedIsInFile
  <2>1. /\ flushed_lsn + Len(buffer) < next_lsn /\ flushed_lsn \in Nat /\ next_lsn \in Nat
        /\ Len(buffer) \in Nat /\ i \in 1..Len(buffer)
    BY LenProperties DEF HonestInv, LogInv, Sound
  <2>2. buffer[i].lsn = next_lsn - 1 - Len(buffer) + i
    BY DEF HonestInv, LogInv, Sound, BufferIsConsecutive
  <2> QED BY <2>1, <2>2
<1>3. HonestInv /\ [Next]_vars => HonestInv'
  BY HonestStep
<1> QED BY <1>1, <1>2, <1>3, PTL DEF Spec

----------------------------------------------------------------------------
(* Recovery, with the header size the format has.  Everything that was logged  *)
(* and not truncated, in the file or still in the buffer, in one sequence.    *)
FileRecords(f) == [i \in 1..Len(f) |-> f[i].record]
Logged == FileRecords(file) \o buffer

Ends == {"COMMIT", "ABORT"}

(* LSNs increase along the log.                                              *)
InLsnOrder(L, next) ==
    /\ \A i \in 1..Len(L): L[i].lsn < next
    /\ \A i, j \in 1..Len(L): i < j => L[i].lsn < L[j].lsn

(* A transaction logs nothing behind its end.                                *)
EndsComeLast(L, st) ==
    \A i \in 1..Len(L): L[i].type \in Ends =>
        /\ L[i].txn \in Txns /\ st[L[i].txn] = "ended"
        /\ \A j \in 1..Len(L): L[j].txn = L[i].txn => j <= i

WellLogged(L, next, st) ==
    /\ L \in Seq(LogRecord) /\ next \in Nat
    /\ InLsnOrder(L, next)
    /\ EndsComeLast(L, st)

RecoveryInv ==
    /\ LogInv
    /\ NothingTorn
    /\ WellLogged(Logged, next_lsn, status)

(* One record more.                                                          *)
LEMMA WellLoggedAppend ==
    ASSUME NEW L, NEW next, NEW st, NEW r \in LogRecord, NEW st2, WellLogged(L, next, st),
           r.lsn = next,
           \/ r.txn \in Txns /\ st[r.txn] # "ended" /\ (r.type \in Ends => st2[r.txn] = "ended")
           \/ r.txn = NoTxn /\ r.type \notin Ends,
           \A t \in Txns: st[t] = "ended" => st2[t] = "ended"
    PROVE  WellLogged(Append(L, r), next + 1, st2)
<1> DEFINE M == Append(L, r)
<1>1. L \in Seq(LogRecord) /\ next \in Nat /\ Len(L) \in Nat
  BY DEF WellLogged
<1>2. /\ M \in Seq(LogRecord) /\ Len(M) = Len(L) + 1
      /\ \A i \in 1..Len(L): M[i] = L[i]
      /\ M[Len(L) + 1] = r
  BY <1>1, AppendProperties
<1> HIDE DEF M
<1>3. \A i \in 1..Len(M): i \in 1..Len(L) \/ i = Len(L) + 1
  BY <1>1, <1>2
<1>4. \A i \in 1..Len(L): L[i] \in LogRecord /\ L[i].lsn \in Nat
  <2>1. \A i \in 1..Len(L): L[i] \in LogRecord
    BY <1>1, ElementOfSeq
  <2> QED BY <2>1 DEF LogRecord
<1>5. InLsnOrder(M, next + 1)
  <2>1. \A i \in 1..Len(L): L[i].lsn < next
    BY DEF WellLogged, InLsnOrder
  <2>2. ASSUME NEW i \in 1..Len(M) PROVE M[i].lsn < next + 1
    BY <1>1, <1>2, <1>3, <1>4, <2>1
  <2>3. ASSUME NEW i \in 1..Len(M), NEW j \in 1..Len(M), i < j PROVE M[i].lsn < M[j].lsn
    <3>1. i \in 1..Len(L)
      BY <1>1, <1>2, <2>3
    <3>2. CASE j \in 1..Len(L)
      BY <1>2, <2>3, <3>1, <3>2 DEF WellLogged, InLsnOrder
    <3>3. CASE j = Len(L) + 1
      BY <1>2, <2>1, <3>1, <3>3
    <3> QED BY <1>3, <3>2, <3>3
  <2> QED BY <2>2, <2>3 DEF InLsnOrder
<1>6. EndsComeLast(M, st2)
  <2> SUFFICES ASSUME NEW i \in 1..Len(M), M[i].type \in Ends
               PROVE  /\ M[i].txn \in Txns /\ st2[M[i].txn] = "ended"
                      /\ \A j \in 1..Len(M): M[j].txn = M[i].txn => j <= i
    BY DEF EndsComeLast
  <2>1. CASE i \in 1..Len(L)
    <3>1. /\ L[i].txn \in Txns /\ st[L[i].txn] = "ended" /\ M[i] = L[i]
          /\ \A j \in 1..Len(L): L[j].txn = L[i].txn => j <= i
      BY <1>2, <2>1 DEF WellLogged, EndsComeLast
    <3>2. r.txn # L[i].txn
      BY <3>1, WALAssumption DEF NoTxn
    <3>3. ASSUME NEW j \in 1..Len(M), M[j].txn = M[i].txn PROVE j <= i
      BY <1>2, <1>3, <3>1, <3>2, <3>3
    <3> QED BY <3>1, <3>3
  <2>2. CASE i = Len(L) + 1
    BY <1>1, <1>2, <2>2
  <2> QED BY <1>3, <2>1, <2>2
<1>7. WellLogged(M, next + 1, st2)
  BY <1>1, <1>2, <1>5, <1>6 DEF WellLogged
<1> QED BY <1>7 DEF M

(* What is left of a log that lost its end.                                  *)
LEMMA WellLoggedPrefix ==
    ASSUME NEW L, NEW next, NEW st, NEW k \in 0..Len(L), NEW M \in Seq(LogRecord), NEW st2,
           WellLogged(L, next, st), Len(M) = k, \A i \in 1..k: M[i] = L[i],
           \A t \in Txns: st[t] = "ended" => st2[t] = "ended"
    PROVE  /\ WellLogged(M, IF k = 0 THEN 1 ELSE M[k].lsn + 1, st2)
           /\ EndsComeLast(M, st2)
<1>1. /\ L \in Seq(LogRecord) /\ Len(L) \in Nat /\ k \in Nat
      /\ \A i \in 1..k: i \in 1..Len(L)
  BY DEF WellLogged
<1>2. \A i \in 1..k: M[i] = L[i] /\ M[i].lsn \in Nat
  <2>1. \A i \in 1..k: M[i] \in LogRecord
    BY ElementOfSeq
  <2> QED BY <2>1 DEF LogRecord
<1>3. InLsnOrder(M, IF k = 0 THEN 1 ELSE M[k].lsn + 1)
  <2>1. \A i, j \in 1..k: i < j => M[i].lsn < M[j].lsn
    BY <1>1, <1>2 DEF WellLogged, InLsnOrder
  <2>2. ASSUME NEW i \in 1..k PROVE M[i].lsn < M[k].lsn + 1
    BY <1>1, <1>2, <2>1
  <2> QED BY <1>1, <2>1, <2>2 DEF InLsnOrder
<1>4. EndsComeLast(M, st2)
  BY <1>1, <1>2 DEF WellLogged, EndsComeLast
<1>5. (IF k = 0 THEN 1 ELSE M[k].lsn + 1) \in Nat
  BY <1>1, <1>2
<1> QED BY <1>3, <1>4, <1>5 DEF WellLogged

(* The records of a file.                                                    *)
LEMMA FileRecordsType ==
    ASSUME NEW f \in Seq(Piece)
    PROVE  FileRecords(f) \in Seq(LogRecord) /\ Len(FileRecords(f)) = Len(f)
<1>1. \A i \in 1..Len(f): f[i] \in Piece
  BY ElementOfSeq
<1>2. \A i \in 1..Len(f): f[i].record \in LogRecord
  BY <1>1 DEF Piece
<1>3. Len(f) \in Nat
  BY LenProperties
<1> QED BY <1>2, <1>3, IsASeq DEF FileRecords

(* Flushing moves records, it does not change what is logged.                 *)
LEMMA FlushMovesRecords ==
    ASSUME NEW f \in Seq(Piece), NEW r \in Seq(LogRecord)
    PROVE  /\ FileRecords(f) \in Seq(LogRecord) /\ Len(FileRecords(f)) = Len(f)
           /\ FileRecords(f \o Written(r)) = FileRecords(f) \o r
<1> DEFINE w == Written(r)
<1>1. /\ w \in Seq(Piece) /\ Len(w) = Len(r)
      /\ \A i \in 1..Len(r): w[i] = [record |-> r[i], cut |-> "no"]
  BY WrittenIsWhole, LenProperties
<1> HIDE DEF w
<1>2. /\ f \o w \in Seq(Piece) /\ Len(f \o w) = Len(f) + Len(r)
      /\ \A i \in 1..Len(f): (f \o w)[i] = f[i]
      /\ \A i \in (Len(f) + 1)..(Len(f) + Len(r)): (f \o w)[i] = w[i - Len(f)]
      /\ Len(f) \in Nat /\ Len(r) \in Nat
  <2>1. Len(f) \in Nat /\ Len(r) \in Nat
    OBVIOUS
  <2>2. /\ f \o w \in Seq(Piece) /\ Len(f \o w) = Len(f) + Len(w)
        /\ \A i \in 1..Len(f): (f \o w)[i] = f[i]
        /\ \A i \in (Len(f) + 1)..(Len(f) + Len(w)): (f \o w)[i] = w[i - Len(f)]
    <3>1. w \in Seq(Piece)
      BY <1>1
    <3> QED BY <3>1, ConcatParts, Zenon
  <2> QED BY <1>1, <2>1, <2>2
<1>3. \A g \in Seq(Piece): FileRecords(g) \in Seq(LogRecord) /\ Len(FileRecords(g)) = Len(g)
  BY FileRecordsType
<1>4. /\ FileRecords(f) \o r \in Seq(LogRecord) /\ Len(FileRecords(f) \o r) = Len(f) + Len(r)
      /\ \A i \in 1..Len(f): (FileRecords(f) \o r)[i] = FileRecords(f)[i]
      /\ \A i \in (Len(f) + 1)..(Len(f) + Len(r)): (FileRecords(f) \o r)[i] = r[i - Len(f)]
  <2> DEFINE g == FileRecords(f)
  <2>1. g \in Seq(LogRecord) /\ Len(g) = Len(f) /\ Len(f) \in Nat /\ Len(r) \in Nat
    BY <1>3
  <2> HIDE DEF g
  <2>2. /\ g \o r \in Seq(LogRecord) /\ Len(g \o r) = Len(g) + Len(r)
        /\ \A i \in 1..Len(g): (g \o r)[i] = g[i]
        /\ \A i \in (Len(g) + 1)..(Len(g) + Len(r)): (g \o r)[i] = r[i - Len(g)]
    BY <2>1, ConcatParts
  <2>3. /\ g \o r \in Seq(LogRecord) /\ Len(g \o r) = Len(f) + Len(r)
        /\ \A i \in 1..Len(f): (g \o r)[i] = g[i]
        /\ \A i \in (Len(f) + 1)..(Len(f) + Len(r)): (g \o r)[i] = r[i - Len(f)]
    BY <2>1, <2>2
  <2> QED BY <2>3 DEF g
<1>5. ASSUME NEW i \in 1..(Len(f) + Len(r))
      PROVE  FileRecords(f \o w)[i] = (FileRecords(f) \o r)[i]
  <2>1. FileRecords(f \o w)[i] = (f \o w)[i].record
    BY <1>2 DEF FileRecords
  <2>2. CASE i \in 1..Len(f)
    BY <1>2, <1>4, <2>1, <2>2 DEF FileRecords
  <2>3. CASE i \notin 1..Len(f)
    <3>1. i \in (Len(f) + 1)..(Len(f) + Len(r)) /\ i - Len(f) \in 1..Len(r)
      BY <1>2, <2>3
    <3>2. w[i - Len(f)] = [record |-> r[i - Len(f)], cut |-> "no"]
      BY <1>1, <3>1
    <3>3. w[i - Len(f)].record = r[i - Len(f)]
      BY <3>2
    <3> QED BY <1>2, <1>4, <2>1, <3>1, <3>3
  <2> QED BY <2>2, <2>3
<1>6. FileRecords(f \o w) = FileRecords(f) \o r
  <2>1. FileRecords(f \o w) \in Seq(LogRecord) /\ Len(FileRecords(f \o w)) = Len(f) + Len(r)
    BY <1>2, <1>3
  <2> QED BY <1>4, <1>5, <2>1, SeqEqual
<1> QED BY <1>3, <1>6 DEF w

(* The records of the file come first.                                       *)
LEMMA LoggedIsFileThenBuffer ==
    ASSUME LogInv
    PROVE  /\ FileRecords(file) \in Seq(LogRecord) /\ Len(FileRecords(file)) = Len(file)
           /\ Logged \in Seq(LogRecord) /\ Len(Logged) = Len(file) + Len(buffer)
           /\ Len(file) \in Nat /\ Len(buffer) \in Nat
           /\ \A i \in 1..Len(file): Logged[i] = file[i].record
           /\ \A i \in 1..Len(buffer): Logged[Len(file) + i] = buffer[i]
<1> DEFINE g == FileRecords(file)
<1>1. file \in Seq(Piece) /\ buffer \in Seq(LogRecord) /\ Len(file) \in Nat /\ Len(buffer) \in Nat
  BY LenProperties DEF LogInv, TypeOK
<1>2. g \in Seq(LogRecord) /\ Len(g) = Len(file) /\ \A i \in 1..Len(file): g[i] = file[i].record
  BY <1>1, FlushMovesRecords DEF FileRecords
<1>3. Logged = g \o buffer
  BY DEF Logged
<1> HIDE DEF g
<1>4. /\ Logged \in Seq(LogRecord) /\ Len(Logged) = Len(g) + Len(buffer)
      /\ \A i \in 1..Len(g): Logged[i] = g[i]
      /\ \A i \in 1..Len(buffer): Logged[Len(g) + i] = buffer[i]
  <2>1. g \in Seq(LogRecord) /\ buffer \in Seq(LogRecord)
    BY <1>1, <1>2
  <2>2. /\ g \o buffer \in Seq(LogRecord) /\ Len(g \o buffer) = Len(g) + Len(buffer)
        /\ \A i \in 1..Len(g): (g \o buffer)[i] = g[i]
        /\ \A i \in 1..Len(buffer): (g \o buffer)[Len(g) + i] = buffer[i]
    BY <2>1, ConcatParts
  <2> QED BY <1>3, <2>2, Zenon
<1> QED BY <1>1, <1>2, <1>4 DEF g

LEMMA RecoveryInit == Init => RecoveryInv
<1> SUFFICES ASSUME Init PROVE RecoveryInv
  OBVIOUS
<1>1. LogInv /\ NothingTorn
  BY LogInit DEF Init, NothingTorn
<1>2. Len(Logged) = 0 /\ Logged \in Seq(LogRecord)
  <2>1. Len(file) = 0 /\ Len(buffer) = 0
    BY DEF Init
  <2> QED BY <1>1, <2>1, LoggedIsFileThenBuffer
<1>3. WellLogged(Logged, 1, status)
  BY <1>2 DEF WellLogged, InLsnOrder, EndsComeLast
<1> QED BY <1>1, <1>3 DEF RecoveryInv, Init

(* A record of a running transaction, or one of none, is logged.              *)
LEMMA LoggedAppend ==
    ASSUME RecoveryInv, NEW t \in Owners, NEW type \in Types, Assign(t),
           \/ t \in Txns /\ status[t] # "ended" /\ (type \in Ends => status'[t] = "ended")
           \/ t = NoTxn /\ type \notin Ends,
           \A u \in Txns: status[u] = "ended" => status'[u] = "ended"
    PROVE  /\ Appended(t, type) \in Seq(LogRecord)
           /\ WellLogged(FileRecords(file) \o Appended(t, type), next_lsn', status')
<1> DEFINE r == [lsn |-> next_lsn, prev_lsn |-> txn_table[t], txn |-> t, type |-> type]
           g == FileRecords(file)
<1>1. /\ buffer \in Seq(LogRecord) /\ next_lsn \in Nat /\ txn_table \in [Owners -> Nat]
      /\ g \in Seq(LogRecord) /\ Logged = g \o buffer
      /\ WellLogged(Logged, next_lsn, status)
  BY LoggedIsFileThenBuffer DEF RecoveryInv, LogInv, TypeOK, Owners, Logged
<1>2. r \in LogRecord /\ r.lsn = next_lsn /\ r.txn = t /\ r.type = type
  BY <1>1 DEF LogRecord, Owners
<1>3. Appended(t, type) = Append(buffer, r) /\ next_lsn' = next_lsn + 1
  BY DEF Appended, Assign
<1> HIDE DEF r, g
<1>4. g \o Append(buffer, r) = Append(g \o buffer, r)
  <2>1. /\ Append(buffer, r) = buffer \o <<r>>
        /\ Append(g \o buffer, r) = (g \o buffer) \o <<r>>
        /\ <<r>> \in Seq(LogRecord)
    BY <1>1, <1>2, AppendIsConcat, ConcatParts
  <2> QED BY <1>1, <2>1, ConcatAssociative
<1>5. WellLogged(Append(Logged, r), next_lsn + 1, status')
  BY <1>1, <1>2, WellLoggedAppend
<1> QED BY <1>1, <1>2, <1>3, <1>4, <1>5, AppendProperties DEF g

(* A flush that succeeds writes the log on.                                  *)
LEMMA LoggedFlush ==
    ASSUME file \in Seq(Piece), NEW records \in Seq(LogRecord), FlushOf(records)
    PROVE  Logged' = FileRecords(file) \o records
<1>1. file' = file \o Written(records) /\ buffer' = <<>>
  BY DEF FlushOf
<1>2. /\ FileRecords(file) \in Seq(LogRecord)
      /\ FileRecords(file') = FileRecords(file) \o records
  BY <1>1, FlushMovesRecords
<1>3. FileRecords(file) \o records \in Seq(LogRecord)
  BY <1>2, ConcatParts
<1> QED BY <1>1, <1>2, <1>3, ConcatEmptySeq DEF Logged

(* A new process reads all of the file, which is the log less what was lost   *)
(* of the buffer.                                                           *)
LEMMA CrashReadsAll ==
    ASSUME Unpackable, ~TornWrites, RecoveryInv, Crash
    PROVE  /\ file' \in Seq(Piece) /\ NothingTorn'
           /\ ReadAll(file') = FileRecords(file')
           /\ \E k \in 0..Len(Logged):
                 /\ Len(FileRecords(file')) = k /\ k >= Len(file)
                 /\ \A i \in 1..k: FileRecords(file')[i] = Logged[i]
<1>1. /\ file \in Seq(Piece) /\ buffer \in Seq(LogRecord) /\ Len(file) \in Nat /\ Len(buffer) \in Nat
      /\ Len(Logged) = Len(file) + Len(buffer)
      /\ \A i \in 1..Len(file): Logged[i] = file[i].record
      /\ \A i \in 1..Len(buffer): Logged[Len(file) + i] = buffer[i]
  BY LoggedIsFileThenBuffer DEF RecoveryInv, LogInv, TypeOK
<1>2. PICK n \in 0..Len(buffer): \E kind \in CutKinds(buffer, n):
         file' = file \o PartOf(buffer, n, kind)
  BY DEF Crash
<1>3. PICK kind \in CutKinds(buffer, n): file' = file \o PartOf(buffer, n, kind)
  BY <1>2
<1>4. NothingTorn'
  BY <1>1, <1>3, PartTearsNothing DEF RecoveryInv
<1> DEFINE p == PartOf(buffer, n, kind)
<1>5. /\ p \in Seq(Piece) /\ Len(p) = n /\ file' = file \o p
      /\ \A i \in 1..n: p[i] = [record |-> buffer[i], cut |-> "no"]
  BY <1>1, <1>3, PartIsPrefix
<1> HIDE DEF p
<1>6. /\ file' \in Seq(Piece) /\ Len(file') = Len(file) + n
      /\ \A i \in 1..Len(file): file'[i] = file[i]
      /\ \A i \in 1..n: file'[Len(file) + i] = p[i]
  BY <1>1, <1>5, FileGrows
<1> PICK f : f = file'
  OBVIOUS
<1>7. ReadAll(f) = FileRecords(f)
  <2>1. \A i \in DOMAIN f: f[i].cut = "no"
    BY <1>4 DEF NothingTorn
  <2>2. ReadableLength(f) = Len(f)
    BY <2>1 DEF ReadableLength
  <2> QED BY <2>2 DEF ReadAll, FileRecords
<1>8. Len(FileRecords(f)) = Len(file) + n
  <2>1. f \in Seq(Piece) /\ Len(f) = Len(file) + n
    BY <1>6
  <2> QED BY <2>1, FileRecordsType
<1>9. ASSUME NEW i \in 1..(Len(file) + n) PROVE FileRecords(f)[i] = Logged[i]
  <2>1. FileRecords(f)[i] = f[i].record
    BY <1>6, <1>9 DEF FileRecords
  <2>2. CASE i \in 1..Len(file)
    BY <1>1, <1>6, <2>1, <2>2
  <2>3. CASE i \notin 1..Len(file)
    <3>1. PICK j \in 1..n : i = Len(file) + j
      <4>1. i - Len(file) \in 1..n /\ i = Len(file) + (i - Len(file))
        BY <1>1, <2>3
      <4> QED BY <4>1
    <3>2. f[i] = p[j] /\ p[j] = [record |-> buffer[j], cut |-> "no"]
      BY <1>5, <1>6, <3>1
    <3>3. f[i].record = buffer[j]
      BY <3>2
    <3> QED BY <1>1, <2>1, <3>1, <3>3
  <2> QED BY <2>2, <2>3
<1>10. Len(file) + n \in 0..Len(Logged) /\ Len(file) + n >= Len(file)
  BY <1>1
<1> QED BY <1>4, <1>6, <1>7, <1>8, <1>9, <1>10

LEMMA RecoveryCrash ==
    ASSUME Unpackable, ~TornWrites, RecoveryInv, Crash
    PROVE  NothingTorn' /\ WellLogged(Logged, next_lsn, status)'
<1>1. /\ file' \in Seq(Piece) /\ NothingTorn' /\ ReadAll(file') = FileRecords(file')
  BY CrashReadsAll
<1> PICK M : M = FileRecords(file')
  OBVIOUS
<1>2. PICK k \in 0..Len(Logged): Len(M) = k /\ \A i \in 1..k: M[i] = Logged[i]
  BY CrashReadsAll
<1>3. M \in Seq(LogRecord)
  BY <1>1, FileRecordsType
<1>4. /\ next_lsn' = (IF ReadAll(file') = <<>> THEN 0
                      ELSE ReadAll(file')[Len(ReadAll(file'))].lsn) + 1
      /\ buffer' = <<>>
      /\ status' = [t \in Txns |-> IF status[t] = "running" THEN "ended" ELSE status[t]]
  BY DEF Crash
<1>5. Logged' = M
  BY <1>3, <1>4, ConcatEmptySeq DEF Logged
<1>6. next_lsn' = IF k = 0 THEN 1 ELSE M[k].lsn + 1
  <2>1. M = <<>> <=> k = 0
    BY <1>2, <1>3, EmptySeq
  <2> QED BY <1>1, <1>2, <1>4, <2>1
<1>7. \A t \in Txns: status[t] = "ended" => status'[t] = "ended"
  BY <1>4
<1>8. WellLogged(Logged, next_lsn, status)
  BY DEF RecoveryInv
<1>9. WellLogged(M, IF k = 0 THEN 1 ELSE M[k].lsn + 1, status')
  BY <1>2, <1>3, <1>7, <1>8, WellLoggedPrefix
<1> QED BY <1>1, <1>5, <1>6, <1>9

LEMMA RecoveryStep ==
    ASSUME Unpackable, ~TornWrites, ~DiskErrors
    PROVE  RecoveryInv /\ [Next]_vars => RecoveryInv'
<1> SUFFICES ASSUME RecoveryInv, [Next]_vars
             PROVE  NothingTorn' /\ WellLogged(Logged, next_lsn, status)'
  BY LogStep DEF RecoveryInv
<1> USE DEF Ends
<1>1. /\ file \in Seq(Piece) /\ buffer \in Seq(LogRecord) /\ NothingTorn
      /\ status \in [Txns -> {"new", "running", "ended"}]
      /\ WellLogged(Logged, next_lsn, status)
  BY DEF RecoveryInv, LogInv, TypeOK
<1>2. ASSUME NEW t \in Txns, NEW type \in {"BEGIN", "CHANGE", "ABORT"},
             NEW from \in {"new", "running"}, NEW to \in {"running", "ended"},
             type = "ABORT" => to = "ended", LogBuffered(t, type, from, to)
      PROVE  NothingTorn' /\ WellLogged(Logged, next_lsn, status)'
  <2>1. /\ status[t] = from /\ Assign(t) /\ buffer' = Appended(t, type)
        /\ status' = [status EXCEPT ![t] = to] /\ file' = file
    BY <1>2 DEF LogBuffered
  <2>2. /\ status[t] # "ended" /\ (type \in Ends => status'[t] = "ended")
        /\ \A u \in Txns: status[u] = "ended" => status'[u] = "ended"
    BY <1>1, <1>2, <2>1
  <2>3. WellLogged(FileRecords(file) \o Appended(t, type), next_lsn', status')
    <3>1. t \in Owners /\ type \in Types
      BY DEF Owners, Types
    <3> QED BY <2>1, <2>2, <3>1, LoggedAppend
  <2>4. Logged' = FileRecords(file) \o Appended(t, type)
    BY <2>1 DEF Logged
  <2> QED BY <1>1, <2>1, <2>3, <2>4 DEF NothingTorn
<1>3. ASSUME NEW t \in Owners, NEW type \in {"COMMIT", "CHECKPOINT"},
             Assign(t), FlushOf(Appended(t, type)),
             \/ t \in Txns /\ status[t] # "ended" /\ status'[t] = "ended"
             \/ t = NoTxn /\ type = "CHECKPOINT",
             \A u \in Txns: status[u] = "ended" => status'[u] = "ended"
      PROVE  NothingTorn' /\ WellLogged(Logged, next_lsn, status)'
  <2>1. /\ Appended(t, type) \in Seq(LogRecord)
        /\ WellLogged(FileRecords(file) \o Appended(t, type), next_lsn', status')
    <3>1. type \in Types
      BY DEF Types
    <3> QED BY <1>3, <3>1, LoggedAppend
  <2>2. Logged' = FileRecords(file) \o Appended(t, type)
    BY <1>1, <1>3, <2>1, LoggedFlush
  <2> QED BY <1>1, <1>3, <2>1, <2>2, FlushTearsNothing
<1>4. ASSUME NEW t \in Txns, LogBegin(t) \/ LogChange(t) \/ LogAbort(t)
      PROVE  NothingTorn' /\ WellLogged(Logged, next_lsn, status)'
  BY <1>2, <1>4 DEF LogBegin, LogChange, LogAbort
<1>5. ASSUME NEW t \in Txns, LogCommit(t)
      PROVE  NothingTorn' /\ WellLogged(Logged, next_lsn, status)'
  BY <1>1, <1>3, <1>5 DEF LogCommit, Owners
<1>6. CASE LogCheckpoint
  BY <1>3, <1>6 DEF LogCheckpoint, Owners
<1>7. CASE Flush
  <2>1. /\ FlushOf(buffer) /\ next_lsn' = next_lsn /\ status' = status
    BY <1>7 DEF Flush
  <2>2. Logged' = Logged
    BY <1>1, <2>1, LoggedFlush DEF Logged
  <2> QED BY <1>1, <2>1, <2>2, FlushTearsNothing
<1>8. CASE Truncate
  <2>1. /\ file' = <<>> /\ buffer = <<>> /\ buffer' = <<>>
        /\ next_lsn' = next_lsn /\ status' = status
    BY <1>8 DEF Truncate
  <2>2. Logged' \in Seq(LogRecord) /\ Len(Logged') = 0
    <3>1. LogInv'
      BY LogStep DEF RecoveryInv
    <3> QED BY <2>1, <3>1, FileRecordsType, ConcatEmptySeq, EmptySeq DEF Logged, LogInv, TypeOK
  <2> QED BY <1>1, <2>1, <2>2 DEF NothingTorn, WellLogged, InLsnOrder, EndsComeLast
<1>9. CASE Crash
  BY <1>9, RecoveryCrash
<1>10. CASE UNCHANGED vars
  BY <1>1, <1>10 DEF vars, Logged, NothingTorn
<1>11. /\ \A t \in Txns: ~LogCommitFails(t)
       /\ ~LogCheckpointFails /\ ~FlushFails
  BY DEF LogCommitFails, LogCheckpointFails, FlushFails, FlushFailure
<1> QED BY <1>4, <1>5, <1>6, <1>7, <1>8, <1>9, <1>10, <1>11 DEF Next

(* "Monotonically increasing sequence number" (wal.py:73), over as many        *)
(* restarts as there are: the counter goes on after the last record read, so  *)
(* no LSN is given twice.  With the header size of the code nothing is read,   *)
(* and a new process starts again with 1.                                     *)
THEOREM LsnsGoUp ==
    ASSUME Unpackable, ~TornWrites, ~DiskErrors
    PROVE  Spec => []LsnsIncrease
<1>1. Init => RecoveryInv
  BY RecoveryInit
<1>2. RecoveryInv /\ [Next]_vars => RecoveryInv'
  BY RecoveryStep
<1>3. RecoveryInv => LsnsIncrease
  <2> SUFFICES ASSUME RecoveryInv, NEW i \in DOMAIN file, NEW j \in DOMAIN file, i < j
               PROVE  file[i].record.lsn < file[j].record.lsn
    BY DEF LsnsIncrease
  <2>1. /\ file \in Seq(Piece) /\ Len(Logged) = Len(file) + Len(buffer)
        /\ Len(file) \in Nat /\ Len(buffer) \in Nat
        /\ \A k \in 1..Len(file): Logged[k] = file[k].record
    BY LoggedIsFileThenBuffer DEF RecoveryInv, LogInv, TypeOK
  <2>2. i \in 1..Len(file) /\ j \in 1..Len(file)
    BY <2>1, LenProperties
  <2> QED BY <2>1, <2>2 DEF RecoveryInv, WellLogged, InLsnOrder
<1> QED BY <1>1, <1>2, <1>3, PTL DEF Spec

(* What recover makes of a log in which nothing follows an end.              *)
LEMMA RecoveredSorts ==
    ASSUME NEW M \in Seq(LogRecord), NEW st, EndsComeLast(M, st), NEW i \in 1..Len(M)
    PROVE  /\ M[i].type = "COMMIT" =>
                 /\ M[i].txn \in Recovered(M).committed
                 /\ M[i].txn \notin Recovered(M).aborted
           /\ M[i].type = "BEGIN" =>
                 (M[i].txn \in Recovered(M).committed) # (M[i].txn \in Recovered(M).aborted)
<1> DEFINE of(type) == {j \in 1..Len(M) : M[j].type = type}
           txns(I) == {M[j].txn : j \in I}
           open == {j \in of("BEGIN") :
                       \A k \in of("COMMIT") \union of("ABORT"):
                           k > j => M[k].txn # M[j].txn}
           t == M[i].txn
<1>1. /\ Recovered(M).committed = txns(of("COMMIT"))
      /\ Recovered(M).aborted = txns(of("ABORT") \union open)
  <2>1. DOMAIN M = 1..Len(M)
    BY LenProperties
  <2>2. Recovered(M) = [committed |-> txns(of("COMMIT")), aborted |-> txns(of("ABORT") \union open)]
    BY <2>1 DEF Recovered
  <2> QED BY <2>2
<1>2. \A j \in of("COMMIT") \union of("ABORT"): \A k \in 1..Len(M): M[k].txn = M[j].txn => k <= j
  BY DEF EndsComeLast, Ends
<1>3. ASSUME NEW j \in of("COMMIT") PROVE M[j].txn \notin txns(of("ABORT") \union open)
  <2>1. ASSUME NEW k \in of("ABORT"), M[k].txn = M[j].txn PROVE FALSE
    <3>1. k <= j /\ j <= k /\ k # j
      BY <1>2, <2>1
    <3> QED BY <3>1
  <2>2. ASSUME NEW k \in open, M[k].txn = M[j].txn PROVE FALSE
    <3>1. k <= j /\ k # j
      BY <1>2, <2>2
    <3>2. ~(j > k)
      BY <2>2
    <3> QED BY <3>1, <3>2
  <2> QED BY <2>1, <2>2
<1>4. M[i].type = "COMMIT" => i \in of("COMMIT") /\ t \in txns(of("COMMIT"))
  OBVIOUS
<1>5. ASSUME M[i].type = "BEGIN", t \notin txns(of("COMMIT"))
      PROVE  t \in txns(of("ABORT") \union open)
  <2>1. CASE t \in txns(of("ABORT"))
    BY <2>1
  <2>2. CASE t \notin txns(of("ABORT"))
    <3>1. \A k \in of("COMMIT") \union of("ABORT"): M[k].txn # t
      BY <1>5, <2>2
    <3>2. i \in open
      BY <1>5, <3>1
    <3> QED BY <3>2
  <2> QED BY <2>1, <2>2
<1>6. t \in txns(of("COMMIT")) => t \notin txns(of("ABORT") \union open)
  BY <1>3
<1>7. M[i].type = "COMMIT" => /\ t \in Recovered(M).committed
                              /\ t \notin Recovered(M).aborted
  BY <1>1, <1>4, <1>6
<1>8. M[i].type = "BEGIN" =>
         (t \in Recovered(M).committed) # (t \in Recovered(M).aborted)
  BY <1>1, <1>5, <1>6
<1> QED BY <1>7, <1>8

(* Recovery is right (wal.py:345-367; "assert 1 in committed", "assert 2 in    *)
(* aborted", tests/test_pysql.py:511-512): of any number of transactions,      *)
(* whatever was lost of the buffer, and in every restart.                     *)
THEOREM RecoverySortsRight ==
    ASSUME Unpackable, ~TornWrites, ~DiskErrors
    PROVE  Spec => RecoveryIsRight
<1>1. Init => RecoveryInv
  BY RecoveryInit
<1>2. RecoveryInv /\ [Next]_vars => RecoveryInv'
  BY RecoveryStep
<1>3. ASSUME RecoveryInv, [Next]_vars
      PROVE  /\ [crashes' # crashes =>
                    acked \subseteq recovered'.committed \ recovered'.aborted]_vars
             /\ [crashes' # crashes =>
                    \A i \in DOMAIN file':
                        file'[i].record.type = "BEGIN" /\ file'[i].cut = "no" =>
                            LET t == file'[i].record.txn
                            IN  (t \in recovered'.committed) # (t \in recovered'.aborted)]_vars
  <2> SUFFICES ASSUME Next, crashes' # crashes
               PROVE  /\ acked \subseteq recovered'.committed \ recovered'.aborted
                      /\ \A i \in DOMAIN file':
                            file'[i].record.type = "BEGIN" /\ file'[i].cut = "no" =>
                                LET t == file'[i].record.txn
                                IN  (t \in recovered'.committed) # (t \in recovered'.aborted)
    BY <1>3 DEF vars
  <2> USE <1>3
  <2>1. Crash
    BY DEF Next, LogBegin, LogChange, LogAbort, LogBuffered, LogCommit, LogCommitFails,
           LogCheckpoint, LogCheckpointFails, Flush, FlushFails, Truncate
  <2>2. file' \in Seq(Piece) /\ ReadAll(file') = FileRecords(file')
    BY <2>1, CrashReadsAll
  <2> PICK M : M = FileRecords(file')
    OBVIOUS
  <2>3. PICK k \in 0..Len(Logged): Len(M) = k /\ k >= Len(file) /\ \A i \in 1..k: M[i] = Logged[i]
    BY <2>1, CrashReadsAll
  <2>4. /\ M \in Seq(LogRecord) /\ Len(file') = k
        /\ \A i \in 1..k: M[i] = file'[i].record
    <3>1. M \in Seq(LogRecord) /\ Len(M) = Len(file')
      BY <2>2, FileRecordsType
    <3>2. M = [i \in 1..Len(file') |-> file'[i].record]
      BY DEF FileRecords
    <3> QED BY <2>3, <3>1, <3>2
  <2>5. EndsComeLast(M, status)
    <3>1. WellLogged(Logged, next_lsn, status)
      BY DEF RecoveryInv
    <3> QED BY <2>3, <2>4, <3>1, WellLoggedPrefix
  <2>6. recovered' = Recovered(M)
    BY <2>1, <2>2 DEF Crash
  <2>7. \A i \in 1..k:
           /\ M[i].type = "COMMIT" => /\ M[i].txn \in recovered'.committed
                                      /\ M[i].txn \notin recovered'.aborted
           /\ M[i].type = "BEGIN" =>
                 (M[i].txn \in recovered'.committed) # (M[i].txn \in recovered'.aborted)
    BY <2>3, <2>4, <2>5, <2>6, RecoveredSorts
  <2>8. ASSUME NEW t \in acked
        PROVE  t \in recovered'.committed /\ t \notin recovered'.aborted
    <3>1. PICK i \in DOMAIN file: file[i].record.type = "COMMIT" /\ file[i].record.txn = t
      BY DEF RecoveryInv, LogInv, AckedCommitsAreDurable
    <3>2. /\ i \in 1..Len(file) /\ Len(file) \in Nat /\ Logged[i] = file[i].record
      BY <3>1, LoggedIsFileThenBuffer, LenProperties DEF RecoveryInv, LogInv, TypeOK
    <3>3. i \in 1..k /\ M[i] = file[i].record
      BY <2>3, <3>2
    <3> QED BY <2>7, <3>1, <3>3
  <2>9. ASSUME NEW i \in DOMAIN file', file'[i].record.type = "BEGIN"
        PROVE  (file'[i].record.txn \in recovered'.committed)
                   # (file'[i].record.txn \in recovered'.aborted)
    <3>1. i \in 1..k
      BY <2>2, <2>4, LenProperties
    <3> QED BY <2>4, <2>7, <2>9, <3>1
  <2> QED BY <2>8, <2>9
<1>4. Spec => RecoveryFindsCommits /\ RecoveryFindsLosers
  BY <1>1, <1>2, <1>3, PTL DEF Spec, RecoveryFindsCommits, RecoveryFindsLosers
<1> QED BY <1>4 DEF RecoveryIsRight
==============================================================================
