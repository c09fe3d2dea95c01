------------------------------ MODULE MVCCProofs ------------------------------
(***************************************************************************)
(* What the version chains guarantee, for every number of keys, transactions *)
(* and versions.                                                            *)
(*                                                                          *)
(* A version was ended by the transaction that created the one before it in  *)
(* the chain.  Callers who keep clear of concurrent writers find every writer *)
(* of the chain in their snapshot, so snapshots grow along a chain from its   *)
(* tail to its head.  A reader is a set of transactions, its snapshot and     *)
(* itself, which with a writer contains everybody who wrote before: of each   *)
(* chain it sees one version at most, the first whose writer it contains,    *)
(* and none if that one was ended by somebody it contains.  A step of        *)
(* somebody it does not contain adds, marks or takes away what it does not   *)
(* see anyway.                                                              *)
(***************************************************************************)
EXTENDS MVCC, SequenceFacts

Ended(c, x) == [c EXCEPT ![1].xmax = x]

(* Every version was ended by the one before it in the chain.                *)
Linked(c) == \A i \in 1..(Len(c) - 1): c[i + 1].xmax = c[i].xmin

(* How the chain d comes from the chain c in a step.                         *)
Kept(c, d) ==
    \E n \in 0..Len(c): /\ n = Len(c) \/ n \in CutPoints(c)
                        /\ Len(d) = n /\ \A i \in 1..n: d[i] = c[i]

Pushed(c, d, t) ==
    /\ Len(d) = Len(c) + 1 /\ d[1].xmin = t /\ d[1].xmax = 0
    /\ \A i \in 1..Len(c): d[i + 1].xmin = c[i].xmin /\ d[i + 1].data = c[i].data
    /\ 1 <= Len(c) => d[2].xmax = t
    /\ \A i \in 2..Len(c): d[i + 1].xmax = c[i].xmax

Marked(c, d, t) ==
    /\ 1 <= Len(c) /\ Len(d) = Len(c) /\ d[1].xmax = t
    /\ \A i \in 1..Len(c): d[i].xmin = c[i].xmin /\ d[i].data = c[i].data
    /\ \A i \in 2..Len(c): d[i].xmax = c[i].xmax

Dropped(c, d, t) ==
    /\ 1 <= Len(c) /\ c[1].xmin = t /\ Len(d) = Len(c) - 1
    /\ \A i \in 1..(Len(c) - 1): d[i].xmin = c[i + 1].xmin /\ d[i].data = c[i + 1].data
    /\ \A i \in 2..(Len(c) - 1): d[i].xmax = c[i + 1].xmax
    /\ 2 <= Len(c) => d[1].xmax = IF c[2].xmax = t THEN 0 ELSE c[2].xmax

Unmarked(c, d, t) ==
    /\ 1 <= Len(c) => c[1].xmin # t
    /\ Len(d) = Len(c)
    /\ \A i \in 1..Len(c): d[i].xmin = c[i].xmin /\ d[i].data = c[i].data
    /\ \A i \in 2..Len(c): d[i].xmax = c[i].xmax
    /\ 1 <= Len(c) => d[1].xmax = IF c[1].xmax = t THEN 0 ELSE c[1].xmax

----------------------------------------------------------------------------
(* What the operators on chains return, index by index.                      *)
LEMMA VersionParts ==
    ASSUME NEW c \in Seq(Version), NEW i \in 1..Len(c)
    PROVE  /\ c[i] \in Version /\ c[i].xmin \in Txns /\ c[i].data \in Data
           /\ c[i].xmax \in Txns \union {0}
<1>1. c[i] \in Version
  BY ElementOfSeq
<1> QED BY <1>1 DEF Version

LEMMA TxnsAreNumbers ==
    /\ \A t \in Txns: t \in Nat /\ t # 0 /\ t <= MaxTxns
    /\ 0 \notin Txns /\ MaxTxns \in Nat
BY MVCCAssumption DEF Txns

LEMMA EndedParts ==
    ASSUME NEW c \in Seq(Version), c # <<>>, NEW x \in Txns \union {0}
    PROVE  /\ Ended(c, x) \in Seq(Version) /\ Len(Ended(c, x)) = Len(c)
           /\ Len(c) \in Nat /\ 1 <= Len(c)
           /\ Ended(c, x)[1].xmax = x
           /\ Ended(c, x)[1].xmin = c[1].xmin /\ Ended(c, x)[1].data = c[1].data
           /\ \A i \in 2..Len(c): Ended(c, x)[i] = c[i]
<1> PICK d : d = Ended(c, x)
  OBVIOUS
<1>1. Len(c) \in Nat /\ 1 <= Len(c) /\ DOMAIN c = 1..Len(c)
  BY LenProperties, EmptySeq
<1>2. c \in [1..Len(c) -> Version] /\ 1 \in 1..Len(c)
  BY <1>1, LenProperties
<1>3. c[1] \in Version
  BY <1>2
<1>4. [c[1] EXCEPT !.xmax = x] \in Version
  BY <1>3 DEF Version
<1>5. d = [c EXCEPT ![1] = [c[1] EXCEPT !.xmax = x]]
  BY <1>2 DEF Ended
<1>6. d \in Seq(Version) /\ Len(d) = Len(c)
  BY <1>2, <1>4, <1>5, ExceptSeq
<1>7. d[1] = [c[1] EXCEPT !.xmax = x]
  BY <1>2, <1>5
<1>8. \A i \in 2..Len(c): d[i] = c[i]
  BY <1>1, <1>2, <1>5
<1>9. d[1].xmax = x /\ d[1].xmin = c[1].xmin /\ d[1].data = c[1].data
  BY <1>3, <1>7 DEF Version
<1> QED BY <1>1, <1>6, <1>8, <1>9


(* What write_version and delete_version do to the newest version.           *)
LEMMA SupersededParts ==
    ASSUME NEW c \in Seq(Version), NEW t \in Txns
    PROVE  /\ Superseded(c, t) \in Seq(Version) /\ Len(Superseded(c, t)) = Len(c)
           /\ Len(c) \in Nat
           /\ \A i \in 1..Len(c): /\ Superseded(c, t)[i].xmin = c[i].xmin
                                  /\ Superseded(c, t)[i].data = c[i].data
           /\ 1 <= Len(c) => Superseded(c, t)[1].xmax = t
           /\ \A i \in 2..Len(c): Superseded(c, t)[i] = c[i]
<1> PICK d : d = Superseded(c, t)
  OBVIOUS
<1>1. Len(c) \in Nat
  BY LenProperties
<1>2. CASE c = <<>>
  <2>1. d = c /\ Len(c) = 0
    BY <1>2 DEF Superseded
  <2>2. \A i \in 1..Len(c): FALSE
    BY <2>1
  <2>3. ~(1 <= Len(c)) /\ \A i \in 2..Len(c): FALSE
    BY <2>1
  <2> QED BY <1>1, <2>1, <2>2, <2>3
<1>3. CASE c # <<>>
  <2>1. d = Ended(c, t)
    BY <1>3 DEF Superseded, Ended
  <2>2. /\ d \in Seq(Version) /\ Len(d) = Len(c)
        /\ d[1].xmax = t /\ d[1].xmin = c[1].xmin /\ d[1].data = c[1].data
        /\ \A i \in 2..Len(c): d[i] = c[i]
    BY <1>3, <2>1, EndedParts
  <2>3. \A i \in 1..Len(c): i = 1 \/ i \in 2..Len(c)
    BY <1>1
  <2> QED BY <1>1, <2>2, <2>3
<1> QED BY <1>2, <1>3

(* A new version in front.                                                   *)
LEMMA PushedParts ==
    ASSUME NEW c \in Seq(Version), NEW v \in Version
    PROVE  /\ <<v>> \o c \in Seq(Version) /\ Len(<<v>> \o c) = Len(c) + 1
           /\ (<<v>> \o c)[1] = v
           /\ \A i \in 1..Len(c): (<<v>> \o c)[i + 1] = c[i]
<1> PICK a : a = <<v>>
  OBVIOUS
<1>1. a \in Seq(Version) /\ Len(a) = 1 /\ a[1] = v
  OBVIOUS
<1>2. /\ a \o c \in Seq(Version) /\ Len(a \o c) = Len(a) + Len(c)
      /\ \A i \in 1..Len(a): (a \o c)[i] = a[i]
      /\ \A i \in 1..Len(c): (a \o c)[Len(a) + i] = c[i]
  BY <1>1, ConcatParts
<1>3. Len(c) \in Nat
  BY LenProperties
<1>4. \A i \in 1..Len(c): Len(a) + i = i + 1
  BY <1>1, <1>3
<1>5. Len(a) + Len(c) = Len(c) + 1 /\ 1 \in 1..Len(a)
  BY <1>1, <1>3
<1> QED BY <1>1, <1>2, <1>4, <1>5

(* _do_abort takes away the newest version if t wrote it, and t's mark on the *)
(* one that is the newest then.                                              *)
LEMMA RolledBackParts ==
    ASSUME NEW c \in Seq(Version), NEW t \in Txns
    PROVE  /\ RolledBack(c, t) \in Seq(Version)
           /\ Dropped(c, RolledBack(c, t), t) \/ Unmarked(c, RolledBack(c, t), t)
<1> PICK r : r = RolledBack(c, t)
  OBVIOUS
<1>1. Len(c) \in Nat /\ 0 \in Txns \union {0}
  BY LenProperties
<1>2. CASE c = <<>>
  <2>1. r = c /\ Len(c) = 0
    BY <1>2 DEF RolledBack
  <2>2. ~(1 <= Len(c)) /\ (\A i \in 1..Len(c): FALSE) /\ \A i \in 2..Len(c): FALSE
    BY <2>1
  <2>3. Unmarked(c, r, t)
    BY <2>1, <2>2 DEF Unmarked
  <2> QED BY <2>1, <2>3
<1>3. ASSUME c # <<>>, c[1].xmin = t
      PROVE  /\ r \in Seq(Version) /\ 1 <= Len(c) /\ Len(r) = Len(c) - 1
             /\ \A i \in 1..(Len(c) - 1): r[i].xmin = c[i + 1].xmin /\ r[i].data = c[i + 1].data
             /\ \A i \in 2..(Len(c) - 1): r[i].xmax = c[i + 1].xmax
             /\ 2 <= Len(c) => r[1].xmax = IF c[2].xmax = t THEN 0 ELSE c[2].xmax
  <2>0. PICK d : d = Tail(c)
    OBVIOUS
  <2>1. /\ d \in Seq(Version) /\ Len(d) = Len(c) - 1 /\ 1 <= Len(c)
        /\ \A i \in 1..(Len(c) - 1): d[i] = c[i + 1]
    <3>1. Tail(c) \in Seq(Version) /\ Len(Tail(c)) = Len(c) - 1
          /\ \A i \in 1..Len(Tail(c)): Tail(c)[i] = c[i + 1]
      BY <1>3, HeadTailProperties
    <3>2. 1 <= Len(c)
      BY <1>3, EmptySeq
    <3> QED BY <2>0, <3>1, <3>2
  <2>2. CASE Len(c) > 1 /\ c[2].xmax = t
    <3>1. r = [Tail(c) EXCEPT ![1].xmax = 0]
      <4>1. Head(c).xmin = t /\ c # <<>> /\ Len(c) > 1 /\ c[2].xmax = t
        BY <1>3, <2>2
      <4> QED BY <4>1 DEF RolledBack
    <3>2. d # <<>> /\ r = Ended(d, 0)
      <4>1. Len(d) # 0
        BY <1>1, <2>1, <2>2
      <4>2. d # <<>>
        BY <4>1, EmptySeq
      <4> QED BY <2>0, <3>1, <4>2 DEF Ended
    <3>3. /\ r \in Seq(Version) /\ Len(r) = Len(d)
          /\ r[1].xmax = 0 /\ r[1].xmin = d[1].xmin /\ r[1].data = d[1].data
          /\ \A i \in 2..Len(d): r[i] = d[i]
      BY <1>1, <2>1, <3>2, EndedParts
    <3>4. \A i \in 1..(Len(c) - 1): i = 1 \/ i \in 2..Len(d)
      BY <1>1, <2>1
    <3>5. \A i \in 2..(Len(c) - 1): i \in 2..Len(d) /\ i \in 1..(Len(c) - 1)
      BY <1>1, <2>1
    <3> QED BY <2>1, <2>2, <3>3, <3>4, <3>5
  <2>3. CASE ~(Len(c) > 1 /\ c[2].xmax = t)
    <3>1. r = d
      BY <1>3, <2>0, <2>3 DEF RolledBack
    <3>2. 2 <= Len(c) => 1 \in 1..(Len(c) - 1) /\ 1 + 1 = 2 /\ Len(c) > 1
      BY <1>1
    <3>3. \A i \in 2..(Len(c) - 1): i \in 1..(Len(c) - 1)
      BY <1>1
    <3> QED BY <2>1, <2>3, <3>1, <3>2, <3>3
  <2> QED BY <2>2, <2>3
<1>4. ASSUME c # <<>>, c[1].xmin # t
      PROVE  /\ r \in Seq(Version) /\ Len(r) = Len(c)
             /\ \A i \in 1..Len(c): r[i].xmin = c[i].xmin /\ r[i].data = c[i].data
             /\ \A i \in 2..Len(c): r[i].xmax = c[i].xmax
             /\ 1 <= Len(c) => r[1].xmax = IF c[1].xmax = t THEN 0 ELSE c[1].xmax
  <2>1. CASE c[1].xmax = t
    <3>1. r = Ended(c, 0)
      BY <1>4, <2>1 DEF RolledBack, Ended
    <3>2. /\ r \in Seq(Version) /\ Len(r) = Len(c)
          /\ r[1].xmax = 0 /\ r[1].xmin = c[1].xmin /\ r[1].data = c[1].data
          /\ \A i \in 2..Len(c): r[i] = c[i]
      BY <1>1, <1>4, <3>1, EndedParts
    <3>3. \A i \in 1..Len(c): i = 1 \/ i \in 2..Len(c)
      BY <1>1
    <3> QED BY <2>1, <3>2, <3>3
  <2>2. CASE c[1].xmax # t
    <3>1. r = c
      BY <1>4, <2>2 DEF RolledBack
    <3> QED BY <2>2, <3>1
  <2> QED BY <2>1, <2>2
<1>5. ASSUME c # <<>>, c[1].xmin = t PROVE r \in Seq(Version) /\ Dropped(c, r, t)
  BY <1>3, <1>5 DEF Dropped
<1>6. ASSUME c # <<>>, c[1].xmin # t PROVE r \in Seq(Version) /\ Unmarked(c, r, t)
  BY <1>4, <1>6 DEF Unmarked
<1> QED BY <1>2, <1>5, <1>6

(* garbage_collect keeps the versions up to a cut point, or all.             *)
LEMMA CollectedParts ==
    ASSUME NEW c \in Seq(Version)
    PROVE  Collected(c) \in Seq(Version) /\ Kept(c, Collected(c))
<1>1. Len(c) \in Nat
  BY LenProperties
<1>2. CASE CutPoints(c) = {}
  <2>1. Collected(c) = c /\ Len(c) \in 0..Len(c)
    BY <1>1, <1>2 DEF Collected
  <2> QED BY <2>1 DEF Kept
<1>3. CASE CutPoints(c) # {}
  <2> DEFINE n == CHOOSE i \in CutPoints(c): \A j \in CutPoints(c): i <= j
  <2>1. n \in CutPoints(c)
    <3>1. CutPoints(c) \in SUBSET Nat
      BY <1>1 DEF CutPoints
    <3>2. \E i \in CutPoints(c): \A j \in CutPoints(c): i <= j
      BY <1>3, <3>1, LeastOfSet
    <3> QED BY <3>2
  <2>2. Collected(c) = SubSeq(c, 1, n)
    BY <1>3 DEF Collected
  <2> HIDE DEF n
  <2>3. n \in Nat /\ 1 <= n + 1 /\ n <= Len(c) /\ 1 \in Nat \ {0}
    BY <1>1, <2>1 DEF CutPoints
  <2>4. /\ SubSeq(c, 1, n) \in Seq(Version) /\ Len(SubSeq(c, 1, n)) = n - 1 + 1
        /\ \A i \in 1..(n - 1 + 1): SubSeq(c, 1, n)[i] = c[1 + i - 1]
    BY <2>3, SubSeqParts
  <2>5. n - 1 + 1 = n /\ (\A i \in 1..n: 1 + i - 1 = i) /\ n \in 0..Len(c)
    BY <1>1, <2>3
  <2> QED BY <2>1, <2>2, <2>4, <2>5 DEF Kept
<1> QED BY <1>2, <1>3


----------------------------------------------------------------------------
LEMMA WriteDoes ==
    ASSUME TypeOK, NEW t \in Txns, NEW k \in Keys, NEW p \in Payloads, WriteVersion(t, k, p)
    PROVE  /\ t \in active_txns /\ Disciplined(t, k) /\ UNCHANGED txnVars
           /\ write_set' = [write_set EXCEPT ![t] = @ \union {k}]
           /\ versions[k] \in Seq(Version)
           /\ versions'[k] \in Seq(Version) /\ Pushed(versions[k], versions'[k], t)
           /\ versions'[k][1].data = <<t, p>>
           /\ \A q \in Keys: q # k => versions'[q] = versions[q]
<1> PICK c, v : c = versions[k] /\ v = [data |-> <<t, p>>, xmin |-> t, xmax |-> 0]
  OBVIOUS
<1>1. versions' = [versions EXCEPT ![k] = <<v>> \o Superseded(versions[k], t)]
  BY DEF WriteVersion
<1>2. c \in Seq(Version) /\ versions \in [Keys -> Seq(Version)]
  BY DEF TypeOK
<1>3. v \in Version /\ v.xmin = t /\ v.xmax = 0 /\ v.data = <<t, p>>
  BY DEF Version, Data
<1>4. PICK b : b = Superseded(c, t)
  OBVIOUS
<1>5. /\ b \in Seq(Version) /\ Len(b) = Len(c) /\ Len(c) \in Nat
      /\ \A i \in 1..Len(c): b[i].xmin = c[i].xmin /\ b[i].data = c[i].data
      /\ 1 <= Len(c) => b[1].xmax = t
      /\ \A i \in 2..Len(c): b[i] = c[i]
  BY <1>2, <1>4, SupersededParts
<1>6. PICK d : d = <<v>> \o b
  OBVIOUS
<1>7. /\ d \in Seq(Version) /\ Len(d) = Len(b) + 1 /\ d[1] = v
      /\ \A i \in 1..Len(b): d[i + 1] = b[i]
  BY <1>3, <1>5, <1>6, PushedParts
<1>8. versions'[k] = d /\ \A q \in Keys: q # k => versions'[q] = versions[q]
  BY <1>1, <1>2, <1>4, <1>6
<1>9. Pushed(c, d, t)
  <2>1. 1 <= Len(c) => 1 \in 1..Len(c) /\ 1 + 1 = 2
    BY <1>5
  <2>2. \A i \in 2..Len(c): i \in 1..Len(c)
    BY <1>5
  <2> QED BY <1>3, <1>5, <1>7, <2>1, <2>2 DEF Pushed
<1>10. t \in active_txns /\ Disciplined(t, k) /\ UNCHANGED txnVars
       /\ write_set' = [write_set EXCEPT ![t] = @ \union {k}]
  BY DEF WriteVersion
<1> QED BY <1>2, <1>3, <1>7, <1>8, <1>9, <1>10

LEMMA DeleteDoes ==
    ASSUME TypeOK, NEW t \in Txns, NEW k \in Keys, DeleteVersion(t, k)
    PROVE  /\ t \in active_txns /\ Disciplined(t, k) /\ UNCHANGED txnVars
           /\ write_set' = [write_set EXCEPT ![t] = @ \union {k}]
           /\ versions[k] \in Seq(Version)
           /\ versions'[k] \in Seq(Version) /\ Marked(versions[k], versions'[k], t)
           /\ \A q \in Keys: q # k => versions'[q] = versions[q]
<1> PICK c : c = versions[k]
  OBVIOUS
<1>1. versions' = [versions EXCEPT ![k] = Superseded(versions[k], t)] /\ c # <<>>
  BY DEF DeleteVersion
<1>2. c \in Seq(Version) /\ versions \in [Keys -> Seq(Version)]
  BY DEF TypeOK
<1>3. PICK b : b = Superseded(c, t)
  OBVIOUS
<1>4. /\ b \in Seq(Version) /\ Len(b) = Len(c) /\ Len(c) \in Nat
      /\ \A i \in 1..Len(c): b[i].xmin = c[i].xmin /\ b[i].data = c[i].data
      /\ 1 <= Len(c) => b[1].xmax = t
      /\ \A i \in 2..Len(c): b[i] = c[i]
  BY <1>2, <1>3, SupersededParts
<1>5. versions'[k] = b /\ \A q \in Keys: q # k => versions'[q] = versions[q]
  BY <1>1, <1>2, <1>3
<1>6. Marked(c, b, t)
  <2>1. 1 <= Len(c)
    BY <1>1, <1>2, EmptySeq
  <2> QED BY <1>4, <2>1 DEF Marked
<1>7. t \in active_txns /\ Disciplined(t, k) /\ UNCHANGED txnVars
      /\ write_set' = [write_set EXCEPT ![t] = @ \union {k}]
  BY DEF DeleteVersion
<1> QED BY <1>2, <1>4, <1>5, <1>6, <1>7

LEMMA AbortDoes ==
    ASSUME TypeOK, NEW t \in Txns, AbortTransaction(t), NEW k \in Keys
    PROVE  /\ versions[k] \in Seq(Version) /\ versions'[k] \in Seq(Version)
           /\ \/ Dropped(versions[k], versions'[k], t)
              \/ Unmarked(versions[k], versions'[k], t)
<1>1. versions'[k] = RolledBack(versions[k], t)
  BY DEF AbortTransaction
<1>2. PICK c, d : c = versions[k] /\ d = RolledBack(c, t)
  OBVIOUS
<1>3. c \in Seq(Version)
  BY <1>2 DEF TypeOK
<1>4. d \in Seq(Version) /\ (Dropped(c, d, t) \/ Unmarked(c, d, t))
  BY <1>2, <1>3, RolledBackParts
<1> QED BY <1>1, <1>2, <1>3, <1>4

LEMMA CollectDoes ==
    ASSUME TypeOK, GarbageCollect, NEW k \in Keys
    PROVE  /\ versions[k] \in Seq(Version) /\ versions'[k] \in Seq(Version)
           /\ Kept(versions[k], versions'[k])
<1>1. versions'[k] = Collected(versions[k])
  BY DEF GarbageCollect
<1>2. PICK c, d : c = versions[k] /\ d = Collected(c)
  OBVIOUS
<1>3. c \in Seq(Version)
  BY <1>2 DEF TypeOK
<1>4. d \in Seq(Version) /\ Kept(c, d)
  BY <1>2, <1>3, CollectedParts
<1> QED BY <1>1, <1>2, <1>3, <1>4


(* In a step a chain is written or marked by a transaction in progress,      *)
(* rolled back, or collected.                                                *)
LEMMA ChainMoves ==
    ASSUME TypeOK, [Next]_vars, NEW k \in Keys
    PROVE  /\ versions[k] \in Seq(Version) /\ versions'[k] \in Seq(Version)
           /\ \/ Kept(versions[k], versions'[k])
              \/ \E t \in Txns: /\ t \in active_txns /\ Disciplined(t, k) /\ UNCHANGED txnVars
                                /\ write_set' = [write_set EXCEPT ![t] = @ \union {k}]
                                /\ \/ Pushed(versions[k], versions'[k], t)
                                   \/ Marked(versions[k], versions'[k], t)
              \/ \E t \in Txns: /\ AbortTransaction(t)
                                /\ \/ Dropped(versions[k], versions'[k], t)
                                   \/ Unmarked(versions[k], versions'[k], t)
<1>1. versions[k] \in Seq(Version) /\ Len(versions[k]) \in 0..Len(versions[k])
  BY LenProperties DEF TypeOK
<1>2. CASE versions'[k] = versions[k]
  BY <1>1, <1>2 DEF Kept
<1>3. ASSUME NEW t \in Txns, NEW q \in Keys, NEW p \in Payloads, WriteVersion(t, q, p)
      PROVE  versions'[k] = versions[k] \/
             /\ t \in active_txns /\ Disciplined(t, k) /\ UNCHANGED txnVars
             /\ write_set' = [write_set EXCEPT ![t] = @ \union {k}]
             /\ versions'[k] \in Seq(Version) /\ Pushed(versions[k], versions'[k], t)
  <2>1. CASE q = k
    <3>1. WriteVersion(t, k, p)
      BY <1>3, <2>1
    <3> QED BY <3>1, WriteDoes
  <2>2. CASE q # k
    BY <1>3, <2>2, WriteDoes
  <2> QED BY <2>1, <2>2
<1>4. ASSUME NEW t \in Txns, NEW q \in Keys, DeleteVersion(t, q)
      PROVE  versions'[k] = versions[k] \/
             /\ t \in active_txns /\ Disciplined(t, k) /\ UNCHANGED txnVars
             /\ write_set' = [write_set EXCEPT ![t] = @ \union {k}]
             /\ versions'[k] \in Seq(Version) /\ Marked(versions[k], versions'[k], t)
  <2>1. CASE q = k
    <3>1. DeleteVersion(t, k)
      BY <1>4, <2>1
    <3> QED BY <3>1, DeleteDoes
  <2>2. CASE q # k
    BY <1>4, <2>2, DeleteDoes
  <2> QED BY <2>1, <2>2
<1>5. BeginTransaction \/ (\E t \in Txns: CommitTransaction(t)) \/ UNCHANGED vars
      => versions' = versions
  BY DEF BeginTransaction, CommitTransaction, vars
<1>6. ASSUME GarbageCollect
      PROVE  versions'[k] \in Seq(Version) /\ Kept(versions[k], versions'[k])
  BY <1>6, CollectDoes
<1>7. ASSUME NEW t \in Txns, AbortTransaction(t)
      PROVE  /\ versions'[k] \in Seq(Version)
             /\ \/ Dropped(versions[k], versions'[k], t)
                \/ Unmarked(versions[k], versions'[k], t)
  BY <1>7, AbortDoes
<1> QED BY <1>1, <1>2, <1>3, <1>4, <1>5, <1>6, <1>7 DEF Next

(* Writing, marking and rolling back keep a chain linked.                    *)
LEMMA LinkedMoves ==
    ASSUME NEW c \in Seq(Version), NEW d \in Seq(Version), Linked(c), NEW t \in Txns,
           \/ Pushed(c, d, t) \/ Marked(c, d, t)
           \/ Dropped(c, d, t) \/ Unmarked(c, d, t)
    PROVE  Linked(d)
<1> SUFFICES ASSUME NEW i \in 1..(Len(d) - 1) PROVE d[i + 1].xmax = d[i].xmin
  BY DEF Linked
<1>1. Len(c) \in Nat /\ Len(d) \in Nat /\ i \in Nat /\ 1 <= i /\ i + 1 <= Len(d)
  BY LenProperties
<1>3. CASE Pushed(c, d, t)
  <2>1. CASE i = 1
    <3>1. i + 1 = 2 /\ 1 <= Len(c)
      BY <1>1, <1>3, <2>1 DEF Pushed
    <3> QED BY <1>3, <2>1, <3>1 DEF Pushed
  <2>2. CASE i # 1
    <3>1. /\ i \in 2..Len(c) /\ i - 1 \in 1..(Len(c) - 1) /\ (i - 1) + 1 = i
          /\ i - 1 \in 1..Len(c)
      BY <1>1, <1>3, <2>2 DEF Pushed
    <3>2. d[i + 1].xmax = c[i].xmax /\ d[(i - 1) + 1].xmin = c[i - 1].xmin
      BY <1>3, <3>1 DEF Pushed
    <3>3. c[(i - 1) + 1].xmax = c[i - 1].xmin
      BY <3>1 DEF Linked
    <3> QED BY <3>1, <3>2, <3>3
  <2> QED BY <2>1, <2>2
<1>4. CASE Marked(c, d, t) \/ Unmarked(c, d, t)
  <2>1. Len(d) = Len(c)
    BY <1>4 DEF Marked, Unmarked
  <2>2. i \in 1..Len(c) /\ i + 1 \in 2..Len(c) /\ i \in 1..(Len(c) - 1)
    BY <1>1, <2>1
  <2>3. d[i + 1].xmax = c[i + 1].xmax /\ d[i].xmin = c[i].xmin
    BY <1>4, <2>2 DEF Marked, Unmarked
  <2> QED BY <2>2, <2>3 DEF Linked
<1>5. CASE Dropped(c, d, t)
  <2>1. /\ i \in 1..(Len(c) - 1) /\ i + 1 \in 2..(Len(c) - 1) /\ i + 1 \in 1..(Len(c) - 1)
    BY <1>1, <1>5 DEF Dropped
  <2>2. d[i + 1].xmax = c[(i + 1) + 1].xmax /\ d[i].xmin = c[i + 1].xmin
    BY <1>5, <2>1 DEF Dropped
  <2>3. c[(i + 1) + 1].xmax = c[i + 1].xmin
    BY <2>1 DEF Linked
  <2> QED BY <2>2, <2>3
<1> QED BY <1>3, <1>4, <1>5

----------------------------------------------------------------------------
(* Chains are linked, whatever the callers do.                               *)
LinkInv == TypeOK /\ \A k \in Keys: Linked(versions[k])

LEMMA LinkInit == Init => LinkInv
<1> SUFFICES ASSUME Init PROVE LinkInv
  OBVIOUS
<1>1. TypeOK
  <2>1. NoSnapshot \in [active : SUBSET Txns, committed : SUBSET Txns]
    BY DEF NoSnapshot
  <2>2. 1 \in 1..(MaxTxns + 1)
    BY TxnsAreNumbers
  <2> QED BY <2>1, <2>2 DEF Init, TypeOK
<1>2. ASSUME NEW k \in Keys PROVE Linked(versions[k])
  <2>1. Len(versions[k]) = 0
    BY DEF Init
  <2> QED BY <2>1 DEF Linked
<1> QED BY <1>1, <1>2 DEF LinkInv

LEMMA TypeStep == TypeOK /\ [Next]_vars => TypeOK'
<1> SUFFICES ASSUME TypeOK, [Next]_vars PROVE TypeOK'
  OBVIOUS
<1>1. versions' \in [Keys -> Seq(Version)]
  <2>1. \A k \in Keys: versions'[k] \in Seq(Version)
    BY ChainMoves
  <2>2. versions' = [k \in Keys |-> versions'[k]]
    <3>1. versions = [k \in Keys |-> versions[k]]
      BY DEF TypeOK
    <3> QED BY <3>1 DEF Next, BeginTransaction, CommitTransaction, AbortTransaction,
                        WriteVersion, DeleteVersion, GarbageCollect, vars
  <2> QED BY <2>1, <2>2
<1>2. CASE BeginTransaction
  <2>1. next_txn_id + 1 \in 1..(MaxTxns + 1)
    BY <1>2, TxnsAreNumbers DEF BeginTransaction, Txns
  <2>2. [active |-> active_txns, committed |-> committed_txns]
           \in [active : SUBSET Txns, committed : SUBSET Txns]
    BY DEF TypeOK
  <2> QED BY <1>1, <1>2, <2>1, <2>2 DEF BeginTransaction, TypeOK
<1>3. ASSUME NEW t \in Txns, CommitTransaction(t) PROVE TypeOK'
  BY <1>1, <1>3 DEF CommitTransaction, TypeOK
<1>4. ASSUME NEW t \in Txns, AbortTransaction(t) PROVE TypeOK'
  BY <1>1, <1>4 DEF AbortTransaction, TypeOK
<1>5. ASSUME NEW t \in Txns, NEW k \in Keys,
             DeleteVersion(t, k) \/ \E p \in Payloads: WriteVersion(t, k, p)
      PROVE  TypeOK'
  <2>1. UNCHANGED txnVars /\ write_set' = [write_set EXCEPT ![t] = @ \union {k}]
    BY <1>5 DEF DeleteVersion, WriteVersion
  <2> QED BY <1>1, <2>1 DEF txnVars, TypeOK
<1>6. CASE GarbageCollect
  BY <1>1, <1>6 DEF GarbageCollect, txnVars, TypeOK
<1>7. CASE UNCHANGED vars
  BY <1>1, <1>7 DEF vars, TypeOK
<1> QED BY <1>2, <1>3, <1>4, <1>5, <1>6, <1>7 DEF Next

LEMMA LinkStep == LinkInv /\ [Next]_vars => LinkInv'
<1> SUFFICES ASSUME LinkInv, [Next]_vars PROVE LinkInv'
  OBVIOUS
<1>1. TypeOK /\ TypeOK'
  BY TypeStep DEF LinkInv
<1>2. ASSUME NEW k \in Keys PROVE Linked(versions'[k])
  <2>1. PICK c, d : c = versions[k] /\ d = versions'[k]
    OBVIOUS
  <2>2. c \in Seq(Version) /\ d \in Seq(Version) /\ Linked(c)
    BY <1>1, <2>1, ChainMoves DEF LinkInv
  <2>3. \/ Kept(c, d)
        \/ \E t \in Txns: \/ Pushed(c, d, t) \/ Marked(c, d, t)
                          \/ Dropped(c, d, t) \/ Unmarked(c, d, t)
    BY <1>1, <2>1, ChainMoves
  <2>4. CASE Kept(c, d)
    <3>1. PICK n \in 0..Len(c): Len(d) = n /\ \A j \in 1..n: d[j] = c[j]
      BY <2>4 DEF Kept
    <3>2. \A i \in 1..(n - 1): i \in 1..n /\ i + 1 \in 1..n /\ i \in 1..(Len(c) - 1)
      BY <2>2, LenProperties
    <3> QED BY <2>1, <2>2, <3>1, <3>2 DEF Linked
  <2>5. CASE \E t \in Txns: \/ Pushed(c, d, t) \/ Marked(c, d, t)
                            \/ Dropped(c, d, t) \/ Unmarked(c, d, t)
    BY <2>1, <2>2, <2>5, LinkedMoves
  <2> QED BY <2>3, <2>4, <2>5
<1> QED BY <1>1, <1>2 DEF LinkInv, Linked

LEMMA LinkAlways == Spec => []LinkInv
BY LinkInit, LinkStep, PTL DEF Spec


----------------------------------------------------------------------------
(* Who is in progress, committed or aborted has begun and is only one of      *)
(* these; a snapshot holds what had committed when it was taken.             *)
Begun == 1..(next_txn_id - 1)

StatusesDiffer ==
    /\ active_txns \subseteq Begun /\ committed_txns \subseteq Begun /\ aborted_txns \subseteq Begun
    /\ active_txns \cap committed_txns = {} /\ active_txns \cap aborted_txns = {}
    /\ committed_txns \cap aborted_txns = {}

SnapshotsAreOlder ==
    \A t \in Txns: /\ snapshot[t].committed \subseteq committed_txns
                   /\ snapshot[t].committed \cap snapshot[t].active = {}

SnapshotsGrow ==
    \A t, u \in Begun: t <= u => snapshot[t].committed \subseteq snapshot[u].committed

SnapshotsAreOfEarlier == \A t \in Txns: \A u \in snapshot[t].committed: u < t

NotBegunNotWritten == \A t \in Txns \ Begun: write_set[t] = {}

StatusInv ==
    /\ TypeOK /\ StatusesDiffer /\ SnapshotsAreOlder /\ SnapshotsGrow
    /\ SnapshotsAreOfEarlier /\ NotBegunNotWritten

LEMMA BegunParts ==
    ASSUME TypeOK
    PROVE  /\ next_txn_id \in Nat /\ 1 <= next_txn_id /\ next_txn_id <= MaxTxns + 1
           /\ Begun \subseteq Txns /\ next_txn_id \notin Begun
           /\ \A t \in Begun: t \in Nat /\ t < next_txn_id
           /\ \A t \in Txns: t \in Begun \/ t >= next_txn_id
BY TxnsAreNumbers DEF TypeOK, Begun, Txns

LEMMA StatusInit == Init => StatusInv
<1> SUFFICES ASSUME Init PROVE StatusInv
  OBVIOUS
<1>1. TypeOK
  BY LinkInit DEF LinkInv
<1>2. Begun = {}
  BY DEF Init, Begun
<1> QED BY <1>1, <1>2 DEF Init, StatusInv, StatusesDiffer, SnapshotsAreOlder, SnapshotsGrow,
            SnapshotsAreOfEarlier, NotBegunNotWritten, NoSnapshot

LEMMA BeginDoes ==
    ASSUME StatusInv, BeginTransaction
    PROVE  /\ next_txn_id \in Txns /\ next_txn_id' = next_txn_id + 1
           /\ Begun' = Begun \union {next_txn_id}
           /\ next_txn_id \notin active_txns \union committed_txns \union aborted_txns
           /\ active_txns' = active_txns \union {next_txn_id}
           /\ committed_txns' = committed_txns /\ aborted_txns' = aborted_txns
           /\ snapshot'[next_txn_id].active = active_txns
           /\ snapshot'[next_txn_id].committed = committed_txns
           /\ \A t \in Txns: t # next_txn_id => snapshot'[t] = snapshot[t]
           /\ write_set' = write_set /\ write_set[next_txn_id] = {} /\ versions' = versions
<1>1. TypeOK /\ TypeOK'
  BY TypeStep DEF StatusInv, Next
<1>2. /\ next_txn_id \in Txns /\ next_txn_id' = next_txn_id + 1
      /\ active_txns' = active_txns \union {next_txn_id}
      /\ committed_txns' = committed_txns /\ aborted_txns' = aborted_txns
      /\ write_set' = write_set /\ versions' = versions
  BY DEF BeginTransaction
<1>3. /\ snapshot'[next_txn_id].active = active_txns
      /\ snapshot'[next_txn_id].committed = committed_txns
      /\ \A t \in Txns: t # next_txn_id => snapshot'[t] = snapshot[t]
  BY <1>1, <1>2 DEF BeginTransaction, TypeOK
<1>4. Begun' = Begun \union {next_txn_id}
  BY <1>1, <1>2, BegunParts DEF Begun
<1>5. next_txn_id \notin active_txns \union committed_txns \union aborted_txns
  BY <1>1, BegunParts DEF StatusInv, StatusesDiffer
<1>6. write_set[next_txn_id] = {}
  BY <1>1, <1>2, BegunParts DEF StatusInv, NotBegunNotWritten
<1> QED BY <1>2, <1>3, <1>4, <1>5, <1>6

(* A transaction that ends is no longer in progress; nothing else changes     *)
(* what a transaction is.                                                    *)
LEMMA StatusMoves ==
    ASSUME StatusInv, [Next]_vars
    PROVE  /\ committed_txns \subseteq committed_txns' /\ Begun \subseteq Begun'
           /\ \A t \in Begun: snapshot'[t] = snapshot[t]
           /\ \A t \in Txns: write_set[t] \subseteq write_set'[t]
           /\ \A t \in active_txns: \/ t \in active_txns' \/ t \in committed_txns'
                                    \/ AbortTransaction(t)
<1>1. TypeOK
  BY DEF StatusInv
<1>2. CASE BeginTransaction
  BY <1>1, <1>2, BeginDoes, BegunParts
<1>3. ASSUME NEW t \in Txns, CommitTransaction(t) \/ AbortTransaction(t)
      PROVE  /\ committed_txns \subseteq committed_txns' /\ next_txn_id' = next_txn_id
             /\ snapshot' = snapshot /\ write_set' = write_set
             /\ \A u \in active_txns: \/ u \in active_txns' \/ u \in committed_txns'
                                      \/ u = t /\ AbortTransaction(u)
  BY <1>3 DEF CommitTransaction, AbortTransaction
<1>4. ASSUME NEW t \in Txns, NEW k \in Keys,
             DeleteVersion(t, k) \/ \E p \in Payloads: WriteVersion(t, k, p)
      PROVE  /\ UNCHANGED txnVars
             /\ \A u \in Txns: write_set[u] \subseteq write_set'[u]
  <2>1. UNCHANGED txnVars /\ write_set' = [write_set EXCEPT ![t] = @ \union {k}]
    BY <1>4 DEF DeleteVersion, WriteVersion
  <2> QED BY <1>1, <2>1 DEF TypeOK
<1>5. CASE GarbageCollect
  BY <1>5 DEF GarbageCollect, txnVars, Begun
<1>6. CASE UNCHANGED vars
  BY <1>6 DEF vars, Begun
<1>7. next_txn_id' = next_txn_id => Begun' = Begun
  BY DEF Begun
<1> QED BY <1>2, <1>3, <1>4, <1>5, <1>6, <1>7 DEF Next, txnVars

LEMMA StatusStep == StatusInv /\ [Next]_vars => StatusInv'
<1> SUFFICES ASSUME StatusInv, [Next]_vars PROVE StatusInv'
  OBVIOUS
<1>1. TypeOK /\ TypeOK'
  BY TypeStep DEF StatusInv
<1>2. CASE BeginTransaction
  <2>1. \A t \in Begun: t \in Txns /\ t # next_txn_id /\ t < next_txn_id
    BY <1>1, BegunParts
  <2>2. StatusesDiffer'
    BY <1>2, BeginDoes DEF StatusInv, StatusesDiffer
  <2>3. SnapshotsAreOlder'
    <3>1. committed_txns \cap active_txns = {}
      BY DEF StatusInv, StatusesDiffer
    <3> QED BY <1>2, <3>1, BeginDoes DEF StatusInv, SnapshotsAreOlder
  <2>4. SnapshotsGrow'
    <3> SUFFICES ASSUME NEW t \in Begun', NEW u \in Begun', t <= u
                 PROVE  snapshot'[t].committed \subseteq snapshot'[u].committed
      BY DEF SnapshotsGrow
    <3>1. CASE u = next_txn_id
      BY <1>2, <2>1, <3>1, BeginDoes DEF StatusInv, SnapshotsAreOlder
    <3>2. CASE u # next_txn_id
      <4>1. u \in Begun /\ t # next_txn_id
        BY <1>1, <1>2, <2>1, <3>2, BeginDoes, BegunParts
      <4>2. t \in Begun
        BY <1>2, <4>1, BeginDoes
      <4> QED BY <1>2, <2>1, <4>1, <4>2, BeginDoes DEF StatusInv, SnapshotsGrow
    <3> QED BY <3>1, <3>2
  <2>5. SnapshotsAreOfEarlier'
    <3>1. \A u \in committed_txns: u < next_txn_id
      BY <2>1 DEF StatusInv, StatusesDiffer
    <3> QED BY <1>2, <3>1, BeginDoes DEF StatusInv, SnapshotsAreOfEarlier
  <2>6. NotBegunNotWritten'
    BY <1>2, BeginDoes DEF StatusInv, NotBegunNotWritten
  <2> QED BY <1>1, <2>2, <2>3, <2>4, <2>5, <2>6 DEF StatusInv
<1>3. ASSUME next_txn_id' = next_txn_id, snapshot' = snapshot,
             committed_txns \subseteq committed_txns', StatusesDiffer',
             \A t \in Txns \ Begun: write_set'[t] = write_set[t]
      PROVE  StatusInv'
  <2>1. Begun' = Begun
    BY <1>3 DEF Begun
  <2>2. SnapshotsAreOlder' /\ SnapshotsGrow' /\ SnapshotsAreOfEarlier'
    BY <1>3, <2>1 DEF StatusInv, SnapshotsAreOlder, SnapshotsGrow, SnapshotsAreOfEarlier
  <2>3. NotBegunNotWritten'
    BY <1>3, <2>1 DEF StatusInv, NotBegunNotWritten
  <2> QED BY <1>1, <1>3, <2>2, <2>3 DEF StatusInv
<1>4. ASSUME NEW t \in Txns, CommitTransaction(t) \/ AbortTransaction(t) PROVE StatusInv'
  <2>1. /\ next_txn_id' = next_txn_id /\ snapshot' = snapshot /\ write_set' = write_set
        /\ committed_txns \subseteq committed_txns'
    BY <1>4 DEF CommitTransaction, AbortTransaction
  <2>2. StatusesDiffer'
    BY <1>4, <2>1 DEF CommitTransaction, AbortTransaction, StatusInv, StatusesDiffer, Begun
  <2> QED BY <1>3, <2>1, <2>2
<1>5. ASSUME NEW t \in Txns, NEW k \in Keys,
             DeleteVersion(t, k) \/ \E p \in Payloads: WriteVersion(t, k, p)
      PROVE  StatusInv'
  <2>1. /\ UNCHANGED txnVars /\ write_set' = [write_set EXCEPT ![t] = @ \union {k}]
        /\ t \in active_txns
    BY <1>5 DEF DeleteVersion, WriteVersion
  <2>2. StatusesDiffer' /\ t \in Begun
    BY <2>1 DEF txnVars, StatusInv, StatusesDiffer, Begun
  <2>3. \A u \in Txns \ Begun: write_set'[u] = write_set[u]
    BY <1>1, <2>1, <2>2 DEF TypeOK
  <2> QED BY <1>3, <2>1, <2>2, <2>3 DEF txnVars
<1>6. CASE GarbageCollect \/ UNCHANGED vars
  <2>1. UNCHANGED txnVars /\ write_set' = write_set
    BY <1>6 DEF GarbageCollect, vars, txnVars
  <2>2. StatusesDiffer'
    BY <2>1 DEF txnVars, StatusInv, StatusesDiffer, Begun
  <2> QED BY <1>3, <2>1, <2>2 DEF txnVars
<1> QED BY <1>2, <1>4, <1>5, <1>6 DEF Next


----------------------------------------------------------------------------
(* Who wrote or ended a version has its key in the write set; an open writer  *)
(* is only at the head of a chain, and has in its snapshot everybody who      *)
(* wrote the key before it.                                                  *)
WritersWrote ==
    \A k \in Keys: \A i \in 1..Len(versions[k]): k \in write_set[versions[k][i].xmin]

EndersWrote ==
    \A k \in Keys: \A i \in 1..Len(versions[k]):
        versions[k][i].xmax # 0 => k \in write_set[versions[k][i].xmax]

OnlyHeadIsOpen ==
    \A k \in Keys: \A i \in 1..Len(versions[k]):
        \/ versions[k][i].xmin \in committed_txns
        \/ i = 1 /\ versions[k][i].xmin \in active_txns

WritersSawWriters ==
    \A k \in Keys: \A i, j \in 1..Len(versions[k]): i < j =>
        versions[k][j].xmin \in snapshot[versions[k][i].xmin].committed

SoundInv ==
    /\ LinkInv /\ StatusInv
    /\ WritersWrote /\ EndersWrote /\ OnlyHeadIsOpen /\ WritersSawWriters

LEMMA SoundInit == Init => SoundInv
<1> SUFFICES ASSUME Init PROVE SoundInv
  OBVIOUS
<1>1. \A k \in Keys: \A i \in 1..Len(versions[k]): FALSE
  BY DEF Init
<1> QED BY <1>1, LinkInit, StatusInit
           DEF SoundInv, WritersWrote, EndersWrote, OnlyHeadIsOpen, WritersSawWriters

(* A version of the new chain is a new one or one of the old chain; only its  *)
(* end may be another.                                                      *)
LEMMA VersionsMove ==
    ASSUME NEW c \in Seq(Version), NEW d \in Seq(Version), NEW t \in Txns,
           \/ Pushed(c, d, t) \/ Marked(c, d, t) \/ Dropped(c, d, t) \/ Unmarked(c, d, t),
           NEW i \in 1..Len(d)
    PROVE  \/ Pushed(c, d, t) /\ i = 1 /\ d[i].xmin = t /\ d[i].xmax = 0
           \/ \E j \in 1..Len(c):
                 /\ d[i].xmin = c[j].xmin /\ d[i].data = c[j].data
                 /\ \/ d[i].xmax = c[j].xmax
                    \/ d[i].xmax = 0
                    \/ d[i].xmax = t /\ (Pushed(c, d, t) \/ Marked(c, d, t))
<1>1. Len(c) \in Nat /\ Len(d) \in Nat /\ i \in Nat /\ 1 <= i /\ i <= Len(d)
  BY LenProperties
<1>2. CASE Pushed(c, d, t)
  <2>1. CASE i = 1
    BY <1>2, <2>1 DEF Pushed
  <2>2. CASE i # 1
    <3> PICK j : j = i - 1
      OBVIOUS
    <3>1. j \in 1..Len(c) /\ j + 1 = i /\ (j = 1 \/ j \in 2..Len(c)) /\ 1 <= Len(c)
      BY <1>1, <1>2, <2>2 DEF Pushed
    <3>2. d[j + 1].xmin = c[j].xmin /\ d[j + 1].data = c[j].data
      BY <1>2, <3>1 DEF Pushed
    <3>3. CASE j = 1
      <4>1. i = 2 /\ d[2].xmax = t
        BY <1>2, <3>1, <3>3 DEF Pushed
      <4> QED BY <1>2, <3>1, <3>2, <4>1
    <3>4. CASE j \in 2..Len(c)
      <4>1. d[j + 1].xmax = c[j].xmax
        BY <1>2, <3>4 DEF Pushed
      <4> QED BY <3>1, <3>2, <4>1
    <3> QED BY <3>1, <3>3, <3>4
  <2> QED BY <2>1, <2>2
<1>3. CASE Marked(c, d, t) \/ Unmarked(c, d, t)
  <2>1. Len(d) = Len(c) /\ i \in 1..Len(c) /\ (i = 1 \/ i \in 2..Len(c)) /\ 1 <= Len(c)
    BY <1>1, <1>3 DEF Marked, Unmarked
  <2>2. d[i].xmin = c[i].xmin /\ d[i].data = c[i].data
    BY <1>3, <2>1 DEF Marked, Unmarked
  <2>3. \/ d[i].xmax = c[i].xmax
        \/ d[i].xmax = 0
        \/ d[i].xmax = t /\ Marked(c, d, t)
    <3>1. CASE Marked(c, d, t)
      BY <2>1, <3>1 DEF Marked
    <3>2. CASE Unmarked(c, d, t)
      BY <2>1, <3>2 DEF Unmarked
    <3> QED BY <1>3, <3>1, <3>2
  <2> QED BY <2>1, <2>2, <2>3
<1>4. CASE Dropped(c, d, t)
  <2> PICK j : j = i + 1
    OBVIOUS
  <2>1. /\ Len(d) = Len(c) - 1 /\ i \in 1..(Len(c) - 1) /\ j \in 1..Len(c)
        /\ (i = 1 /\ j = 2) \/ i \in 2..(Len(c) - 1)
        /\ 2 <= Len(c)
    BY <1>1, <1>4 DEF Dropped
  <2>2. d[i].xmin = c[j].xmin /\ d[i].data = c[j].data
    BY <1>4, <2>1 DEF Dropped
  <2>3. d[i].xmax = c[j].xmax \/ d[i].xmax = 0
    BY <1>4, <2>1 DEF Dropped
  <2> QED BY <2>1, <2>2, <2>3
<1> QED BY <1>2, <1>3, <1>4

LEMMA WritersWroteStep ==
    ASSUME SoundInv, [Next]_vars
    PROVE  WritersWrote' /\ EndersWrote'
<1> SUFFICES ASSUME NEW k \in Keys, NEW i \in 1..Len(versions'[k])
             PROVE  /\ k \in write_set'[versions'[k][i].xmin]
                    /\ versions'[k][i].xmax # 0 => k \in write_set'[versions'[k][i].xmax]
  BY DEF WritersWrote, EndersWrote
<1>0. TypeOK /\ StatusInv
  BY DEF SoundInv, StatusInv
<1>1. PICK c, d : c = versions[k] /\ d = versions'[k]
  OBVIOUS
<1>2. c \in Seq(Version) /\ d \in Seq(Version) /\ i \in 1..Len(d)
  BY <1>0, <1>1, ChainMoves
<1>3. \A t \in Txns: k \in write_set[t] => k \in write_set'[t]
  BY <1>0, StatusMoves
<1>4. \A j \in 1..Len(c): /\ k \in write_set[c[j].xmin] /\ c[j].xmin \in Txns
                          /\ c[j].xmax \in Txns \union {0}
                          /\ c[j].xmax # 0 => k \in write_set[c[j].xmax]
  <2>1. \A j \in 1..Len(c): c[j].xmin \in Txns /\ c[j].xmax \in Txns \union {0}
    BY <1>2, VersionParts
  <2> QED BY <1>1, <2>1 DEF SoundInv, WritersWrote, EndersWrote
<1>5. CASE Kept(c, d)
  <2>1. PICK n \in 0..Len(c): Len(d) = n /\ \A j \in 1..n: d[j] = c[j]
    BY <1>5 DEF Kept
  <2>2. i \in 1..Len(c) /\ d[i] = c[i]
    BY <1>2, <2>1, LenProperties
  <2> QED BY <1>1, <1>3, <1>4, <2>2
<1>6. ASSUME NEW t \in Txns,
             Pushed(c, d, t) \/ Marked(c, d, t) => k \in write_set'[t],
             \/ Pushed(c, d, t) \/ Marked(c, d, t) \/ Dropped(c, d, t) \/ Unmarked(c, d, t)
      PROVE  /\ k \in write_set'[d[i].xmin]
             /\ d[i].xmax # 0 => k \in write_set'[d[i].xmax]
  <2>1. \/ Pushed(c, d, t) /\ i = 1 /\ d[i].xmin = t /\ d[i].xmax = 0
        \/ \E j \in 1..Len(c):
              /\ d[i].xmin = c[j].xmin /\ d[i].data = c[j].data
              /\ \/ d[i].xmax = c[j].xmax
                 \/ d[i].xmax = 0
                 \/ d[i].xmax = t /\ (Pushed(c, d, t) \/ Marked(c, d, t))
    BY <1>2, <1>6, VersionsMove
  <2>2. CASE Pushed(c, d, t) /\ i = 1 /\ d[i].xmin = t /\ d[i].xmax = 0
    BY <1>6, <2>2
  <2>3. ASSUME NEW j \in 1..Len(c), d[i].xmin = c[j].xmin,
               \/ d[i].xmax = c[j].xmax
               \/ d[i].xmax = 0
               \/ d[i].xmax = t /\ (Pushed(c, d, t) \/ Marked(c, d, t))
        PROVE  /\ k \in write_set'[d[i].xmin]
               /\ d[i].xmax # 0 => k \in write_set'[d[i].xmax]
    BY <1>3, <1>4, <1>6, <2>3
  <2> QED BY <2>1, <2>2, <2>3
<1>7. ASSUME NEW t \in Txns, write_set' = [write_set EXCEPT ![t] = @ \union {k}]
      PROVE  k \in write_set'[t]
  BY <1>0, <1>7 DEF TypeOK
<1>8. ASSUME NEW t \in Txns, Dropped(c, d, t) \/ Unmarked(c, d, t),
             Pushed(c, d, t) \/ Marked(c, d, t)
      PROVE  k \in write_set'[t]
  <2>1. Len(c) \in Nat /\ Len(d) \in Nat /\ 1 <= Len(d)
    BY <1>2, LenProperties
  <2>2. ~Pushed(c, d, t) /\ Unmarked(c, d, t) /\ Marked(c, d, t)
    BY <1>8, <2>1 DEF Pushed, Marked, Dropped, Unmarked
  <2>3. t # 0 /\ d[1].xmax = t /\ c[1].xmax # t /\ d[1].xmax = c[1].xmax
    BY <2>1, <2>2, TxnsAreNumbers DEF Marked, Unmarked
  <2> QED BY <2>3
<1> QED BY <1>0, <1>1, <1>5, <1>6, <1>7, <1>8, ChainMoves


(* Where the versions of the new chain were in the old one.                   *)
Shifted(c, d, o) ==
    \A i \in 1..Len(d): 1 <= i + o => i + o \in 1..Len(c) /\ d[i].xmin = c[i + o].xmin

LEMMA KeptShifts ==
    ASSUME NEW c \in Seq(Version), NEW d \in Seq(Version), Kept(c, d)
    PROVE  Shifted(c, d, 0)
<1> SUFFICES ASSUME NEW i \in 1..Len(d)
             PROVE  i + 0 \in 1..Len(c) /\ d[i].xmin = c[i + 0].xmin
  BY DEF Shifted
<1>1. PICK n \in 0..Len(c): Len(d) = n /\ \A j \in 1..n: d[j] = c[j]
  BY DEF Kept
<1>2. i \in 1..Len(c) /\ i + 0 = i /\ d[i] = c[i]
  BY <1>1, LenProperties
<1> QED BY <1>2

LEMMA ShiftsAre ==
    ASSUME NEW c \in Seq(Version), NEW d \in Seq(Version), NEW t \in Txns
    PROVE  /\ Pushed(c, d, t) => Shifted(c, d, -1)
           /\ Marked(c, d, t) \/ Unmarked(c, d, t) => Shifted(c, d, 0)
           /\ Dropped(c, d, t) => Shifted(c, d, 1)
<1>1. Len(c) \in Nat /\ Len(d) \in Nat
  BY LenProperties
<1>2. ASSUME Pushed(c, d, t) PROVE Shifted(c, d, -1)
  <2> SUFFICES ASSUME NEW i \in 1..Len(d), 1 <= i + (-1)
               PROVE  i + (-1) \in 1..Len(c) /\ d[i].xmin = c[i + (-1)].xmin
    BY DEF Shifted
  <2> PICK j : j = i + (-1)
    OBVIOUS
  <2>1. j \in 1..Len(c) /\ j + 1 = i
    BY <1>1, <1>2 DEF Pushed
  <2>2. d[j + 1].xmin = c[j].xmin
    BY <1>2, <2>1 DEF Pushed
  <2> QED BY <2>1, <2>2
<1>4. ASSUME Marked(c, d, t) \/ Unmarked(c, d, t) PROVE Shifted(c, d, 0)
  <2> SUFFICES ASSUME NEW i \in 1..Len(d)
               PROVE  i + 0 \in 1..Len(c) /\ d[i].xmin = c[i + 0].xmin
    BY DEF Shifted
  <2>1. i \in 1..Len(c) /\ i + 0 = i
    BY <1>1, <1>4 DEF Marked, Unmarked
  <2>2. d[i].xmin = c[i].xmin
    BY <1>4, <2>1 DEF Marked, Unmarked
  <2> QED BY <2>1, <2>2
<1>5. ASSUME Dropped(c, d, t) PROVE Shifted(c, d, 1)
  <2> SUFFICES ASSUME NEW i \in 1..Len(d)
               PROVE  i + 1 \in 1..Len(c) /\ d[i].xmin = c[i + 1].xmin
    BY DEF Shifted
  <2>1. i \in 1..(Len(c) - 1) /\ i + 1 \in 1..Len(c)
    BY <1>1, <1>5 DEF Dropped
  <2> QED BY <1>5, <2>1 DEF Dropped
<1> QED BY <1>2, <1>4, <1>5

(* A caller that keeps clear of concurrent writers and does not write a key   *)
(* twice finds every writer of the chain in its snapshot.                    *)
Careful == "concurrent" \notin Callers /\ "rewrite" \notin Callers

LEMMA DisciplineSays ==
    ASSUME SoundInv, Careful, NEW t \in Txns, NEW k \in Keys, t \in active_txns, Disciplined(t, k)
    PROVE  /\ k \notin write_set[t]
           /\ \A u \in active_txns \union committed_txns:
                 k \in write_set[u] => u # t /\ u \in snapshot[t].committed /\ u \in committed_txns
           /\ \A i \in 1..Len(versions[k]):
                 /\ versions[k][i].xmin \in snapshot[t].committed
                 /\ versions[k][i].xmin \in committed_txns
                 /\ versions[k][i].xmin # t /\ versions[k][i].xmax # t
<1>1. k \notin write_set[t]
  BY DEF Disciplined, Careful
<1>2. \A u \in active_txns \union committed_txns:
         k \in write_set[u] => u # t /\ u \in snapshot[t].committed
  BY <1>1 DEF Disciplined, Careful
<1>3. snapshot[t].committed \subseteq committed_txns
  BY DEF SoundInv, StatusInv, SnapshotsAreOlder
<1>4. ASSUME NEW i \in 1..Len(versions[k])
      PROVE  /\ versions[k][i].xmin \in snapshot[t].committed
             /\ versions[k][i].xmin \in committed_txns
             /\ versions[k][i].xmin # t /\ versions[k][i].xmax # t
  <2>1. PICK v : v = versions[k][i]
    OBVIOUS
  <2>2. v.xmin \in active_txns \union committed_txns /\ k \in write_set[v.xmin]
    BY <2>1 DEF SoundInv, OnlyHeadIsOpen, WritersWrote
  <2>3. v.xmax # 0 => k \in write_set[v.xmax]
    BY <2>1 DEF SoundInv, EndersWrote
  <2>4. t # 0
    BY TxnsAreNumbers
  <2> QED BY <1>1, <1>2, <1>3, <2>1, <2>2, <2>3, <2>4
<1> QED BY <1>1, <1>2, <1>3, <1>4


LEMMA OpenStep ==
    ASSUME SoundInv, [Next]_vars, Careful
    PROVE  OnlyHeadIsOpen'
<1> SUFFICES ASSUME NEW k \in Keys, NEW i \in 1..Len(versions'[k])
             PROVE  \/ versions'[k][i].xmin \in committed_txns'
                    \/ i = 1 /\ versions'[k][i].xmin \in active_txns'
  BY DEF OnlyHeadIsOpen
<1>0. TypeOK /\ StatusInv
  BY DEF SoundInv, StatusInv
<1>1. PICK c, d : c = versions[k] /\ d = versions'[k]
  OBVIOUS
<1>2. c \in Seq(Version) /\ d \in Seq(Version) /\ i \in 1..Len(d) /\ i \in Nat /\ 1 <= i
  BY <1>0, <1>1, ChainMoves
<1>3. \A j \in 1..Len(c): c[j].xmin \in committed_txns \/ (j = 1 /\ c[j].xmin \in active_txns)
  BY <1>1 DEF SoundInv, OnlyHeadIsOpen
<1>4. committed_txns \subseteq committed_txns'
  BY <1>0, StatusMoves
<1>5. ASSUME NEW t \in Txns, AbortTransaction(t)
      PROVE  d[i].xmin \in committed_txns' \/ (i = 1 /\ d[i].xmin \in active_txns')
  <2>1. active_txns' = active_txns \ {t}
    BY <1>5 DEF AbortTransaction
  <2>2. Dropped(c, d, t) \/ Unmarked(c, d, t)
    BY <1>0, <1>1, <1>5, AbortDoes
  <2>3. CASE Dropped(c, d, t)
    <3>1. Shifted(c, d, 1)
      BY <1>2, <2>3, ShiftsAre
    <3>2. i + 1 \in 1..Len(c) /\ d[i].xmin = c[i + 1].xmin /\ i + 1 # 1
      BY <1>2, <3>1 DEF Shifted
    <3> QED BY <1>3, <1>4, <3>2
  <2>4. CASE Unmarked(c, d, t)
    <3>1. Shifted(c, d, 0) /\ i + 0 = i
      BY <1>2, <2>4, ShiftsAre
    <3>2. i \in 1..Len(c) /\ d[i].xmin = c[i].xmin
      BY <1>2, <3>1 DEF Shifted
    <3>3. i = 1 => c[i].xmin # t
      BY <2>4, <3>2, LenProperties DEF Unmarked
    <3> QED BY <1>3, <1>4, <2>1, <3>2, <3>3
  <2> QED BY <2>2, <2>3, <2>4
<1>6. ASSUME \A t \in Txns: ~AbortTransaction(t)
      PROVE  d[i].xmin \in committed_txns' \/ (i = 1 /\ d[i].xmin \in active_txns')
  <2>1. \A u \in active_txns: u \in active_txns' \/ u \in committed_txns'
    BY <1>0, <1>6, StatusMoves DEF TypeOK
  <2>2. \/ Kept(c, d)
        \/ \E t \in Txns: /\ t \in active_txns /\ Disciplined(t, k) /\ UNCHANGED txnVars
                          /\ Pushed(c, d, t) \/ Marked(c, d, t)
    BY <1>0, <1>1, <1>6, ChainMoves
  <2>3. ASSUME Shifted(c, d, 0)
        PROVE  d[i].xmin \in committed_txns' \/ (i = 1 /\ d[i].xmin \in active_txns')
    <3>1. i + 0 = i
      BY <1>2
    <3>2. i \in 1..Len(c) /\ d[i].xmin = c[i].xmin
      BY <1>2, <2>3, <3>1 DEF Shifted
    <3> QED BY <1>3, <1>4, <2>1, <3>2
  <2>4. ASSUME NEW t \in Txns, t \in active_txns, Disciplined(t, k), UNCHANGED txnVars,
               Pushed(c, d, t)
        PROVE  d[i].xmin \in committed_txns' \/ (i = 1 /\ d[i].xmin \in active_txns')
    <3>1. CASE i = 1
      BY <2>4, <3>1 DEF Pushed, txnVars
    <3>2. CASE i # 1
      <4> PICK j : j = i + (-1)
        OBVIOUS
      <4>1. 1 <= j
        BY <1>2, <3>2
      <4>2. j \in 1..Len(c) /\ d[i].xmin = c[j].xmin
        BY <1>2, <2>4, <4>1, ShiftsAre DEF Shifted
      <4>3. c[j].xmin \in committed_txns
        BY <1>1, <2>4, <4>2, DisciplineSays
      <4> QED BY <1>4, <4>2, <4>3
    <3> QED BY <3>1, <3>2
  <2> QED BY <1>2, <2>2, <2>3, <2>4, ShiftsAre, KeptShifts
<1> QED BY <1>1, <1>5, <1>6


LEMMA SawStep ==
    ASSUME SoundInv, [Next]_vars, Careful
    PROVE  WritersSawWriters'
<1> SUFFICES ASSUME NEW k \in Keys, NEW i \in 1..Len(versions'[k]),
                    NEW j \in 1..Len(versions'[k]), i < j
             PROVE  versions'[k][j].xmin \in snapshot'[versions'[k][i].xmin].committed
  BY DEF WritersSawWriters
<1>0. TypeOK /\ StatusInv
  BY DEF SoundInv, StatusInv
<1>1. PICK c, d : c = versions[k] /\ d = versions'[k]
  OBVIOUS
<1>2. c \in Seq(Version) /\ d \in Seq(Version) /\ i \in 1..Len(d) /\ j \in 1..Len(d)
  BY <1>0, <1>1, ChainMoves
<1>3. i \in Nat /\ j \in Nat /\ 1 <= i /\ 2 <= j
  BY <1>2
<1>4. ASSUME NEW a \in 1..Len(c), NEW b \in 1..Len(c), a < b
      PROVE  c[b].xmin \in snapshot'[c[a].xmin].committed
  <2>1. c[b].xmin \in snapshot[c[a].xmin].committed
    BY <1>1, <1>4 DEF SoundInv, WritersSawWriters
  <2>2. c[a].xmin \in Begun
    BY <1>1 DEF SoundInv, OnlyHeadIsOpen, StatusInv, StatusesDiffer
  <2>3. snapshot'[c[a].xmin] = snapshot[c[a].xmin]
    BY <1>0, <2>2, StatusMoves
  <2> QED BY <2>1, <2>3
<1>5. ASSUME NEW o \in {-1, 0, 1}, Shifted(c, d, o), 1 <= i + o
      PROVE  d[j].xmin \in snapshot'[d[i].xmin].committed
  <2> PICK a, b : a = i + o /\ b = j + o
    OBVIOUS
  <2>1. 1 <= a /\ 1 <= b /\ a < b
    BY <1>3, <1>5
  <2>2. a \in 1..Len(c) /\ d[i].xmin = c[a].xmin
    BY <1>2, <1>5, <2>1 DEF Shifted
  <2>3. b \in 1..Len(c) /\ d[j].xmin = c[b].xmin
    BY <1>2, <1>5, <2>1 DEF Shifted
  <2> QED BY <1>4, <2>1, <2>2, <2>3
<1>6. ASSUME NEW t \in Txns, t \in active_txns, Disciplined(t, k), UNCHANGED txnVars,
             Pushed(c, d, t)
      PROVE  d[j].xmin \in snapshot'[d[i].xmin].committed
  <2>1. Shifted(c, d, -1)
    BY <1>2, <1>6, ShiftsAre
  <2>2. CASE i = 1
    <3> PICK b : b = j + (-1)
      OBVIOUS
    <3>1. 1 <= b
      BY <1>3
    <3>2. b \in 1..Len(c) /\ d[j].xmin = c[b].xmin
      BY <1>2, <2>1, <3>1 DEF Shifted
    <3>3. c[b].xmin \in snapshot[t].committed
      BY <1>1, <1>6, <3>2, DisciplineSays
    <3>4. d[i].xmin = t /\ snapshot' = snapshot
      BY <1>6, <2>2 DEF Pushed, txnVars
    <3> QED BY <3>2, <3>3, <3>4
  <2>3. CASE i # 1
    <3>1. 1 <= i + (-1)
      BY <1>3, <2>3
    <3> QED BY <1>5, <2>1, <3>1
  <2> QED BY <2>2, <2>3
<1>7. /\ Shifted(c, d, 0) => d[j].xmin \in snapshot'[d[i].xmin].committed
      /\ Shifted(c, d, 1) => d[j].xmin \in snapshot'[d[i].xmin].committed
  <2>1. 1 <= i + 0 /\ 1 <= i + 1
    BY <1>3
  <2> QED BY <1>5, <2>1
<1>8. \/ Kept(c, d)
      \/ \E t \in Txns: /\ t \in active_txns /\ Disciplined(t, k) /\ UNCHANGED txnVars
                        /\ Pushed(c, d, t) \/ Marked(c, d, t)
      \/ \E t \in Txns: Dropped(c, d, t) \/ Unmarked(c, d, t)
  BY <1>0, <1>1, ChainMoves
<1>9. ASSUME Kept(c, d) \/ \E t \in Txns: \/ Marked(c, d, t) \/ Unmarked(c, d, t)
                                          \/ Dropped(c, d, t)
      PROVE  Shifted(c, d, 0) \/ Shifted(c, d, 1)
  BY <1>2, <1>9, ShiftsAre, KeptShifts
<1> QED BY <1>1, <1>6, <1>7, <1>8, <1>9

LEMMA SoundStep ==
    ASSUME SoundInv, [Next]_vars, Careful
    PROVE  SoundInv'
BY LinkStep, StatusStep, WritersWroteStep, OpenStep, SawStep DEF SoundInv

LEMMA SoundAlways == Careful => (Spec => []SoundInv)
<1> SUFFICES ASSUME Careful PROVE Spec => []SoundInv
  OBVIOUS
<1>1. SoundInv /\ [Next]_vars => SoundInv'
  BY SoundStep
<1> QED BY <1>1, SoundInit, PTL DEF Spec


----------------------------------------------------------------------------
(* A transaction reads a chain through a set of writers W: the transactions   *)
(* of its snapshot and itself, or everybody who committed.                   *)
Sees(v, W) == v.xmin \in W /\ v.xmax \notin W

SeenBy(c, W) == {i \in DOMAIN c : Sees(c[i], W)}

ReadBy(c, W) ==
    IF SeenBy(c, W) = {} THEN Absent
    ELSE c[CHOOSE i \in SeenBy(c, W): \A j \in SeenBy(c, W): i <= j].data

Snap(t) == snapshot[t].committed \union {t}

OneSeen(c, W) == \A i, j \in 1..Len(c): Sees(c[i], W) /\ Sees(c[j], W) => i = j

SeenAlike(c, W, d, X) ==
    /\ \A i \in 1..Len(c): Sees(c[i], W) =>
          \E j \in 1..Len(d): Sees(d[j], X) /\ d[j].data = c[i].data
    /\ \A j \in 1..Len(d): Sees(d[j], X) => \E i \in 1..Len(c): Sees(c[i], W)

LEMMA ReadIs ==
    ASSUME NEW c \in Seq(Version), NEW W, OneSeen(c, W),
           NEW i \in 1..Len(c), Sees(c[i], W)
    PROVE  ReadBy(c, W) = c[i].data
<1>1. DOMAIN c = 1..Len(c)
  BY LenProperties
<1>2. i \in SeenBy(c, W) /\ \A j \in SeenBy(c, W): j = i
  BY <1>1 DEF SeenBy, OneSeen
<1>3. SeenBy(c, W) = {i} /\ i <= i
  <2>1. i \in Nat /\ i <= i
    BY LenProperties
  <2>2. SeenBy(c, W) = {i}
    BY <1>2, Zenon
  <2> QED BY <2>1, <2>2
<1>4. (CHOOSE j \in SeenBy(c, W): \A m \in SeenBy(c, W): j <= m) = i
  BY <1>3
<1> QED BY <1>2, <1>4 DEF ReadBy

LEMMA ReadNone ==
    ASSUME NEW c \in Seq(Version), NEW W, \A i \in 1..Len(c): ~Sees(c[i], W)
    PROVE  ReadBy(c, W) = Absent
BY LenProperties DEF ReadBy, SeenBy

LEMMA ReadAlike ==
    ASSUME NEW c \in Seq(Version), NEW W, OneSeen(c, W),
           NEW d \in Seq(Version), NEW X, OneSeen(d, X), SeenAlike(c, W, d, X)
    PROVE  ReadBy(c, W) = ReadBy(d, X)
<1>1. CASE \E i \in 1..Len(c): Sees(c[i], W)
  <2>1. PICK i \in 1..Len(c): Sees(c[i], W)
    BY <1>1
  <2>2. PICK j \in 1..Len(d): Sees(d[j], X) /\ d[j].data = c[i].data
    BY <2>1 DEF SeenAlike
  <2> QED BY <2>1, <2>2, ReadIs
<1>2. CASE \A i \in 1..Len(c): ~Sees(c[i], W)
  <2>1. \A j \in 1..Len(d): ~Sees(d[j], X)
    BY <1>2 DEF SeenAlike
  <2> QED BY <1>2, <2>1, ReadNone
<1> QED BY <1>1, <1>2

(* Behind a version that W holds there are only such versions, and each was   *)
(* ended by the one before it: one version at most is visible.               *)
LEMMA OneIsSeen ==
    ASSUME NEW c \in Seq(Version), NEW W, Linked(c),
           \A i, j \in 1..Len(c): i < j /\ c[i].xmin \in W => c[j].xmin \in W
    PROVE  OneSeen(c, W)
<1>1. ASSUME NEW i \in 1..Len(c), NEW j \in 1..Len(c), i < j, Sees(c[i], W)
      PROVE  ~Sees(c[j], W)
  <2>1. Len(c) \in Nat
    BY LenProperties
  <2> PICK m : m = j - 1
    OBVIOUS
  <2>2. m \in 1..(Len(c) - 1) /\ m + 1 = j /\ m \in 1..Len(c) /\ (m = i \/ i < m)
    BY <1>1, <2>1
  <2>3. c[m + 1].xmax = c[m].xmin
    BY <2>2 DEF Linked
  <2>4. c[m].xmin \in W
    BY <1>1, <2>2 DEF Sees
  <2> QED BY <2>2, <2>3, <2>4 DEF Sees
<1>2. ASSUME NEW i \in 1..Len(c), NEW j \in 1..Len(c), Sees(c[i], W), Sees(c[j], W)
      PROVE  i = j
  <2>1. i < j \/ j < i \/ i = j
    BY LenProperties
  <2> QED BY <1>1, <1>2, <2>1
<1> QED BY <1>2 DEF OneSeen

LEMMA VisibleIsSeen ==
    StatusInv => \A t \in Txns: \A v: IsVisible(v, t) <=> Sees(v, Snap(t))
<1> SUFFICES ASSUME StatusInv, NEW t \in Txns, NEW v PROVE IsVisible(v, t) <=> Sees(v, Snap(t))
  OBVIOUS
<1>1. \A u \in snapshot[t].committed: u \notin snapshot[t].active
  BY DEF StatusInv, SnapshotsAreOlder
<1> QED BY <1>1 DEF IsVisible, Sees, Snap

LEMMA ReadsAre ==
    StatusInv => \A t \in Txns: \A k \in Keys: ReadVersion(t, k) = ReadBy(versions[k], Snap(t))
<1> SUFFICES ASSUME StatusInv, NEW t \in Txns, NEW k \in Keys
             PROVE  ReadVersion(t, k) = ReadBy(versions[k], Snap(t))
  OBVIOUS
<1>1. VisibleIn(versions[k], t) = SeenBy(versions[k], Snap(t))
  BY VisibleIsSeen DEF VisibleIn, SeenBy
<1> QED BY <1>1 DEF ReadVersion, ReadBy

LEMMA ReadsAreNext ==
    StatusInv' => \A t \in Txns: \A k \in Keys:
                     ReadVersion(t, k)' = ReadBy(versions'[k], Snap(t)')
<1>1. StatusInv' => (\A t \in Txns: \A k \in Keys: ReadVersion(t, k) = ReadBy(versions[k], Snap(t)))'
  BY ReadsAre, PTL
<1> QED BY <1>1


(* A reader sees one version of a chain at most, through its snapshot or as   *)
(* somebody who begins now.                                                 *)
LEMMA ReadersSeeOne ==
    SoundInv => \A k \in Keys: /\ OneSeen(versions[k], committed_txns)
                               /\ \A t \in Begun: OneSeen(versions[k], Snap(t))
<1> SUFFICES ASSUME SoundInv, NEW k \in Keys
             PROVE  /\ OneSeen(versions[k], committed_txns)
                    /\ \A t \in Begun: OneSeen(versions[k], Snap(t))
  OBVIOUS
<1>0. TypeOK /\ StatusInv
  BY DEF SoundInv, StatusInv
<1>1. PICK c : c = versions[k]
  OBVIOUS
<1>2. c \in Seq(Version) /\ Linked(c)
  BY <1>0, <1>1 DEF SoundInv, LinkInv, TypeOK
<1>3. \A i, j \in 1..Len(c): i < j => c[j].xmin \in snapshot[c[i].xmin].committed
  BY <1>1 DEF SoundInv, WritersSawWriters
<1>4. \A i \in 1..Len(c): c[i].xmin \in Begun
  BY <1>1 DEF SoundInv, OnlyHeadIsOpen, StatusInv, StatusesDiffer
<1>5. \A u \in Begun: snapshot[u].committed \subseteq committed_txns
  BY <1>0, BegunParts DEF StatusInv, SnapshotsAreOlder
<1>6. \A i, j \in 1..Len(c): i < j /\ c[i].xmin \in committed_txns => c[j].xmin \in committed_txns
  BY <1>3, <1>4, <1>5
<1>7. ASSUME NEW t \in Begun PROVE OneSeen(c, Snap(t))
  <2> SUFFICES ASSUME NEW i \in 1..Len(c), NEW j \in 1..Len(c), i < j, c[i].xmin \in Snap(t)
               PROVE  c[j].xmin \in Snap(t)
    BY <1>2, OneIsSeen
  <2> PICK u : u = c[i].xmin
    OBVIOUS
  <2>1. u = t \/ u \in snapshot[t].committed
    BY DEF Snap
  <2>2. u <= t
    <3>1. t \in Txns /\ t \in Nat
      BY <1>0, BegunParts
    <3>2. u \in snapshot[t].committed => u < t
      BY <3>1 DEF SoundInv, StatusInv, SnapshotsAreOfEarlier
    <3>3. u \in Nat
      BY <1>0, <1>4, BegunParts
    <3> QED BY <2>1, <3>1, <3>2, <3>3
  <2>3. snapshot[u].committed \subseteq snapshot[t].committed
    BY <1>0, <1>4, <2>2 DEF StatusInv, SnapshotsGrow
  <2>4. c[j].xmin \in snapshot[u].committed
    BY <1>3
  <2> QED BY <2>3, <2>4 DEF Snap
<1>8. OneSeen(c, committed_txns)
  BY <1>2, <1>6, OneIsSeen
<1> QED BY <1>1, <1>7, <1>8

LEMMA ReadersSeeOneNext ==
    SoundInv' => \A k \in Keys: /\ OneSeen(versions'[k], committed_txns')
                                /\ \A t \in Begun': OneSeen(versions'[k], Snap(t)')
<1>1. SoundInv' => (\A k \in Keys: /\ OneSeen(versions[k], committed_txns)
                                   /\ \A t \in Begun: OneSeen(versions[k], Snap(t)))'
  BY ReadersSeeOne, PTL
<1> QED BY <1>1 DEF OneSeen, Sees

(* Whoever does not see t reads the same before and after t writes or marks a *)
(* chain whose newest version is not ended, and before and after it rolls back.*)
LEMMA OthersSeeAlike ==
    ASSUME NEW c \in Seq(Version), NEW d \in Seq(Version), NEW t \in Txns, NEW W,
           t \notin W, 0 \notin W,
           \/ Pushed(c, d, t) /\ (1 <= Len(c) => c[1].xmax = 0)
           \/ Marked(c, d, t) /\ (1 <= Len(c) => c[1].xmax = 0)
           \/ Dropped(c, d, t)
           \/ Unmarked(c, d, t)
    PROVE  SeenAlike(c, W, d, W)
<1>1. Len(c) \in Nat /\ Len(d) \in Nat
  BY LenProperties
<1>2. ASSUME NEW i \in 1..Len(c), NEW j \in 1..Len(d),
             d[j].xmin = c[i].xmin, d[j].data = c[i].data,
             \/ d[j].xmax = c[i].xmax
             \/ d[j].xmax \in {0, t} /\ c[i].xmax \in {0, t}
      PROVE  (Sees(c[i], W) <=> Sees(d[j], W)) /\ d[j].data = c[i].data
  BY <1>2 DEF Sees
<1>3. CASE Pushed(c, d, t) /\ (1 <= Len(c) => c[1].xmax = 0)
  <2>1. \A i \in 1..Len(c): /\ i + 1 \in 1..Len(d)
                            /\ (Sees(c[i], W) <=> Sees(d[i + 1], W)) /\ d[i + 1].data = c[i].data
    <3> SUFFICES ASSUME NEW i \in 1..Len(c)
                 PROVE  /\ i + 1 \in 1..Len(d)
                        /\ (Sees(c[i], W) <=> Sees(d[i + 1], W)) /\ d[i + 1].data = c[i].data
      OBVIOUS
    <3>1. /\ i + 1 \in 1..Len(d) /\ 1 <= Len(c) /\ (i = 1 \/ i \in 2..Len(c))
          /\ (i = 1 => i + 1 = 2)
      BY <1>1, <1>3 DEF Pushed
    <3>2. d[i + 1].xmin = c[i].xmin /\ d[i + 1].data = c[i].data
      BY <1>3 DEF Pushed
    <3>3. i = 1 => d[i + 1].xmax = t /\ c[i].xmax = 0
      BY <1>3, <3>1 DEF Pushed
    <3>4. i \in 2..Len(c) => d[i + 1].xmax = c[i].xmax
      BY <1>3, <3>1 DEF Pushed
    <3> QED BY <1>2, <3>1, <3>2, <3>3, <3>4
  <2>2. ~Sees(d[1], W)
    BY <1>3 DEF Pushed, Sees
  <2>3. \A j \in 1..Len(d): j = 1 \/ \E i \in 1..Len(c): j = i + 1
    <3> SUFFICES ASSUME NEW j \in 1..Len(d), j # 1 PROVE \E i \in 1..Len(c): j = i + 1
      OBVIOUS
    <3>1. j - 1 \in 1..Len(c) /\ j = (j - 1) + 1
      BY <1>1, <1>3 DEF Pushed
    <3> QED BY <3>1
  <2> QED BY <2>1, <2>2, <2>3 DEF SeenAlike
<1>4. CASE \/ Marked(c, d, t) /\ (1 <= Len(c) => c[1].xmax = 0)
           \/ Unmarked(c, d, t)
  <2>1. Len(d) = Len(c)
    BY <1>4 DEF Marked, Unmarked
  <2>2. \A i \in 1..Len(c): (Sees(c[i], W) <=> Sees(d[i], W)) /\ d[i].data = c[i].data
    <3> SUFFICES ASSUME NEW i \in 1..Len(c)
                 PROVE  (Sees(c[i], W) <=> Sees(d[i], W)) /\ d[i].data = c[i].data
      OBVIOUS
    <3>1. d[i].xmin = c[i].xmin /\ d[i].data = c[i].data /\ i \in 1..Len(d)
      BY <1>4, <2>1 DEF Marked, Unmarked
    <3>2. (i = 1 \/ i \in 2..Len(c)) /\ 1 <= Len(c)
      BY <1>1
    <3>3. CASE Marked(c, d, t) /\ (1 <= Len(c) => c[1].xmax = 0)
      BY <1>2, <3>1, <3>2, <3>3 DEF Marked
    <3>4. CASE Unmarked(c, d, t)
      <4>1. i = 1 => d[i].xmax = c[i].xmax \/ (d[i].xmax \in {0, t} /\ c[i].xmax \in {0, t})
        BY <3>2, <3>4 DEF Unmarked
      <4>2. i \in 2..Len(c) => d[i].xmax = c[i].xmax
        BY <3>4 DEF Unmarked
      <4> QED BY <1>2, <3>1, <3>2, <4>1, <4>2
    <3> QED BY <1>4, <3>3, <3>4
  <2> QED BY <2>1, <2>2 DEF SeenAlike
<1>5. CASE Dropped(c, d, t)
  <2>1. \A j \in 1..Len(d): /\ j + 1 \in 1..Len(c)
                            /\ (Sees(c[j + 1], W) <=> Sees(d[j], W)) /\ d[j].data = c[j + 1].data
    <3> SUFFICES ASSUME NEW j \in 1..Len(d)
                 PROVE  /\ j + 1 \in 1..Len(c)
                        /\ (Sees(c[j + 1], W) <=> Sees(d[j], W)) /\ d[j].data = c[j + 1].data
      OBVIOUS
    <3>1. /\ j + 1 \in 1..Len(c) /\ j \in 1..(Len(c) - 1)
          /\ (j = 1 \/ j \in 2..(Len(c) - 1)) /\ 2 <= Len(c) /\ (j = 1 => j + 1 = 2)
      BY <1>1, <1>5 DEF Dropped
    <3>2. d[j].xmin = c[j + 1].xmin /\ d[j].data = c[j + 1].data
      BY <1>5, <3>1 DEF Dropped
    <3>3. j = 1 => \/ d[j].xmax = c[j + 1].xmax
                   \/ d[j].xmax \in {0, t} /\ c[j + 1].xmax \in {0, t}
      BY <1>5, <3>1 DEF Dropped
    <3>4. j \in 2..(Len(c) - 1) => d[j].xmax = c[j + 1].xmax
      BY <1>5 DEF Dropped
    <3> QED BY <1>2, <3>1, <3>2, <3>3, <3>4
  <2>2. ~Sees(c[1], W)
    BY <1>5 DEF Dropped, Sees
  <2>3. \A i \in 1..Len(c): i = 1 \/ \E j \in 1..Len(d): i = j + 1
    <3> SUFFICES ASSUME NEW i \in 1..Len(c), i # 1 PROVE \E j \in 1..Len(d): i = j + 1
      OBVIOUS
    <3>1. i - 1 \in 1..Len(d) /\ i = (i - 1) + 1
      BY <1>1, <1>5 DEF Dropped
    <3> QED BY <3>1
  <2> QED BY <2>1, <2>2, <2>3 DEF SeenAlike
<1> QED BY <1>3, <1>4, <1>5


(* The version at which garbage_collect cuts a chain was superseded by a      *)
(* transaction that every reader sees: so are all versions behind it.        *)
LEMMA CollectedSeeAlike ==
    ASSUME SoundInv, NEW k \in Keys, NEW d \in Seq(Version), Kept(versions[k], d), NEW W,
           \/ W = committed_txns
           \/ \E t \in active_txns: W = Snap(t)
    PROVE  SeenAlike(versions[k], W, d, W)
<1>0. TypeOK /\ StatusInv
  BY DEF SoundInv, StatusInv
<1>1. PICK c : c = versions[k]
  OBVIOUS
<1>2. c \in Seq(Version) /\ Linked(c) /\ Kept(c, d) /\ Len(c) \in Nat
  BY <1>0, <1>1, LenProperties DEF SoundInv, LinkInv, TypeOK
<1>3. PICK n \in 0..Len(c): /\ n = Len(c) \/ n \in CutPoints(c)
                            /\ Len(d) = n /\ \A i \in 1..n: d[i] = c[i]
  BY <1>2 DEF Kept
<1>4. ASSUME NEW i \in 1..Len(c), i > n PROVE ~Sees(c[i], W)
  <2>1. n \in 2..(Len(c) - 1) /\ c[n].xmax < MinActive /\ c[n].xmax \in committed_txns
    BY <1>2, <1>3, <1>4 DEF CutPoints
  <2> PICK m, l : m = i - 1 /\ l = n - 1
    OBVIOUS
  <2>2. /\ m \in 1..(Len(c) - 1) /\ m + 1 = i /\ m \in 1..Len(c) /\ m # 1
        /\ l \in 1..(Len(c) - 1) /\ l + 1 = n /\ l \in 1..Len(c) /\ l < m
    BY <1>2, <1>4, <2>1
  <2>3. c[m + 1].xmax = c[m].xmin /\ c[l + 1].xmax = c[l].xmin
    BY <1>2, <2>2 DEF Linked
  <2>4. c[m].xmin \in committed_txns /\ c[m].xmin \in snapshot[c[l].xmin].committed
    BY <1>1, <2>2 DEF SoundInv, OnlyHeadIsOpen, WritersSawWriters
  <2>5. ASSUME NEW t \in active_txns PROVE c[m].xmin \in Snap(t)
    <3>1. c[l].xmin \in Begun /\ t \in Begun
      BY <1>0, <2>1, <2>2, <2>3 DEF StatusInv, StatusesDiffer
    <3>2. MinActive <= t
      <4>1. active_txns \in SUBSET Nat /\ active_txns # {}
        BY <1>0, <2>5, TxnsAreNumbers DEF TypeOK
      <4>2. \E u \in active_txns: \A v \in active_txns: u <= v
        BY <4>1, LeastOfSet
      <4> QED BY <4>1, <4>2 DEF MinActive
    <3>3. c[l].xmin <= t
      <4>1. MinActive \in Nat
        <5>1. active_txns \in SUBSET Nat /\ active_txns # {}
          BY <1>0, <2>5, TxnsAreNumbers DEF TypeOK
        <5>2. \E u \in active_txns: \A v \in active_txns: u <= v
          BY <5>1, LeastOfSet
        <5> QED BY <5>1, <5>2 DEF MinActive
      <4>2. c[l].xmin \in Nat /\ t \in Nat
        BY <1>0, <3>1, BegunParts
      <4> QED BY <2>1, <2>2, <2>3, <3>2, <4>1, <4>2
    <3>4. snapshot[c[l].xmin].committed \subseteq snapshot[t].committed
      BY <1>0, <3>1, <3>3 DEF StatusInv, SnapshotsGrow
    <3> QED BY <2>4, <3>4 DEF Snap
  <2>6. c[i].xmax \in W
    BY <2>2, <2>3, <2>4, <2>5
  <2> QED BY <2>6 DEF Sees
<1>5. \A i \in 1..Len(d): i \in 1..Len(c) /\ d[i] = c[i]
  BY <1>2, <1>3
<1>6. \A i \in 1..Len(c): i > n \/ i \in 1..Len(d)
  BY <1>2, <1>3
<1> QED BY <1>1, <1>4, <1>5, <1>6 DEF SeenAlike


(* Only what a reader does itself changes what it sees in a chain.            *)
LEMMA OnlyOwnStepsShow ==
    ASSUME SoundInv, [Next]_vars, Callers = {}, NEW k \in Keys, NEW W,
           \/ W = committed_txns
           \/ \E t \in active_txns: W = Snap(t)
    PROVE  \/ SeenAlike(versions[k], W, versions'[k], W)
           \/ \E t \in active_txns: /\ t \in W
                                    /\ \/ AbortTransaction(t)
                                       \/ k \in write_set'[t] \ write_set[t]
<1>0. TypeOK /\ StatusInv /\ Careful
  BY DEF SoundInv, StatusInv, Careful
<1>1. PICK c, d : c = versions[k] /\ d = versions'[k]
  OBVIOUS
<1>2. c \in Seq(Version) /\ d \in Seq(Version) /\ Len(c) \in Nat
  BY <1>0, <1>1, ChainMoves, LenProperties
<1>3. 0 \notin W
  BY <1>0, TxnsAreNumbers DEF Snap, TypeOK
<1>4. CASE Kept(c, d)
  BY <1>1, <1>2, <1>4, CollectedSeeAlike
<1>5. ASSUME NEW t \in Txns, t \in active_txns, Disciplined(t, k),
             write_set' = [write_set EXCEPT ![t] = @ \union {k}],
             Pushed(c, d, t) \/ Marked(c, d, t)
      PROVE  SeenAlike(c, W, d, W) \/ (t \in W /\ k \in write_set'[t] \ write_set[t])
  <2>1. k \in write_set'[t] /\ k \notin write_set[t]
    BY <1>0, <1>5, DisciplineSays DEF TypeOK
  <2>2. 1 <= Len(c) => c[1].xmax = 0
    <3>1. ASSUME 1 <= Len(c) PROVE c[1].xmax = 0
      <4>1. 1 \in 1..Len(c) /\ c # <<>>
        BY <1>2, <3>1, EmptySeq
      <4>2. c[1].xmax # t
        BY <1>0, <1>1, <1>5, <4>1, DisciplineSays
      <4>3. Head(c).xmax \in {0, t}
        BY <1>1, <1>5, <4>1 DEF Disciplined, EndedBefore
      <4>4. Head(c) = c[1]
        BY <1>2, <4>1, HeadTailProperties
      <4> QED BY <4>2, <4>3, <4>4
    <3> QED BY <3>1
  <2>3. CASE t \in W
    BY <2>1, <2>3
  <2>4. CASE t \notin W
    BY <1>2, <1>3, <1>5, <2>2, <2>4, OthersSeeAlike
  <2> QED BY <2>3, <2>4
<1>6. ASSUME NEW t \in Txns, AbortTransaction(t), Dropped(c, d, t) \/ Unmarked(c, d, t)
      PROVE  SeenAlike(c, W, d, W) \/ (t \in W /\ AbortTransaction(t) /\ t \in active_txns)
  <2>1. CASE t \in W
    BY <1>6, <2>1 DEF AbortTransaction
  <2>2. CASE t \notin W
    BY <1>2, <1>3, <1>6, <2>2, OthersSeeAlike
  <2> QED BY <2>1, <2>2
<1> QED BY <1>0, <1>1, <1>4, <1>5, <1>6, ChainMoves

LEMMA ReadsStay ==
    ASSUME SoundInv, [Next]_vars, Callers = {}, NEW t \in active_txns, t \in active_txns',
           NEW k \in Keys, k \notin write_set'[t] \ write_set[t]
    PROVE  ReadVersion(t, k)' = ReadVersion(t, k)
<1>0. TypeOK /\ StatusInv /\ Careful /\ t \in Txns /\ t \in Begun
  BY DEF SoundInv, StatusInv, StatusesDiffer, Careful, TypeOK
<1>1. SoundInv' /\ StatusInv' /\ TypeOK' /\ t \in Begun'
  BY <1>0, SoundStep, StatusMoves DEF SoundInv, StatusInv
<1>2. PICK W : W = Snap(t)
  OBVIOUS
<1>3. Snap(t)' = W
  BY <1>0, <1>2, StatusMoves DEF Snap
<1>4. \A u \in active_txns: u \in W => u = t
  BY <1>0, <1>2 DEF Snap, StatusInv, SnapshotsAreOlder, StatusesDiffer
<1>5. ~AbortTransaction(t)
  BY DEF AbortTransaction
<1>6. PICK c, d : c = versions[k] /\ d = versions'[k]
  OBVIOUS
<1>7. SeenAlike(c, W, d, W)
  BY <1>2, <1>4, <1>5, <1>6, OnlyOwnStepsShow
<1>8. c \in Seq(Version) /\ d \in Seq(Version)
  BY <1>0, <1>6, ChainMoves
<1>9. OneSeen(c, W) /\ OneSeen(d, W)
  BY <1>0, <1>1, <1>2, <1>3, <1>6, ReadersSeeOne, ReadersSeeOneNext
<1>10. ReadBy(c, W) = ReadBy(d, W)
  BY <1>7, <1>8, <1>9, ReadAlike
<1>11. ReadVersion(t, k) = ReadBy(c, W)
  BY <1>0, <1>2, <1>6, ReadsAre
<1>12. ReadVersion(t, k)' = ReadBy(d, W)
  BY <1>0, <1>1, <1>3, <1>6, ReadsAreNext
<1> QED BY <1>10, <1>11, <1>12

LEMMA CommittedStay ==
    ASSUME SoundInv, [Next]_vars, Callers = {}, committed_txns' = committed_txns, NEW k \in Keys
    PROVE  CommittedData(k)' = CommittedData(k)
<1>0. TypeOK /\ StatusInv /\ Careful
  BY DEF SoundInv, StatusInv, Careful
<1>1. SoundInv'
  BY <1>0, SoundStep
<1>2. PICK W, c, d : W = committed_txns /\ c = versions[k] /\ d = versions'[k]
  OBVIOUS
<1>3. \A u \in active_txns: u \notin W
  BY <1>0, <1>2 DEF StatusInv, StatusesDiffer
<1>4. SeenAlike(c, W, d, W)
  BY <1>2, <1>3, OnlyOwnStepsShow
<1>5. c \in Seq(Version) /\ d \in Seq(Version)
  BY <1>0, <1>2, ChainMoves
<1>6. OneSeen(c, W) /\ OneSeen(d, W)
  BY <1>1, <1>2, ReadersSeeOne, ReadersSeeOneNext
<1>7. ReadBy(c, W) = ReadBy(d, W)
  BY <1>4, <1>5, <1>6, ReadAlike
<1>8. CommittedData(k) = ReadBy(c, W) /\ CommittedData(k)' = ReadBy(d, W)
  BY <1>2 DEF CommittedData, ReadBy, SeenBy, Sees, VisibleToAll
<1> QED BY <1>7, <1>8


----------------------------------------------------------------------------
(* Two transactions in progress or committed that wrote one key saw one       *)
(* another: the later one has the earlier one in its snapshot.               *)
WritersDoNotMeet ==
    \A t \in active_txns: \A u \in active_txns \union committed_txns: \A k \in Keys:
        u # t /\ k \in write_set[t] /\ k \in write_set[u] => u \in snapshot[t].committed

WriteInv == StatusInv /\ WritersDoNotMeet /\ FirstUpdaterWins

LEMMA WriteInit == Init => WriteInv
BY StatusInit DEF Init, WriteInv, WritersDoNotMeet, FirstUpdaterWins

LEMMA WriteStep ==
    ASSUME WriteInv, [Next]_vars, "concurrent" \notin Callers
    PROVE  WriteInv'
<1>0. TypeOK /\ StatusInv /\ StatusInv'
  BY StatusStep DEF WriteInv, StatusInv
<1>1. /\ active_txns \subseteq Txns /\ committed_txns \subseteq Txns
      /\ active_txns \subseteq Begun /\ committed_txns \subseteq Begun
  BY <1>0 DEF TypeOK, StatusInv, StatusesDiffer
<1>2. CASE BeginTransaction
  <2>1. WritersDoNotMeet'
    BY <1>0, <1>1, <1>2, BeginDoes DEF WriteInv, WritersDoNotMeet
  <2>2. FirstUpdaterWins'
    BY <1>0, <1>1, <1>2, BeginDoes DEF WriteInv, FirstUpdaterWins
  <2> QED BY <1>0, <2>1, <2>2 DEF WriteInv
<1>3. ASSUME NEW t \in Txns, CommitTransaction(t) PROVE WriteInv'
  <2>1. /\ t \in active_txns /\ committed_txns' = committed_txns \union {t}
        /\ active_txns' = active_txns \ {t} /\ snapshot' = snapshot /\ write_set' = write_set
    BY <1>3 DEF CommitTransaction
  <2>2. WritersDoNotMeet'
    BY <2>1 DEF WriteInv, WritersDoNotMeet
  <2>3. FirstUpdaterWins'
    <3> SUFFICES ASSUME NEW a \in committed_txns', NEW b \in committed_txns',
                        a # b, b \notin snapshot[a].committed, a \notin snapshot[b].committed,
                        NEW k \in write_set[a], k \in write_set[b]
                 PROVE  FALSE
      BY <2>1 DEF FirstUpdaterWins
    <3>1. k \in Keys
      BY <1>0, <1>1, <2>1 DEF TypeOK
    <3>2. CASE a = t \/ b = t
      BY <2>1, <3>1, <3>2 DEF WriteInv, WritersDoNotMeet
    <3>3. CASE a # t /\ b # t
      BY <2>1, <3>3 DEF WriteInv, FirstUpdaterWins
    <3> QED BY <3>2, <3>3
  <2> QED BY <1>0, <2>2, <2>3 DEF WriteInv
<1>4. ASSUME NEW t \in Txns, AbortTransaction(t) PROVE WriteInv'
  <2>1. /\ committed_txns' = committed_txns /\ active_txns' = active_txns \ {t}
        /\ snapshot' = snapshot /\ write_set' = write_set
    BY <1>4 DEF AbortTransaction
  <2> QED BY <1>0, <2>1 DEF WriteInv, WritersDoNotMeet, FirstUpdaterWins
<1>5. ASSUME NEW t \in Txns, NEW k \in Keys,
             DeleteVersion(t, k) \/ \E p \in Payloads: WriteVersion(t, k, p)
      PROVE  WriteInv'
  <2>1. /\ t \in active_txns /\ Disciplined(t, k) /\ UNCHANGED txnVars
        /\ write_set' = [write_set EXCEPT ![t] = @ \union {k}]
    BY <1>5 DEF DeleteVersion, WriteVersion
  <2>2. /\ write_set'[t] = write_set[t] \union {k}
        /\ \A u \in Txns: u # t => write_set'[u] = write_set[u]
    BY <1>0, <2>1 DEF TypeOK
  <2>3. \A u \in active_txns \union committed_txns:
           u # t /\ k \in write_set[u] => u \in snapshot[t].committed
    BY <2>1 DEF Disciplined
  <2>4. t \notin committed_txns /\ \A u \in active_txns: u \notin committed_txns
    BY <1>0, <2>1 DEF StatusInv, StatusesDiffer
  <2>5. snapshot[t].committed \subseteq committed_txns
    BY <1>0 DEF StatusInv, SnapshotsAreOlder
  <2>6. WritersDoNotMeet'
    <3> SUFFICES ASSUME NEW a \in active_txns, NEW b \in active_txns \union committed_txns,
                        NEW q \in Keys, b # a, q \in write_set'[a], q \in write_set'[b]
                 PROVE  b \in snapshot[a].committed
      BY <2>1 DEF WritersDoNotMeet, txnVars
    <3>1. CASE a = t
      <4>1. q \in write_set[b]
        BY <1>1, <2>2, <3>1
      <4>2. q \in write_set[t] \/ q = k
        BY <2>2, <3>1
      <4> QED BY <2>1, <2>3, <3>1, <4>1, <4>2 DEF WriteInv, WritersDoNotMeet
    <3>2. CASE a # t
      <4>1. q \in write_set[a]
        BY <1>1, <2>2, <3>2
      <4>2. CASE q \in write_set[b]
        BY <4>1, <4>2 DEF WriteInv, WritersDoNotMeet
      <4>3. CASE q \notin write_set[b]
        <5>1. b = t /\ q = k
          BY <1>1, <2>2, <4>3
        <5> QED BY <2>3, <2>4, <2>5, <3>2, <4>1, <5>1
      <4> QED BY <4>2, <4>3
    <3> QED BY <3>1, <3>2
  <2>7. FirstUpdaterWins'
    <3>1. \A u \in committed_txns: write_set'[u] = write_set[u]
      BY <1>1, <2>2, <2>4
    <3> QED BY <2>1, <3>1 DEF WriteInv, FirstUpdaterWins, txnVars
  <2> QED BY <1>0, <2>6, <2>7 DEF WriteInv
<1>6. CASE GarbageCollect \/ UNCHANGED vars
  <2>1. UNCHANGED txnVars /\ write_set' = write_set
    BY <1>6 DEF GarbageCollect, vars, txnVars
  <2> QED BY <1>0, <2>1 DEF txnVars, WriteInv, WritersDoNotMeet, FirstUpdaterWins
<1> QED BY <1>2, <1>3, <1>4, <1>5, <1>6 DEF Next

LEMMA WriteAlways == "concurrent" \notin Callers => (Spec => []WriteInv)
<1> SUFFICES ASSUME "concurrent" \notin Callers PROVE Spec => []WriteInv
  OBVIOUS
<1>1. WriteInv /\ [Next]_vars => WriteInv'
  BY WriteStep
<1> QED BY <1>1, WriteInit, PTL DEF Spec


----------------------------------------------------------------------------
(* Every version of a chain was ended by the transaction that created the     *)
(* next one, whatever the callers do: write_version marks the version it      *)
(* covers, _do_abort and garbage_collect take versions from the ends only     *)
(* (mvcc.py:236-268).                                                        *)
THEOREM ChainsStayLinked == Spec => [](TypeOK /\ ChainsAreLinked)
<1>1. LinkInv => TypeOK /\ ChainsAreLinked
  BY DEF LinkInv, Linked, ChainsAreLinked
<1> QED BY <1>1, LinkAlways, PTL

(* No chain holds a version of an aborted transaction (mvcc.py:236-268), as   *)
(* long as no caller writes a key that a concurrent transaction wrote, or     *)
(* writes a key twice.                                                       *)
THEOREM VersionsStaySound ==
    ASSUME "concurrent" \notin Callers, "rewrite" \notin Callers
    PROVE  Spec => []VersionsAreSound
<1>1. SoundInv => VersionsAreSound
  <2> SUFFICES ASSUME SoundInv PROVE VersionsAreSound
    OBVIOUS
  <2>1. TypeOK /\ ChainsAreLinked
    BY DEF SoundInv, LinkInv, Linked, ChainsAreLinked
  <2>2. \A k \in Keys: DOMAIN versions[k] = 1..Len(versions[k])
    BY <2>1, LenProperties DEF TypeOK
  <2>3. NoAbortedVersions
    BY <2>2 DEF SoundInv, OnlyHeadIsOpen, StatusInv, StatusesDiffer, NoAbortedVersions
  <2> QED BY <2>1, <2>3 DEF VersionsAreSound
<1>2. Spec => []SoundInv
  BY SoundAlways DEF Careful
<1> QED BY <1>1, <1>2, PTL

(* A transaction reads back what it wrote and nothing where it deleted        *)
(* (mvcc.py:81-110): its own version is the first it can see, and all the      *)
(* versions behind the one it deleted were ended before its snapshot.        *)
THEOREM OwnWritesAreRead ==
    ASSUME "concurrent" \notin Callers, "rewrite" \notin Callers
    PROVE  Spec => ReadYourWrites
<1> USE DEF Careful
<1>1. ASSUME SoundInv, SoundInv', NEW t \in Txns, NEW k \in Keys, NEW p \in Payloads,
             WriteVersion(t, k, p)
      PROVE  ReadVersion(t, k)' = <<t, p>>
  <2>0. TypeOK /\ StatusInv /\ StatusInv'
    BY <1>1 DEF SoundInv, StatusInv
  <2>1. PICK c, d : c = versions[k] /\ d = versions'[k]
    OBVIOUS
  <2>2. /\ t \in active_txns /\ UNCHANGED txnVars /\ c \in Seq(Version) /\ d \in Seq(Version)
        /\ Pushed(c, d, t) /\ d[1].data = <<t, p>>
    BY <1>1, <2>0, <2>1, WriteDoes
  <2>3. PICK W : W = Snap(t)'
    OBVIOUS
  <2>4. 0 \notin W /\ t \in W /\ t \in Begun'
    BY <2>0, <2>2, <2>3, TxnsAreNumbers
       DEF Snap, StatusInv, StatusesDiffer, TypeOK, txnVars, Begun
  <2>5. 1 \in 1..Len(d)
    BY <2>2, LenProperties DEF Pushed
  <2>6. Sees(d[1], W)
    BY <2>2, <2>4 DEF Pushed, Sees
  <2>7. OneSeen(d, W)
    BY <1>1, <2>1, <2>3, <2>4, ReadersSeeOneNext
  <2>8. ReadBy(d, W) = <<t, p>>
    BY <2>2, <2>5, <2>6, <2>7, ReadIs
  <2> QED BY <2>0, <2>1, <2>3, <2>8, ReadsAreNext
<1>2. ASSUME SoundInv, SoundInv', NEW t \in Txns, NEW k \in Keys, DeleteVersion(t, k)
      PROVE  ReadVersion(t, k)' = Absent
  <2>0. TypeOK /\ StatusInv /\ StatusInv'
    BY <1>2 DEF SoundInv, StatusInv
  <2>1. PICK c, d : c = versions[k] /\ d = versions'[k]
    OBVIOUS
  <2>2. /\ t \in active_txns /\ Disciplined(t, k) /\ UNCHANGED txnVars
        /\ c \in Seq(Version) /\ d \in Seq(Version) /\ Marked(c, d, t)
    BY <1>2, <2>0, <2>1, DeleteDoes
  <2>3. PICK W : W = Snap(t)'
    OBVIOUS
  <2>4. W = snapshot[t].committed \union {t}
    BY <2>2, <2>3 DEF Snap, txnVars
  <2>5. Linked(c) /\ \A i \in 1..Len(c): c[i].xmin \in W
    BY <1>2, <2>1, <2>2, <2>4, DisciplineSays DEF SoundInv, LinkInv
  <2>6. ASSUME NEW i \in 1..Len(d) PROVE ~Sees(d[i], W)
    <3>1. Len(c) \in Nat /\ Len(d) = Len(c)
      BY <2>2, LenProperties DEF Marked
    <3>2. CASE i = 1
      BY <2>2, <2>4, <3>2 DEF Marked, Sees
    <3>3. CASE i # 1
      <4> PICK m : m = i - 1
        OBVIOUS
      <4>1. m \in 1..(Len(c) - 1) /\ m + 1 = i /\ m \in 1..Len(c) /\ i \in 2..Len(c)
        BY <3>1, <3>3
      <4>2. c[m + 1].xmax = c[m].xmin
        BY <2>5, <4>1 DEF Linked
      <4>3. d[i].xmax = c[i].xmax
        BY <2>2, <4>1 DEF Marked
      <4> QED BY <2>5, <4>1, <4>2, <4>3 DEF Sees
    <3> QED BY <3>2, <3>3
  <2>7. ReadBy(d, W) = Absent
    BY <2>2, <2>6, ReadNone
  <2> QED BY <2>0, <2>1, <2>3, <2>7, ReadsAreNext
<1>3. SoundInv /\ SoundInv' /\ [Next]_vars =>
         [\A t \in Txns: \A k \in Keys:
             /\ \A p \in Payloads: WriteVersion(t, k, p) => ReadVersion(t, k)' = <<t, p>>
             /\ DeleteVersion(t, k) => ReadVersion(t, k)' = Absent]_vars
  BY <1>1, <1>2
<1>4. Spec => []SoundInv
  BY SoundAlways
<1> QED BY <1>3, <1>4, PTL DEF Spec, ReadYourWrites

(* A transaction reads a key it does not write the same way until it ends     *)
(* ("each transaction reads from a consistent snapshot", mvcc.py:25), if the  *)
(* callers write no key whose last version is deleted, either.               *)
THEOREM ReadsAreRepeatable ==
    ASSUME Callers = {}
    PROVE  Spec => RepeatableReads
<1>1. SoundInv /\ [Next]_vars =>
         [\A t \in active_txns \cap active_txns': \A k \in Keys:
             k \notin write_set'[t] => ReadVersion(t, k)' = ReadVersion(t, k)]_vars
  BY ReadsStay
<1>2. Spec => []SoundInv
  BY SoundAlways DEF Careful
<1> QED BY <1>1, <1>2, PTL DEF Spec, RepeatableReads

(* garbage_collect removes nothing that a transaction in progress can read    *)
(* ("No active transaction can see it", mvcc.py:360).                        *)
THEOREM GarbageStaysInvisible ==
    ASSUME Callers = {}
    PROVE  Spec => GarbageIsInvisible
<1>1. SoundInv /\ [Next]_vars =>
         [GarbageCollect => \A t \in active_txns: \A k \in Keys:
             ReadVersion(t, k)' = ReadVersion(t, k)]_vars
  <2> SUFFICES ASSUME SoundInv, [Next]_vars, GarbageCollect, NEW t \in active_txns, NEW k \in Keys
               PROVE  ReadVersion(t, k)' = ReadVersion(t, k)
    OBVIOUS
  <2>1. active_txns' = active_txns /\ write_set' = write_set
    BY DEF GarbageCollect, txnVars
  <2> QED BY <2>1, ReadsStay
<1>2. Spec => []SoundInv
  BY SoundAlways DEF Careful
<1> QED BY <1>1, <1>2, PTL DEF Spec, GarbageIsInvisible

(* Of two concurrent transactions that wrote one key at most one commits      *)
(* (mvcc.py:13), as long as the callers keep concurrent transactions off the  *)
(* same keys: the checks of the code itself do not see to it.                *)
THEOREM FirstUpdatersWin ==
    ASSUME "concurrent" \notin Callers
    PROVE  Spec => []FirstUpdaterWins
<1>1. WriteInv => FirstUpdaterWins
  BY DEF WriteInv
<1> QED BY <1>1, WriteAlways, PTL


----------------------------------------------------------------------------
(* Who commits makes its own view of the keys it wrote the committed one.     *)
LEMMA CommitShows ==
    ASSUME SoundInv, WriteInv, Callers = {}, NEW t \in Txns, CommitTransaction(t), NEW k \in Keys
    PROVE  CommittedData(k)' = IF k \in write_set[t] THEN ReadVersion(t, k) ELSE CommittedData(k)
<1>0. TypeOK /\ StatusInv /\ Careful /\ [Next]_vars
  BY DEF SoundInv, StatusInv, Careful, Next
<1>1. SoundInv'
  BY <1>0, SoundStep
<1>2. /\ t \in active_txns /\ committed_txns' = committed_txns \union {t} /\ versions' = versions
      /\ t \in Begun
  BY <1>0 DEF CommitTransaction, StatusInv, StatusesDiffer
<1>3. PICK c, W : c = versions[k] /\ W = committed_txns \union {t}
  OBVIOUS
<1>4. c \in Seq(Version) /\ OneSeen(c, W) /\ OneSeen(c, committed_txns) /\ OneSeen(c, Snap(t))
  BY <1>0, <1>1, <1>2, <1>3, ReadersSeeOne, ReadersSeeOneNext DEF TypeOK
<1>5. \A i \in 1..Len(c): /\ k \in write_set[c[i].xmin]
                          /\ c[i].xmax # 0 => k \in write_set[c[i].xmax]
  BY <1>3 DEF SoundInv, WritersWrote, EndersWrote
<1>6. CommittedData(k) = ReadBy(c, committed_txns) /\ CommittedData(k)' = ReadBy(c, W)
  BY <1>2, <1>3 DEF CommittedData, ReadBy, SeenBy, Sees, VisibleToAll
<1>7. ReadVersion(t, k) = ReadBy(c, Snap(t))
  BY <1>0, <1>3, ReadsAre
<1>8. snapshot[t].committed \subseteq committed_txns /\ 0 \notin committed_txns /\ t # 0
  BY <1>0, TxnsAreNumbers DEF StatusInv, SnapshotsAreOlder, TypeOK
<1>9. CASE k \in write_set[t]
  <2>1. \A u \in committed_txns: k \in write_set[u] => u \in snapshot[t].committed \/ u = t
    BY <1>2, <1>9 DEF WriteInv, WritersDoNotMeet
  <2>2. \A i \in 1..Len(c): Sees(c[i], W) <=> Sees(c[i], Snap(t))
    <3> SUFFICES ASSUME NEW i \in 1..Len(c) PROVE Sees(c[i], W) <=> Sees(c[i], Snap(t))
      OBVIOUS
    <3>1. c[i].xmin \in W <=> c[i].xmin \in Snap(t)
      BY <1>3, <1>5, <1>8, <2>1 DEF Snap
    <3>2. c[i].xmax \in W <=> c[i].xmax \in Snap(t)
      BY <1>3, <1>5, <1>8, <2>1 DEF Snap
    <3> QED BY <3>1, <3>2 DEF Sees
  <2>3. SeenAlike(c, W, c, Snap(t))
    BY <2>2 DEF SeenAlike
  <2> QED BY <1>4, <1>6, <1>7, <1>9, <2>3, ReadAlike
<1>10. CASE k \notin write_set[t]
  <2>1. \A i \in 1..Len(c): Sees(c[i], W) <=> Sees(c[i], committed_txns)
    BY <1>3, <1>5, <1>8, <1>10 DEF Sees
  <2>2. SeenAlike(c, W, c, committed_txns)
    BY <2>1 DEF SeenAlike
  <2> QED BY <1>4, <1>6, <1>10, <2>2, ReadAlike
<1> QED BY <1>9, <1>10

(* Who begins sees the committed database.                                    *)
LEMMA BeginShows ==
    ASSUME SoundInv, Callers = {}, BeginTransaction, NEW t \in Txns, t = next_txn_id, NEW k \in Keys
    PROVE  ReadVersion(t, k)' = CommittedData(k)
<1>0. TypeOK /\ StatusInv /\ Careful /\ [Next]_vars
  BY DEF SoundInv, StatusInv, Careful, Next
<1>1. SoundInv' /\ StatusInv'
  BY <1>0, SoundStep DEF SoundInv
<1>2. /\ t \in Txns /\ t \in Begun' /\ t \notin Begun /\ versions' = versions
      /\ Snap(t)' = committed_txns \union {t} /\ write_set[t] = {} /\ t # 0
  BY <1>0, BeginDoes, BegunParts, TxnsAreNumbers DEF Snap
<1>3. PICK c, W : c = versions[k] /\ W = committed_txns \union {t}
  OBVIOUS
<1>4. c \in Seq(Version) /\ OneSeen(c, W) /\ OneSeen(c, committed_txns)
  <2>1. OneSeen(versions'[k], Snap(t)')
    BY <1>1, <1>2, ReadersSeeOneNext
  <2>2. versions'[k] = c /\ Snap(t)' = W
    BY <1>2, <1>3
  <2>3. OneSeen(c, W)
    BY <2>1, <2>2
  <2> QED BY <1>0, <1>3, <2>3, ReadersSeeOne DEF TypeOK
<1>5. \A i \in 1..Len(c): /\ k \in write_set[c[i].xmin]
                          /\ c[i].xmax # 0 => k \in write_set[c[i].xmax]
  BY <1>3 DEF SoundInv, WritersWrote, EndersWrote
<1>6. \A i \in 1..Len(c): Sees(c[i], W) <=> Sees(c[i], committed_txns)
  BY <1>2, <1>3, <1>5 DEF Sees
<1>7. SeenAlike(c, W, c, committed_txns)
  BY <1>6 DEF SeenAlike
<1>8. ReadBy(c, W) = ReadBy(c, committed_txns)
  BY <1>4, <1>7, ReadAlike
<1>9. CommittedData(k) = ReadBy(c, committed_txns)
  BY <1>3 DEF CommittedData, ReadBy, SeenBy, Sees, VisibleToAll
<1>10. ReadVersion(t, k)' = ReadBy(c, W)
  BY <1>1, <1>2, <1>3, ReadsAreNext
<1> QED BY <1>8, <1>9, <1>10


----------------------------------------------------------------------------
(* The abstract database and snapshots of the refinement.                     *)
Db == [k \in Keys |-> CommittedData(k)]

Seen == [t \in Txns |-> snapshot[t].committed]

Row(t) == [k \in Keys |-> IF t \in active_txns THEN ReadVersion(t, k) ELSE Absent]

LEMMA ViewsAre ==
    /\ Views = [t \in Txns |-> Row(t)] /\ Views' = [t \in Txns |-> Row(t)']
    /\ \A t \in Txns: Views[t] = Row(t) /\ Views'[t] = Row(t)'
    /\ \A t \in Txns: t \notin active_txns => Row(t) = SI!Nothing
    /\ \A t \in Txns: t \notin active_txns' => Row(t)' = SI!Nothing
BY DEF Views, Row, SI!Nothing

(* What a reader sees, key by key.                                            *)
LEMMA RowsStay ==
    ASSUME SoundInv, [Next]_vars, Callers = {}, NEW t \in Txns,
           t \in active_txns <=> t \in active_txns', write_set'[t] = write_set[t]
    PROVE  Row(t)' = Row(t)
<1>1. CASE t \in active_txns
  <2>1. \A k \in Keys: ReadVersion(t, k)' = ReadVersion(t, k)
    BY <1>1, ReadsStay
  <2> QED BY <1>1, <2>1 DEF Row
<1>2. CASE t \notin active_txns
  BY <1>2 DEF Row
<1> QED BY <1>1, <1>2

LEMMA DbStays ==
    ASSUME SoundInv, [Next]_vars, Callers = {}, committed_txns' = committed_txns
    PROVE  Db' = Db
<1>1. \A k \in Keys: CommittedData(k)' = CommittedData(k)
  BY CommittedStay
<1> QED BY <1>1 DEF Db

LEMMA BeginIsBegin ==
    ASSUME SoundInv, Callers = {}, BeginTransaction
    PROVE  SI!Next
<1> PICK n : n = next_txn_id
  OBVIOUS
<1>0. TypeOK /\ StatusInv /\ [Next]_vars
  BY DEF SoundInv, StatusInv, Next
<1>1. /\ n \in Txns /\ n \notin active_txns \union committed_txns
      /\ active_txns' = active_txns \union {n}
      /\ committed_txns' = committed_txns /\ write_set' = write_set
      /\ snapshot'[n].committed = committed_txns
      /\ \A t \in Txns: t # n => snapshot'[t] = snapshot[t]
  BY <1>0, BeginDoes
<1>2. Db' = Db
  BY <1>0, <1>1, DbStays
<1>3. \A t \in Txns: t # n => Row(t)' = Row(t)
  BY <1>0, <1>1, RowsStay
<1>4. Row(n)' = Db
  <2>1. \A k \in Keys: ReadVersion(n, k)' = CommittedData(k)
    BY <1>1, BeginShows
  <2>2. n \in active_txns'
    BY <1>1
  <2> QED BY <2>1, <2>2 DEF Row, Db
<1>5. Views' = [Views EXCEPT ![n] = Db]
  BY <1>1, <1>3, <1>4, ViewsAre
<1>6. Seen' = [Seen EXCEPT ![n] = committed_txns]
  BY <1>1 DEF Seen
<1>7. SI!Begin(n)
  BY <1>1, <1>2, <1>5, <1>6 DEF SI!Begin, Db, Seen
<1> QED BY <1>1, <1>7 DEF SI!Next

LEMMA WriteIsWrite ==
    ASSUME SoundInv, Callers = {}, NEW t \in Txns, NEW k \in Keys,
           DeleteVersion(t, k) \/ \E p \in Payloads: WriteVersion(t, k, p)
    PROVE  SI!Next
<1>0. TypeOK /\ [Next]_vars
  BY DEF SoundInv, LinkInv, Next
<1>1. /\ t \in active_txns /\ UNCHANGED txnVars
      /\ write_set' = [write_set EXCEPT ![t] = @ \union {k}]
  BY DEF DeleteVersion, WriteVersion
<1>2. /\ active_txns' = active_txns /\ committed_txns' = committed_txns /\ snapshot' = snapshot
      /\ \A u \in Txns: u # t => write_set'[u] = write_set[u]
      /\ write_set'[t] = write_set[t] \union {k}
  BY <1>0, <1>1 DEF txnVars, TypeOK
<1>3. Db' = Db /\ Seen' = Seen
  BY <1>0, <1>2, DbStays DEF Seen
<1>4. \A u \in Txns: u # t => Row(u)' = Row(u)
  BY <1>0, <1>2, RowsStay
<1>5. \A q \in Keys: q # k => Row(t)'[q] = Row(t)[q]
  <2>1. \A q \in Keys: q # k => ReadVersion(t, q)' = ReadVersion(t, q)
    BY <1>0, <1>1, <1>2, ReadsStay
  <2> QED BY <1>1, <1>2, <2>1 DEF Row
<1>6. Row(t)' = [Row(t) EXCEPT ![k] = Row(t)'[k]]
  <2>1. DOMAIN Row(t) = Keys /\ Row(t)' = [q \in Keys |-> Row(t)'[q]]
    BY DEF Row
  <2>2. Row(t) = [q \in Keys |-> Row(t)[q]]
    BY DEF Row
  <2> QED BY <1>5, <2>1, <2>2
<1>7. Views' = [Views EXCEPT ![t][k] = Views'[t][k]]
  BY <1>4, <1>6, ViewsAre
<1>8. SI!Write(t, k)
  BY <1>1, <1>2, <1>3, <1>7 DEF SI!Write, Db, Seen
<1> QED BY <1>8 DEF SI!Next

LEMMA CommitIsCommit ==
    ASSUME SoundInv, WriteInv, Callers = {}, NEW t \in Txns, CommitTransaction(t)
    PROVE  SI!Next
<1>0. TypeOK /\ [Next]_vars
  BY DEF SoundInv, LinkInv, Next
<1>1. /\ t \in active_txns /\ active_txns' = active_txns \ {t}
      /\ committed_txns' = committed_txns \union {t}
      /\ write_set' = write_set /\ snapshot' = snapshot
  BY DEF CommitTransaction
<1>2. SI!NoConflict(t)
  <2>1. \A u \in committed_txns: \A k \in Keys:
           u # t /\ k \in write_set[t] /\ k \in write_set[u] => u \in snapshot[t].committed
    BY <1>1 DEF WriteInv, WritersDoNotMeet
  <2>2. t \notin committed_txns
    BY <1>1 DEF WriteInv, StatusInv, StatusesDiffer
  <2>3. write_set[t] \subseteq Keys
    BY <1>0 DEF TypeOK
  <2> QED BY <2>1, <2>2, <2>3 DEF SI!NoConflict
<1>3. Db' = [k \in Keys |-> IF k \in write_set[t] THEN Views[t][k] ELSE Db[k]]
  <2>1. \A k \in Keys:
           CommittedData(k)' = IF k \in write_set[t] THEN ReadVersion(t, k) ELSE CommittedData(k)
    BY CommitShows
  <2>2. \A k \in Keys: Views[t][k] = ReadVersion(t, k) /\ Db[k] = CommittedData(k)
    BY <1>1 DEF Views, Db
  <2>3. Db' = [k \in Keys |-> CommittedData(k)']
    BY DEF Db
  <2> QED BY <2>1, <2>2, <2>3
<1>4. \A u \in Txns: u # t => Row(u)' = Row(u)
  BY <1>0, <1>1, RowsStay
<1>5. Views' = [Views EXCEPT ![t] = SI!Nothing]
  BY <1>1, <1>4, ViewsAre
<1>6. Seen' = Seen
  BY <1>1 DEF Seen
<1>7. SI!Commit(t)
  BY <1>1, <1>2, <1>3, <1>5, <1>6 DEF SI!Commit, Db, Seen
<1> QED BY <1>7 DEF SI!Next

LEMMA AbortIsAbort ==
    ASSUME SoundInv, Callers = {}, NEW t \in Txns, AbortTransaction(t)
    PROVE  SI!Next
<1>0. TypeOK /\ [Next]_vars
  BY DEF SoundInv, LinkInv, Next
<1>1. /\ t \in active_txns /\ active_txns' = active_txns \ {t}
      /\ committed_txns' = committed_txns /\ write_set' = write_set /\ snapshot' = snapshot
  BY DEF AbortTransaction
<1>2. Db' = Db /\ Seen' = Seen
  BY <1>0, <1>1, DbStays DEF Seen
<1>3. \A u \in Txns: u # t => Row(u)' = Row(u)
  BY <1>0, <1>1, RowsStay
<1>4. Views' = [Views EXCEPT ![t] = SI!Nothing]
  BY <1>1, <1>3, ViewsAre
<1>5. SI!Abort(t)
  BY <1>1, <1>2, <1>4 DEF SI!Abort, Db, Seen
<1> QED BY <1>5 DEF SI!Next

LEMMA CollectIsStutter ==
    ASSUME SoundInv, Callers = {}, GarbageCollect \/ UNCHANGED vars
    PROVE  UNCHANGED SI!siVars
<1>1. /\ active_txns' = active_txns /\ committed_txns' = committed_txns
      /\ write_set' = write_set /\ snapshot' = snapshot /\ [Next]_vars
  BY DEF GarbageCollect, txnVars, vars, Next
<1>2. Db' = Db /\ Seen' = Seen
  BY <1>1, DbStays DEF Seen
<1>3. \A u \in Txns: Row(u)' = Row(u)
  BY <1>1, RowsStay
<1>4. Views' = Views
  BY <1>3, ViewsAre
<1> QED BY <1>1, <1>2, <1>4 DEF SI!siVars, Db, Seen

(* For callers that keep clear of concurrent writers, write a key once and    *)
(* leave deleted keys alone, the version chains implement snapshot isolation: *)
(* begin_transaction takes the committed database as the view of its         *)
(* transaction, commit_transaction publishes the keys it wrote and only those, *)
(* abort_transaction and garbage_collect change what nobody else sees        *)
(* (mvcc.py:13, mvcc.py:25).                                                 *)
THEOREM ChainsGiveSnapshotIsolation ==
    ASSUME Callers = {}
    PROVE  Spec => ImplementsSnapshotIsolation
<1>1. Init => SI!Init
  <2> SUFFICES ASSUME Init PROVE SI!Init
    OBVIOUS
  <2>1. \A k \in Keys: CommittedData(k) = Absent
    BY DEF Init, CommittedData
  <2>2. Views = [t \in Txns |-> SI!Nothing]
    BY ViewsAre DEF Init
  <2> QED BY <2>1, <2>2 DEF Init, SI!Init, SI!Nothing, NoSnapshot
<1>2. SoundInv /\ WriteInv /\ [Next]_vars => [SI!Next]_(SI!siVars)
  BY BeginIsBegin, WriteIsWrite, CommitIsCommit, AbortIsAbort, CollectIsStutter DEF Next
<1>3. Spec => []SoundInv
  BY SoundAlways DEF Careful
<1>4. Spec => []WriteInv
  BY WriteAlways
<1> QED BY <1>1, <1>2, <1>3, <1>4, PTL DEF Spec, ImplementsSnapshotIsolation, SI!Spec
==============================================================================
