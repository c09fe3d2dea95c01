---------------------------- MODULE SequenceFacts ----------------------------
(***************************************************************************)
(* What the proofs about the logs and the version chains need of sequences:  *)
(* the parts of a concatenation and of a subsequence, and the least element  *)
(* of a set of indices.                                                      *)
(***************************************************************************)
EXTENDS Integers, Sequences, SequenceTheorems, FiniteSetTheorems, TLAPS

(* The two parts of a concatenation.                                         *)
LEMMA ConcatParts ==
    ASSUME NEW S, NEW a \in Seq(S), NEW b \in Seq(S)
    PROVE  /\ a \o b \in Seq(S) /\ Len(a \o b) = Len(a) + Len(b)
           /\ \A i \in 1..Len(a): (a \o b)[i] = a[i]
           /\ \A i \in 1..Len(b): (a \o b)[Len(a) + i] = b[i]
           /\ \A i \in (Len(a) + 1)..(Len(a) + Len(b)): (a \o b)[i] = b[i - Len(a)]
<1>1. Len(a) \in Nat /\ Len(b) \in Nat
  BY LenProperties
<1>2. /\ a \o b \in Seq(S) /\ Len(a \o b) = Len(a) + Len(b)
      /\ \A i \in 1..(Len(a) + Len(b)): (a \o b)[i] = IF i <= Len(a) THEN a[i] ELSE b[i - Len(a)]
  BY ConcatProperties
<1>3. ASSUME NEW i \in 1..Len(b) PROVE (a \o b)[Len(a) + i] = b[i]
  <2>1. /\ Len(a) + i \in 1..(Len(a) + Len(b)) /\ ~(Len(a) + i <= Len(a))
        /\ (Len(a) + i) - Len(a) = i
    BY <1>1
  <2> QED BY <1>2, <2>1
<1>4. \A i \in 1..Len(a): (a \o b)[i] = a[i]
  BY <1>1, <1>2
<1>5. \A i \in (Len(a) + 1)..(Len(a) + Len(b)): (a \o b)[i] = b[i - Len(a)]
  BY <1>1, <1>2
<1> QED BY <1>2, <1>3, <1>4, <1>5

(* One element more.                                                         *)
LEMMA AppendParts ==
    ASSUME NEW S, NEW a \in Seq(S), NEW x \in S
    PROVE  /\ Append(a, x) \in Seq(S) /\ Len(Append(a, x)) = Len(a) + 1
           /\ \A i \in 1..Len(a): Append(a, x)[i] = a[i]
           /\ Append(a, x)[Len(a) + 1] = x
BY AppendProperties

(* A part of a sequence.                                                     *)
LEMMA SubSeqParts ==
    ASSUME NEW S, NEW a \in Seq(S), NEW m \in Nat \ {0}, NEW n \in Nat,
           m <= n + 1, n <= Len(a)
    PROVE  /\ SubSeq(a, m, n) \in Seq(S) /\ Len(SubSeq(a, m, n)) = n - m + 1
           /\ \A i \in 1..(n - m + 1): SubSeq(a, m, n)[i] = a[m + i - 1]
<1>1. \A i \in m..n: a[i] \in S
  <2>1. \A i \in m..n: i \in 1..Len(a)
    BY LenProperties
  <2> QED BY <2>1, ElementOfSeq
<1>2. m \in Int /\ n \in Int
  OBVIOUS
<1>3. /\ SubSeq(a, m, n) \in Seq(S)
      /\ Len(SubSeq(a, m, n)) = IF m <= n THEN n - m + 1 ELSE 0
      /\ \A i \in 1..(n - m + 1): SubSeq(a, m, n)[i] = a[m + i - 1]
  BY <1>1, <1>2, SubSeqProperties
<1>4. (IF m <= n THEN n - m + 1 ELSE 0) = n - m + 1
  OBVIOUS
<1> QED BY <1>3, <1>4

(* The least-number principle, from finite sets being well-founded.          *)
LEMMA LeastOfSet ==
    ASSUME NEW S \in SUBSET Nat, S # {}
    PROVE  \E i \in S: \A j \in S: i <= j
<1> DEFINE upTo(i) == {j \in S : j <= i}
           family == {upTo(i) : i \in S}
<1>1. \A i \in S: upTo(i) \in FiniteSubsetsOf(S)
  <2> SUFFICES ASSUME NEW i \in S PROVE IsFiniteSet(upTo(i))
    BY DEF FiniteSubsetsOf
  <2> QED BY FS_BoundedSetOfNaturals
<1>2. PICK U \in family: \A V \in family: <<V, U>> \notin StrictSubsetOrdering(S)
  <2>1. family \subseteq FiniteSubsetsOf(S) /\ family # {}
    BY <1>1
  <2>2. IsWellFoundedOn(StrictSubsetOrdering(S), FiniteSubsetsOf(S))
    BY FS_StrictSubsetOrderingWellFounded
  <2> HIDE DEF family
  <2> QED BY <2>1, <2>2, WFMin
<1>3. PICK i \in S: U = upTo(i)
  OBVIOUS
<1>4. ASSUME NEW j \in S, j < i PROVE FALSE
  <2>1. upTo(j) \subseteq upTo(i) /\ i \in upTo(i) /\ i \notin upTo(j)
    <3>1. i \in Nat /\ j \in Nat /\ \A k \in S: k \in Nat
      OBVIOUS
    <3>2. \A k \in S: k <= j => k <= i
      BY <1>4, <3>1
    <3>3. i <= i /\ ~(i <= j)
      BY <1>4, <3>1
    <3> QED BY <3>2, <3>3
  <2>2. <<upTo(j), U>> \in StrictSubsetOrdering(S)
    BY <1>3, <2>1 DEF StrictSubsetOrdering
  <2> QED BY <1>2, <2>2
<1> QED BY <1>4
==============================================================================
