--------------------------- MODULE SequenceLemmas ---------------------------
(***************************************************************************)
(* What the queues of the core are reasoned about with: the least and the  *)
(* greatest of a set of numbers, and what inserting an element in a        *)
(* sequence and removing one does.                                         *)
(***************************************************************************)
EXTENDS Integers, SequencesExt, SequenceTheorems, WellFoundedInduction, TLAPS

-----------------------------------------------------------------------------
\* A set of natural numbers that is not empty has a least element.
LEMMA NatMin ==
  ASSUME NEW T \in SUBSET Nat, T # {}
  PROVE  \E x \in T : \A y \in T : x <= y
<1>1. PICK x \in T : \A y \in T : ~(<<y, x>> \in OpToRel(<, Nat))
  BY NatLessThanWellFounded, WFMin
<1>2. \A y \in T : ~(y < x)
  BY <1>1 DEF OpToRel
<1> QED
  BY <1>2

\* And a greatest one, when it is bounded.
LEMMA NatMax ==
  ASSUME NEW n \in Nat, NEW T \in SUBSET (0 .. n), T # {}
  PROVE  \E x \in T : \A y \in T : y <= x
<1> DEFINE M == {m \in Nat : n - m \in T}
<1>1. \A z \in T : n - z \in M /\ z \in Int
  OBVIOUS
<1>2. PICK x \in M : \A z \in M : x <= z
  <2>1. M # {} /\ M \in SUBSET Nat
    BY <1>1
  <2> HIDE DEF M
  <2> QED
    BY <2>1, NatMin
<1>3. n - x \in T /\ x \in Nat
  OBVIOUS
<1>4. ASSUME NEW z \in T PROVE z <= n - x
  <2>1. x <= n - z
    BY <1>1, <1>2
  <2> QED
    BY <1>1, <1>3, <2>1
<1> QED
  BY <1>3, <1>4

\* A prefix of the places of a list ends somewhere.
LEMMA PrefixEnds ==
  ASSUME NEW n \in Nat, NEW I \in SUBSET (1 .. n),
         \A i \in I, j \in 1 .. n : j < i => j \in I
  PROVE  \E h \in 0 .. n : \A i \in 1 .. n : i \in I <=> i <= h
<1>1. CASE I = {}
  <2>1. 0 \in 0 .. n /\ \A i \in 1 .. n : i \in I <=> i <= 0
    BY <1>1
  <2> QED
    BY <2>1
<1>2. CASE I # {}
  <2>1. PICK h \in I : \A j \in I : j <= h
    <3>1. I \in SUBSET (0 .. n)
      OBVIOUS
    <3> QED
      BY <1>2, <3>1, NatMax
  <2>2. h \in 0 .. n
    OBVIOUS
  <2>3. ASSUME NEW i \in 1 .. n PROVE i \in I <=> i <= h
    BY <2>1
  <2> QED
    BY <2>2, <2>3
<1> QED
  BY <1>1, <1>2

-----------------------------------------------------------------------------
(***************************************************************************)
(* Sequences: what inserting and removing an element does.                 *)
(***************************************************************************)
\* No element occurs twice.
Distinct(s) == \A i, j \in 1 .. Len(s) : i < j => s[i] # s[j]

\* r is s with e inserted at place k.
InsertionOf(r, s, k, e) ==
  /\ Len(r) = Len(s) + 1
  /\ \A i \in 1 .. Len(s) + 1 :
       /\ i < k => r[i] = s[i]
       /\ i = k => r[i] = e
       /\ i > k => r[i] = s[i - 1]

LEMMA InsertAtProperties ==
  ASSUME NEW S, NEW s \in Seq(S), NEW e \in S, NEW k \in 1 .. Len(s) + 1
  PROVE  InsertAt(s, k, e) \in Seq(S) /\ InsertionOf(InsertAt(s, k, e), s, k, e)
<1> DEFINE a == SubSeq(s, 1, k - 1)
           b == SubSeq(s, k, Len(s))
           m == a \o <<e>>
<1>1. Len(s) \in Nat /\ \A i \in 1 .. Len(s) : s[i] \in S
  BY LenProperties, ElementOfSeq
<1>2. /\ a \in Seq(S) /\ Len(a) = k - 1
      /\ \A i \in 1 .. k - 1 : a[i] = s[i]
  <2>1. \A i \in 1 .. k - 1 : s[i] \in S
    BY <1>1
  <2>2. /\ a \in Seq(S) /\ Len(a) = IF 1 <= k - 1 THEN (k - 1) - 1 + 1 ELSE 0
        /\ \A i \in 1 .. (k - 1) - 1 + 1 : a[i] = s[1 + i - 1]
    BY <1>1, <2>1, SubSeqProperties
  <2> QED
    BY <1>1, <2>2
<1>3. /\ b \in Seq(S) /\ Len(b) = Len(s) - k + 1
      /\ \A i \in 1 .. Len(s) - k + 1 : b[i] = s[k + i - 1]
  <2>1. \A i \in k .. Len(s) : s[i] \in S
    BY <1>1
  <2>2. /\ b \in Seq(S) /\ Len(b) = IF k <= Len(s) THEN Len(s) - k + 1 ELSE 0
        /\ \A i \in 1 .. Len(s) - k + 1 : b[i] = s[k + i - 1]
    BY <1>1, <2>1, SubSeqProperties
  <2> QED
    BY <1>1, <2>2
<1>4. <<e>> \in Seq(S) /\ Len(<<e>>) = 1 /\ <<e>>[1] = e
  OBVIOUS
<1> HIDE DEF a, b
<1>5. /\ m \in Seq(S) /\ Len(m) = k
      /\ \A i \in 1 .. k - 1 : m[i] = s[i]
      /\ m[k] = e
  <2>1. /\ m \in Seq(S) /\ Len(m) = Len(a) + 1
        /\ \A i \in 1 .. Len(a) + 1 :
             m[i] = IF i <= Len(a) THEN a[i] ELSE <<e>>[i - Len(a)]
    BY <1>2, <1>4, ConcatProperties
  <2>2. Len(a) = k - 1 /\ k - (k - 1) = 1 /\ k \in Nat
    BY <1>1, <1>2
  <2> QED
    BY <2>1, <2>2, <1>2, <1>4
<1> HIDE DEF m
<1>6. /\ m \o b \in Seq(S)
      /\ Len(m \o b) = Len(s) + 1
      /\ \A i \in 1 .. Len(s) + 1 :
           (m \o b)[i] = IF i <= k THEN m[i] ELSE b[i - k]
  <2>1. /\ m \o b \in Seq(S)
        /\ Len(m \o b) = Len(m) + Len(b)
        /\ \A i \in 1 .. Len(m) + Len(b) :
             (m \o b)[i] = IF i <= Len(m) THEN m[i] ELSE b[i - Len(m)]
    BY <1>3, <1>5, ConcatProperties
  <2>2. Len(m) + Len(b) = Len(s) + 1 /\ Len(m) = k
    BY <1>1, <1>3, <1>5
  <2> QED
    BY ONLY <2>1, <2>2
<1>7. ASSUME NEW i \in 1 .. Len(s) + 1, i > k PROVE (m \o b)[i] = s[i - 1]
  <2>1. /\ ~(i <= k)
        /\ i - k \in 1 .. Len(s) - k + 1
        /\ k + (i - k) - 1 = i - 1
    BY <1>1, <1>7
  <2>2. (m \o b)[i] = b[i - k]
    BY <2>1, <1>6
  <2>3. b[i - k] = s[k + (i - k) - 1]
    BY <2>1, <1>3
  <2> QED
    BY <2>1, <2>2, <2>3
<1>8. ASSUME NEW i \in 1 .. Len(s) + 1
      PROVE  (i < k => (m \o b)[i] = s[i]) /\ (i = k => (m \o b)[i] = e)
  BY <1>1, <1>5, <1>6
<1>9. InsertionOf(m \o b, s, k, e)
  BY ONLY <1>6, <1>7, <1>8 DEF InsertionOf
<1>10. InsertAt(s, k, e) = m \o b
  BY DEF InsertAt, m, a, b
<1> QED
  BY ONLY <1>6, <1>9, <1>10

LEMMA InsertAtType ==
  ASSUME NEW S, NEW s \in Seq(S), NEW e \in S, NEW k \in 1 .. Len(s) + 1
  PROVE  InsertAt(s, k, e) \in Seq(S) /\ Len(InsertAt(s, k, e)) = Len(s) + 1
BY InsertAtProperties DEF InsertionOf

LEMMA InsertAtPlaces ==
  ASSUME NEW S, NEW s \in Seq(S), NEW e \in S, NEW k \in 1 .. Len(s) + 1,
         NEW i \in 1 .. Len(s) + 1
  PROVE  /\ i < k => InsertAt(s, k, e)[i] = s[i]
         /\ i = k => InsertAt(s, k, e)[i] = e
         /\ i > k => InsertAt(s, k, e)[i] = s[i - 1]
<1>1. InsertionOf(InsertAt(s, k, e), s, k, e)
  BY InsertAtProperties
<1> QED
  BY ONLY <1>1, i \in 1 .. Len(s) + 1 DEF InsertionOf

\* r is s without the element at place k.
RemovalOf(r, s, k) ==
  /\ Len(r) = Len(s) - 1
  /\ \A i \in 1 .. Len(s) - 1 : r[i] = IF i < k THEN s[i] ELSE s[i + 1]

LEMMA RemoveAtProperties ==
  ASSUME NEW S, NEW s \in Seq(S), NEW k \in 1 .. Len(s)
  PROVE  RemoveAt(s, k) \in Seq(S) /\ RemovalOf(RemoveAt(s, k), s, k)
<1> DEFINE a == SubSeq(s, 1, k - 1)
           b == SubSeq(s, k + 1, Len(s))
<1>1. Len(s) \in Nat /\ \A i \in 1 .. Len(s) : s[i] \in S
  BY LenProperties, ElementOfSeq
<1>2. /\ a \in Seq(S) /\ Len(a) = k - 1
      /\ \A i \in 1 .. k - 1 : a[i] = s[i]
  <2>1. \A i \in 1 .. k - 1 : s[i] \in S
    BY <1>1
  <2>2. /\ a \in Seq(S) /\ Len(a) = IF 1 <= k - 1 THEN (k - 1) - 1 + 1 ELSE 0
        /\ \A i \in 1 .. (k - 1) - 1 + 1 : a[i] = s[1 + i - 1]
    BY <1>1, <2>1, SubSeqProperties
  <2> QED
    BY <1>1, <2>2
<1>3. /\ b \in Seq(S) /\ Len(b) = Len(s) - k
      /\ \A i \in 1 .. Len(s) - k : b[i] = s[k + i]
  <2>1. \A i \in k + 1 .. Len(s) : s[i] \in S
    BY <1>1
  <2>2. /\ b \in Seq(S) /\ Len(b) = IF k + 1 <= Len(s) THEN Len(s) - (k + 1) + 1 ELSE 0
        /\ \A i \in 1 .. Len(s) - (k + 1) + 1 : b[i] = s[(k + 1) + i - 1]
    BY <1>1, <2>1, SubSeqProperties
  <2>3. \A i \in 1 .. Len(s) - k : (k + 1) + i - 1 = k + i
    BY <1>1
  <2> QED
    BY <1>1, <2>2, <2>3
<1> HIDE DEF a, b
<1>4. /\ a \o b \in Seq(S) /\ Len(a \o b) = Len(s) - 1
      /\ \A i \in 1 .. Len(s) - 1 :
           (a \o b)[i] = IF i <= k - 1 THEN a[i] ELSE b[i - (k - 1)]
  <2>1. /\ a \o b \in Seq(S)
        /\ Len(a \o b) = Len(a) + Len(b)
        /\ \A i \in 1 .. Len(a) + Len(b) :
             (a \o b)[i] = IF i <= Len(a) THEN a[i] ELSE b[i - Len(a)]
    BY <1>2, <1>3, ConcatProperties
  <2>2. Len(a) + Len(b) = Len(s) - 1 /\ Len(a) = k - 1
    BY <1>1, <1>2, <1>3
  <2> QED
    BY ONLY <2>1, <2>2
<1>5. \A i \in 1 .. Len(s) - 1 : ~(i < k) => b[i - (k - 1)] = s[i + 1]
  <2>1. SUFFICES ASSUME NEW i \in 1 .. Len(s) - 1, ~(i < k)
                 PROVE  b[i - (k - 1)] = s[i + 1]
    OBVIOUS
  <2>2. i - (k - 1) \in 1 .. Len(s) - k /\ k + (i - (k - 1)) = i + 1
    BY <1>1, <2>1
  <2> QED
    BY <2>2, <1>3
<1>6. \A i \in 1 .. Len(s) - 1 : (i <= k - 1 <=> i < k) /\ (i < k => i \in 1 .. k - 1)
  BY <1>1
<1>7. \A i \in 1 .. Len(s) - 1 : (a \o b)[i] = IF i < k THEN s[i] ELSE s[i + 1]
  BY <1>2, <1>4, <1>5, <1>6
<1>8. RemoveAt(s, k) = a \o b
  BY DEF RemoveAt, a, b
<1>9. RemovalOf(a \o b, s, k)
  BY ONLY <1>4, <1>7 DEF RemovalOf
<1> QED
  BY ONLY <1>4, <1>8, <1>9

LEMMA RemoveFirstAt ==
  ASSUME NEW S, NEW s \in Seq(S), Distinct(s), NEW k \in 1 .. Len(s)
  PROVE  RemoveFirst(s, s[k]) = RemoveAt(s, k)
<1> DEFINE I == {i \in 1 .. Len(s) : s[i] = s[k]}
<1>1. I = {k}
  BY LenProperties DEF Distinct
<1>2. Min(I) = k
  BY <1>1 DEF Min
<1>3. I # {}
  BY <1>1
<1> QED
  BY <1>2, <1>3 DEF RemoveFirst, SelectInSeq

LEMMA RemoveFirstAbsent ==
  ASSUME NEW S, NEW s \in Seq(S), NEW e, \A i \in 1 .. Len(s) : s[i] # e
  PROVE  RemoveFirst(s, e) = s
BY DEF RemoveFirst
=============================================================================
