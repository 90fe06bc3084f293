---------------------------- MODULE SchedFifoProof ----------------------------
(***************************************************************************)
(* Proofs about SCHED_FIFO on either build of the run queue, for any       *)
(* finite set of threads and any number of priority levels: the queue      *)
(* stays coherent, a runnable thread is linked once, the best one runs,    *)
(* and the class implements FifoPolicy.                                    *)
(***************************************************************************)
EXTENDS SchedFifo, SequenceLemmas, FiniteSetTheorems

-----------------------------------------------------------------------------
(***************************************************************************)
(* The instances have the operators on sequences under names of their own. *)
(***************************************************************************)
LEMMA SameOperators ==
  /\ \A s, e : Linear!RemoveFirst(s, e) = RemoveFirst(s, e)
  /\ \A s, e : Mlq!RemoveFirst(s, e) = RemoveFirst(s, e)
  /\ \A s, e : Policy!RemoveFirst(s, e) = RemoveFirst(s, e)
  /\ \A s, i, e : Linear!InsertAt(s, i, e) = InsertAt(s, i, e)
<1>1. \A s, i : /\ Linear!RemoveAt(s, i) = RemoveAt(s, i)
                /\ Mlq!RemoveAt(s, i) = RemoveAt(s, i)
                /\ Policy!RemoveAt(s, i) = RemoveAt(s, i)
  BY DEF RemoveAt, Linear!RemoveAt, Mlq!RemoveAt, Policy!RemoveAt
<1>2. \A I : /\ Linear!Min(I) = Min(I)
             /\ Mlq!Min(I) = Min(I)
             /\ Policy!Min(I) = Min(I)
  BY DEF Min, Linear!Min, Mlq!Min, Policy!Min
<1>3. \A s, e : Linear!RemoveFirst(s, e) = RemoveFirst(s, e)
  BY <1>1, <1>2 DEF RemoveFirst, SelectInSeq, Linear!RemoveFirst, Linear!SelectInSeq
<1>4. \A s, e : Mlq!RemoveFirst(s, e) = RemoveFirst(s, e)
  BY <1>1, <1>2 DEF RemoveFirst, SelectInSeq, Mlq!RemoveFirst, Mlq!SelectInSeq
<1>5. \A s, e : Policy!RemoveFirst(s, e) = RemoveFirst(s, e)
  BY <1>1, <1>2 DEF RemoveFirst, SelectInSeq, Policy!RemoveFirst, Policy!SelectInSeq
<1> QED
  BY <1>3, <1>4, <1>5 DEF InsertAt, Linear!InsertAt

-----------------------------------------------------------------------------
(***************************************************************************)
(* The linear list: every linked thread once, by decreasing priority.  A   *)
(* priority p splits it in three: the entries above p (up to place h),     *)
(* those at p (up to place l), and the others.                             *)
(***************************************************************************)
LinearOK(q, c, R) ==
  /\ q \in Seq(Threads)
  /\ \A i \in 1 .. Len(q) : q[i] \in R
  /\ \A t \in R : \E i \in 1 .. Len(q) : q[i] = t
  /\ Distinct(q)
  /\ \A i, j \in 1 .. Len(q) : i < j => c[q[j]] <= c[q[i]]

Splits(q, c, p, h, l) ==
  /\ h \in 0 .. Len(q)
  /\ l \in h .. Len(q)
  /\ \A i \in 1 .. Len(q) : p < c[q[i]] <=> i <= h
  /\ \A i \in 1 .. Len(q) : p <= c[q[i]] <=> i <= l

\* The current priorities, as the lists see them.
CPrios == [Threads -> Int]

\* LastOf finds the end of a prefix.
LEMMA LastOfPrefix ==
  ASSUME NEW n \in Nat, NEW I \in SUBSET (1 .. n), NEW h \in 0 .. n,
         \A i \in 1 .. n : i \in I <=> i <= h
  PROVE  Linear!LastOf(I) = h
<1>1. h \in I \cup {0} /\ \A j \in I : j <= h
  OBVIOUS
<1>2. ASSUME NEW x \in I \cup {0}, \A j \in I : j <= x PROVE x = h
  BY <1>2
<1> QED
  BY <1>1, <1>2 DEF Linear!LastOf

LEMMA SplitExists ==
  ASSUME NEW c \in CPrios, NEW R, NEW q, LinearOK(q, c, R), NEW p \in Int
  PROVE  \E h, l : Splits(q, c, p, h, l)
<1>1. Len(q) \in Nat /\ \A i \in 1 .. Len(q) : c[q[i]] \in Int
  BY LenProperties, ElementOfSeq DEF LinearOK, CPrios
<1>2. \A i, j \in 1 .. Len(q) : j < i => c[q[i]] <= c[q[j]]
  BY DEF LinearOK
<1>3. PICK h \in 0 .. Len(q) : \A i \in 1 .. Len(q) : p < c[q[i]] <=> i <= h
  <2> DEFINE I == {i \in 1 .. Len(q) : p < c[q[i]]}
  <2>1. I \in SUBSET (1 .. Len(q)) /\ \A i \in I, j \in 1 .. Len(q) : j < i => j \in I
    BY <1>1, <1>2
  <2>2. \A i \in 1 .. Len(q) : i \in I <=> p < c[q[i]]
    OBVIOUS
  <2> HIDE DEF I
  <2> QED
    BY <1>1, <2>1, <2>2, PrefixEnds
<1>4. PICK l \in 0 .. Len(q) : \A i \in 1 .. Len(q) : p <= c[q[i]] <=> i <= l
  <2> DEFINE I == {i \in 1 .. Len(q) : p <= c[q[i]]}
  <2>1. I \in SUBSET (1 .. Len(q)) /\ \A i \in I, j \in 1 .. Len(q) : j < i => j \in I
    BY <1>1, <1>2
  <2>2. \A i \in 1 .. Len(q) : i \in I <=> p <= c[q[i]]
    OBVIOUS
  <2> HIDE DEF I
  <2> QED
    BY <1>1, <2>1, <2>2, PrefixEnds
<1>5. h <= l
  <2>1. CASE h = 0
    BY <2>1
  <2>2. CASE h # 0
    <3>1. h \in 1 .. Len(q) /\ p < c[q[h]]
      BY <1>1, <1>3, <2>2
    <3> QED
      BY <3>1, <1>1, <1>4
  <2> QED
    BY <2>1, <2>2
<1>6. l \in h .. Len(q)
  BY <1>1, <1>5
<1>7. Splits(q, c, p, h, l)
  BY ONLY <1>3, <1>4, <1>6, h \in 0 .. Len(q) DEF Splits
<1> QED
  BY <1>7

\* The bounds of a priority are what LastOf finds.
LEMMA BoundsAre ==
  ASSUME NEW q \in Seq(Threads), NEW c \in CPrios, NEW p \in Int,
         NEW h, NEW l, Splits(q, c, p, h, l)
  PROVE  /\ Linear!LastOf({i \in DOMAIN q : p < c[q[i]]}) = h
         /\ Linear!LastOf({i \in DOMAIN q : p <= c[q[i]]}) = l
<1>1. Len(q) \in Nat /\ DOMAIN q = 1 .. Len(q)
  BY LenProperties
<1>2. h \in 0 .. Len(q) /\ l \in h .. Len(q) /\ l \in 0 .. Len(q)
  BY <1>1 DEF Splits
<1>3. Linear!LastOf({i \in DOMAIN q : p < c[q[i]]}) = h
  <2> DEFINE I == {i \in DOMAIN q : p < c[q[i]]}
  <2>1. I \in SUBSET (1 .. Len(q)) /\ \A i \in 1 .. Len(q) : i \in I <=> i <= h
    BY <1>1 DEF Splits
  <2> HIDE DEF I
  <2>2. Linear!LastOf(I) = h
    BY <1>1, <1>2, <2>1, LastOfPrefix
  <2> QED
    BY <2>2 DEF I
<1>4. Linear!LastOf({i \in DOMAIN q : p <= c[q[i]]}) = l
  <2> DEFINE I == {i \in DOMAIN q : p <= c[q[i]]}
  <2>1. I \in SUBSET (1 .. Len(q)) /\ \A i \in 1 .. Len(q) : i \in I <=> i <= l
    BY <1>1 DEF Splits
  <2> HIDE DEF I
  <2>2. Linear!LastOf(I) = l
    BY <1>1, <1>2, <2>1, LastOfPrefix
  <2> QED
    BY <2>2 DEF I
<1> QED
  BY <1>3, <1>4

\* The group of a priority is the stretch between its two bounds.
LEMMA GroupIs ==
  ASSUME NEW q \in Seq(Threads), NEW c \in CPrios, NEW p \in Int,
         NEW h, NEW l, Splits(q, c, p, h, l)
  PROVE  /\ Linear!group(q, p, c) \in Seq(Threads)
         /\ Len(Linear!group(q, p, c)) = l - h
         /\ \A i \in 1 .. l - h : Linear!group(q, p, c)[i] = q[h + i]
<1>1. Len(q) \in Nat /\ DOMAIN q = 1 .. Len(q) /\ \A i \in 1 .. Len(q) : q[i] \in Threads
  BY LenProperties, ElementOfSeq
<1>2. h \in 0 .. Len(q) /\ l \in h .. Len(q) /\ l \in 0 .. Len(q)
  BY <1>1 DEF Splits
<1>3. Linear!group(q, p, c) = SubSeq(q, h + 1, l)
  BY BoundsAre DEF Linear!group
<1> DEFINE g == SubSeq(q, h + 1, l)
<1>4. /\ g \in Seq(Threads)
      /\ Len(g) = IF h + 1 <= l THEN l - (h + 1) + 1 ELSE 0
      /\ \A i \in 1 .. l - (h + 1) + 1 : g[i] = q[(h + 1) + i - 1]
  <2>1. h + 1 \in Int /\ l \in Int /\ \A i \in h + 1 .. l : q[i] \in Threads
    BY <1>1, <1>2
  <2> HIDE DEF g
  <2> QED
    BY <2>1, SubSeqProperties DEF g
<1> HIDE DEF g
<1>5. Len(g) = l - h /\ \A i \in 1 .. l - h : g[i] = q[h + i]
  <2>1. \A i \in 1 .. l - h : (h + 1) + i - 1 = h + i /\ i \in 1 .. l - (h + 1) + 1
    BY <1>1, <1>2
  <2>2. (IF h + 1 <= l THEN l - (h + 1) + 1 ELSE 0) = l - h
    BY <1>1, <1>2
  <2> QED
    BY <1>4, <2>1, <2>2
<1>6. Linear!group(q, p, c) = g
  BY <1>3 DEF g
<1> QED
  BY ONLY <1>4, <1>5, <1>6

LEMMA GroupType ==
  ASSUME NEW q \in Seq(Threads), NEW c \in CPrios, NEW p \in Int,
         NEW h, NEW l, Splits(q, c, p, h, l)
  PROVE  /\ Linear!group(q, p, c) \in Seq(Threads)
         /\ Len(Linear!group(q, p, c)) = l - h
BY GroupIs

LEMMA GroupPlaces ==
  ASSUME NEW q \in Seq(Threads), NEW c \in CPrios, NEW p \in Int,
         NEW h, NEW l, Splits(q, c, p, h, l), NEW i \in 1 .. l - h
  PROVE  Linear!group(q, p, c)[i] = q[h + i]
BY GroupIs

\* An insertion between the entries above a priority and those below it.
LEMMA Inserted ==
  ASSUME NEW c \in CPrios, NEW R, NEW q, LinearOK(q, c, R),
         NEW t \in Threads, t \notin R,
         NEW h0, NEW l0, Splits(q, c, c[t], h0, l0),
         NEW k0 \in h0 + 1 .. l0 + 1, NEW r, r = InsertAt(q, k0, t)
  PROVE  /\ LinearOK(r, c, R \cup {t})
         /\ \A p \in Int : \A h, l : Splits(q, c, p, h, l) =>
              /\ Splits(r, c, p, IF p < c[t] THEN h + 1 ELSE h,
                                 IF p <= c[t] THEN l + 1 ELSE l)
              /\ p < c[t] => k0 <= h + 1
              /\ ~(p <= c[t]) => l < k0
<1> DEFINE p0  == c[t]
           pos == k0 - 1
<1>1. /\ q \in Seq(Threads) /\ Len(q) \in Nat
      /\ \A i \in 1 .. Len(q) : c[q[i]] \in Int
      /\ p0 \in Int
  BY LenProperties, ElementOfSeq DEF LinearOK, CPrios
<1>2. /\ h0 \in 0 .. Len(q) /\ l0 \in h0 .. Len(q)
      /\ pos \in 0 .. Len(q) /\ pos \in h0 .. l0 /\ k0 = pos + 1
  BY <1>1 DEF Splits
<1>3. k0 \in 1 .. Len(q) + 1
  BY <1>1, <1>2
<1> HIDE DEF p0, pos
<1>4. r \in Seq(Threads) /\ Len(r) = Len(q) + 1
  BY <1>1, <1>3, InsertAtType
<1>5. \A i \in 1 .. Len(q) + 1 :
        /\ i < k0 => r[i] = q[i]
        /\ i = k0 => r[i] = t
        /\ i > k0 => r[i] = q[i - 1]
  BY <1>1, <1>3, InsertAtPlaces
<1>6. \A i \in 1 .. Len(r) :
        \/ i \in 1 .. Len(q) /\ i <= pos /\ r[i] = q[i]
        \/ i = pos + 1 /\ r[i] = t
        \/ i - 1 \in 1 .. Len(q) /\ i > pos + 1 /\ r[i] = q[i - 1]
  <2>1. SUFFICES ASSUME NEW i \in 1 .. Len(r)
                 PROVE  \/ i \in 1 .. Len(q) /\ i <= pos /\ r[i] = q[i]
                        \/ i = pos + 1 /\ r[i] = t
                        \/ i - 1 \in 1 .. Len(q) /\ i > pos + 1 /\ r[i] = q[i - 1]
    OBVIOUS
  <2>2. CASE i < k0
    BY <2>2, <1>1, <1>2, <1>3, <1>4, <1>5
  <2>3. CASE i = k0
    BY <2>3, <1>1, <1>2, <1>3, <1>4, <1>5
  <2>4. CASE i > k0
    <3>1. r[i] = q[i - 1]
      BY <2>4, <1>4, <1>5
    <3>2. i - 1 \in 1 .. Len(q) /\ i > pos + 1
      BY <2>4, <1>1, <1>2, <1>4
    <3> QED
      BY <3>1, <3>2
  <2> QED
    BY <2>2, <2>3, <2>4, <1>3
<1>7. \A i \in 1 .. Len(q) : i <= pos => p0 <= c[q[i]]
  BY <1>1, <1>2 DEF Splits, p0
<1>8. \A i \in 1 .. Len(q) : i > pos => c[q[i]] <= p0
  BY <1>1, <1>2 DEF Splits, p0
<1>9. LinearOK(r, c, R \cup {t})
  <2>1. \A i \in 1 .. Len(r) : r[i] \in R \cup {t}
    BY <1>6 DEF LinearOK
  <2>2. ASSUME NEW u \in R \cup {t} PROVE \E i \in 1 .. Len(r) : r[i] = u
    <3>1. CASE u = t
      <4>1. k0 \in 1 .. Len(r) /\ r[k0] = t
        BY <1>3, <1>4, <1>5
      <4> QED
        BY <3>1, <4>1
    <3>2. CASE u \in R
      <4>1. PICK k \in 1 .. Len(q) : q[k] = u
        BY <3>2 DEF LinearOK
      <4>2. CASE k < k0
        <5>1. k \in 1 .. Len(q) + 1 /\ k \in 1 .. Len(r)
          BY <1>1, <1>4
        <5>2. r[k] = u
          BY <4>1, <4>2, <5>1, <1>5
        <5> QED
          BY <5>1, <5>2
      <4>3. CASE ~(k < k0)
        <5>1. k + 1 \in 1 .. Len(q) + 1 /\ k + 1 \in 1 .. Len(r) /\ k + 1 > k0 /\ (k + 1) - 1 = k
          BY <4>3, <1>1, <1>3, <1>4
        <5>2. r[k + 1] = u
          BY <4>1, <5>1, <1>5
        <5> QED
          BY <5>1, <5>2
      <4> QED
        BY <4>2, <4>3
    <3> QED
      BY <3>1, <3>2
  <2>3. \A i \in 1 .. Len(q) : q[i] # t
    BY DEF LinearOK
  <2>4. \A i, j \in 1 .. Len(q) : i < j => q[i] # q[j] /\ c[q[j]] <= c[q[i]]
    BY DEF LinearOK, Distinct
  <2>5. ASSUME NEW i \in 1 .. Len(r), NEW j \in 1 .. Len(r), i < j
        PROVE  r[i] # r[j] /\ c[r[j]] <= c[r[i]]
    <3>1. CASE i \in 1 .. Len(q) /\ i <= pos /\ r[i] = q[i]
      <4>1. CASE j \in 1 .. Len(q) /\ j <= pos /\ r[j] = q[j]
        BY <2>4, <2>5, <3>1, <4>1
      <4>2. CASE j = pos + 1 /\ r[j] = t
        BY <2>3, <1>7, <3>1, <4>2 DEF p0
      <4>3. CASE j - 1 \in 1 .. Len(q) /\ j > pos + 1 /\ r[j] = q[j - 1]
        <5>1. i < j - 1
          BY <1>1, <1>2, <3>1, <4>3
        <5> QED
          BY <2>4, <3>1, <4>3, <5>1
      <4> QED
        BY <4>1, <4>2, <4>3, <1>6
    <3>2. CASE i = pos + 1 /\ r[i] = t
      <4>1. j - 1 \in 1 .. Len(q) /\ j - 1 > pos /\ r[j] = q[j - 1]
        BY <2>5, <3>2, <1>1, <1>2, <1>6
      <4> QED
        BY <2>3, <1>8, <3>2, <4>1 DEF p0
    <3>3. CASE i - 1 \in 1 .. Len(q) /\ i > pos + 1 /\ r[i] = q[i - 1]
      <4>1. j - 1 \in 1 .. Len(q) /\ r[j] = q[j - 1] /\ i - 1 < j - 1
        BY <2>5, <3>3, <1>1, <1>2, <1>6
      <4> QED
        BY <2>4, <3>3, <4>1
    <3> QED
      BY <3>1, <3>2, <3>3, <1>6
  <2> QED
    BY <1>4, <2>1, <2>2, <2>5 DEF LinearOK, Distinct
<1>10. ASSUME NEW p \in Int, NEW h, NEW l, Splits(q, c, p, h, l)
      PROVE  /\ Splits(r, c, p, IF p < p0 THEN h + 1 ELSE h,
                                IF p <= p0 THEN l + 1 ELSE l)
             /\ p < p0 => k0 <= h + 1
             /\ ~(p <= p0) => l < k0
  <2> DEFINE h1 == IF p < p0 THEN h + 1 ELSE h
             l1 == IF p <= p0 THEN l + 1 ELSE l
  <2>1. /\ h \in 0 .. Len(q) /\ l \in h .. Len(q)
        /\ \A i \in 1 .. Len(q) : p < c[q[i]] <=> i <= h
        /\ \A i \in 1 .. Len(q) : p <= c[q[i]] <=> i <= l
    BY <1>10 DEF Splits
  <2>2. h1 \in 0 .. Len(r) /\ l1 \in h1 .. Len(r)
    BY <2>1, <1>1, <1>4
  <2>3. p < p0 => pos <= h
    <3>1. CASE pos = 0
      BY <3>1, <2>1, <1>1
    <3>2. CASE pos # 0
      BY <3>2, <2>1, <1>1, <1>2, <1>7
    <3> QED
      BY <3>1, <3>2
  <2>4. p <= p0 => pos <= l
    <3>1. CASE pos = 0
      BY <3>1, <2>1, <1>1
    <3>2. CASE pos # 0
      BY <3>2, <2>1, <1>1, <1>2, <1>7
    <3> QED
      BY <3>1, <3>2
  <2>5. ~(p < p0) => h <= pos
    <3>1. CASE h = 0
      BY <3>1, <1>1, <1>2
    <3>2. CASE h # 0
      BY <3>2, <2>1, <1>1, <1>2, <1>8
    <3> QED
      BY <3>1, <3>2
  <2>6. ~(p <= p0) => l <= pos
    <3>1. CASE l = 0
      BY <3>1, <1>1, <1>2
    <3>2. CASE l # 0
      BY <3>2, <2>1, <1>1, <1>2, <1>8
    <3> QED
      BY <3>1, <3>2
  <2>7. ASSUME NEW i \in 1 .. Len(r)
        PROVE  (p < c[r[i]] <=> i <= h1) /\ (p <= c[r[i]] <=> i <= l1)
    <3>1. CASE i \in 1 .. Len(q) /\ i <= pos /\ r[i] = q[i]
      BY <3>1, <2>1, <2>3, <2>4, <1>1, <1>2, <1>7
    <3>2. CASE i = pos + 1 /\ r[i] = t
      BY <3>2, <2>1, <2>3, <2>4, <2>5, <2>6, <1>1, <1>2 DEF p0
    <3>3. CASE i - 1 \in 1 .. Len(q) /\ i > pos + 1 /\ r[i] = q[i - 1]
      <4>1. (p < c[r[i]] <=> i - 1 <= h) /\ (p <= c[r[i]] <=> i - 1 <= l)
        BY ONLY <3>3, <2>1
      <4>3. c[r[i]] \in Int /\ c[r[i]] <= p0
        <5>1. i - 1 \in 1 .. Len(q) /\ pos < i - 1
          BY ONLY <3>3, <1>1, <1>2, <1>4, i \in 1 .. Len(r)
        <5> QED
          BY <5>1, <3>3, <1>1, <1>8
      <4>2. h \in Int /\ l \in Int /\ pos \in Int /\ i \in Int /\ p0 \in Int
        BY <2>1, <1>1, <1>2
      <4> QED
        BY ONLY <4>1, <4>2, <4>3, <2>5, <2>6, <3>3, p \in Int DEF h1, l1
    <3> QED
      BY <3>1, <3>2, <3>3, <1>6
  <2> HIDE DEF h1, l1
  <2>8. Splits(r, c, p, h1, l1)
    BY <2>2, <2>7 DEF Splits
  <2> QED
    BY <2>1, <2>3, <2>6, <2>8, <1>2 DEF h1, l1
<1> QED
  BY <1>9, <1>10 DEF p0

\* The removal of the entry at place k.
LEMMA Removed ==
  ASSUME NEW c \in CPrios, NEW R, NEW q, LinearOK(q, c, R),
         NEW k \in 1 .. Len(q),
         NEW r, r = RemoveAt(q, k)
  PROVE  /\ LinearOK(r, c, R \ {q[k]})
         /\ \A p \in Int : \A h, l : Splits(q, c, p, h, l) =>
              Splits(r, c, p, IF p < c[q[k]] THEN h - 1 ELSE h,
                              IF p <= c[q[k]] THEN l - 1 ELSE l)
<1> DEFINE t == q[k]
           p0 == c[t]
<1>1. /\ q \in Seq(Threads) /\ Len(q) \in Nat
      /\ \A i \in 1 .. Len(q) : c[q[i]] \in Int
      /\ p0 \in Int
  BY LenProperties, ElementOfSeq DEF LinearOK, CPrios
<1>2. /\ r \in Seq(Threads)
      /\ Len(r) = Len(q) - 1
      /\ \A i \in 1 .. Len(q) - 1 : r[i] = IF i < k THEN q[i] ELSE q[i + 1]
  BY <1>1, RemoveAtProperties DEF RemovalOf
<1>3. \A i, j \in 1 .. Len(q) : i < j => q[i] # q[j] /\ c[q[j]] <= c[q[i]]
  BY DEF LinearOK, Distinct
<1>4. \A i \in 1 .. Len(r) :
        \/ i \in 1 .. Len(q) /\ i < k /\ r[i] = q[i]
        \/ i + 1 \in 1 .. Len(q) /\ i >= k /\ r[i] = q[i + 1]
  BY <1>1, <1>2
<1> HIDE DEF t, p0
<1>5. LinearOK(r, c, R \ {t})
  <2>1. ASSUME NEW i \in 1 .. Len(r) PROVE r[i] \in R \ {t}
    <3>1. CASE i \in 1 .. Len(q) /\ i < k /\ r[i] = q[i]
      BY <3>1, <1>3 DEF LinearOK, t
    <3>2. CASE i + 1 \in 1 .. Len(q) /\ i >= k /\ r[i] = q[i + 1]
      <4>1. k < i + 1
        BY <3>2
      <4> QED
        BY <3>2, <4>1, <1>3 DEF LinearOK, t
    <3> QED
      BY <3>1, <3>2, <1>4
  <2>2. ASSUME NEW u \in R \ {t} PROVE \E i \in 1 .. Len(r) : r[i] = u
    <3>1. PICK i \in 1 .. Len(q) : q[i] = u
      BY DEF LinearOK
    <3>2. i # k
      BY <3>1 DEF t
    <3>3. CASE i < k
      <4>1. i \in 1 .. Len(q) - 1
        BY <3>3, <1>1
      <4> QED
        BY <3>1, <3>3, <4>1, <1>2
    <3>4. CASE i > k
      <4>1. i - 1 \in 1 .. Len(q) - 1 /\ ~(i - 1 < k) /\ (i - 1) + 1 = i
        BY <3>4, <1>1
      <4> QED
        BY <3>1, <4>1, <1>2
    <3> QED
      BY <3>2, <3>3, <3>4
  <2>3. ASSUME NEW i \in 1 .. Len(r), NEW j \in 1 .. Len(r), i < j
        PROVE  r[i] # r[j] /\ c[r[j]] <= c[r[i]]
    <3>1. CASE i \in 1 .. Len(q) /\ i < k /\ r[i] = q[i]
      <4>1. CASE j \in 1 .. Len(q) /\ j < k /\ r[j] = q[j]
        BY <2>3, <3>1, <4>1, <1>3
      <4>2. CASE j + 1 \in 1 .. Len(q) /\ j >= k /\ r[j] = q[j + 1]
        <5>1. i < j + 1
          BY <2>3
        <5> QED
          BY <3>1, <4>2, <5>1, <1>3
      <4> QED
        BY <4>1, <4>2, <1>4
    <3>2. CASE i + 1 \in 1 .. Len(q) /\ i >= k /\ r[i] = q[i + 1]
      <4>1. j + 1 \in 1 .. Len(q) /\ r[j] = q[j + 1] /\ i + 1 < j + 1
        BY <2>3, <3>2, <1>4
      <4> QED
        BY <3>2, <4>1, <1>3
    <3> QED
      BY <3>1, <3>2, <1>4
  <2> QED
    BY <1>2, <2>1, <2>2, <2>3 DEF LinearOK, Distinct
<1>6. ASSUME NEW p \in Int, NEW h, NEW l, Splits(q, c, p, h, l)
      PROVE  Splits(r, c, p, IF p < p0 THEN h - 1 ELSE h, IF p <= p0 THEN l - 1 ELSE l)
  <2> DEFINE h1 == IF p < p0 THEN h - 1 ELSE h
             l1 == IF p <= p0 THEN l - 1 ELSE l
  <2>1. /\ h \in 0 .. Len(q) /\ l \in h .. Len(q)
        /\ \A i \in 1 .. Len(q) : p < c[q[i]] <=> i <= h
        /\ \A i \in 1 .. Len(q) : p <= c[q[i]] <=> i <= l
    BY <1>6 DEF Splits
  <2>2. (p < p0 <=> k <= h) /\ (p <= p0 <=> k <= l)
    BY <2>1 DEF p0, t
  <2>3. h1 \in 0 .. Len(r) /\ l1 \in h1 .. Len(r)
    BY <2>1, <2>2, <1>1, <1>2
  <2>4. ASSUME NEW i \in 1 .. Len(r)
        PROVE  (p < c[r[i]] <=> i <= h1) /\ (p <= c[r[i]] <=> i <= l1)
    <3>1. CASE i \in 1 .. Len(q) /\ i < k /\ r[i] = q[i]
      BY <3>1, <2>1, <2>2, <1>1
    <3>2. CASE i + 1 \in 1 .. Len(q) /\ i >= k /\ r[i] = q[i + 1]
      <4>1. (p < c[r[i]] <=> i + 1 <= h) /\ (p <= c[r[i]] <=> i + 1 <= l)
        BY <3>2, <2>1
      <4> QED
        BY <4>1, <3>2, <2>1, <2>2, <1>1
    <3> QED
      BY <3>1, <3>2, <1>4
  <2> HIDE DEF h1, l1
  <2>5. Splits(r, c, p, h1, l1)
    BY <2>3, <2>4 DEF Splits
  <2> QED
    BY <2>5 DEF h1, l1
<1> QED
  BY <1>5, <1>6 DEF p0, t

(***************************************************************************)
(* What inserting t at place k0 of q, between the bounds h0 and l0 of its  *)
(* priority, does to the groups.                                           *)
(***************************************************************************)
Inserts(q, r, c, t, h0, k0, l0) ==
  /\ \A p \in Int : p # c[t] => Linear!group(r, p, c) = Linear!group(q, p, c)
  /\ k0 = l0 + 1 => Linear!group(r, c[t], c) = Append(Linear!group(q, c[t], c), t)
  /\ k0 = h0 + 1 => Linear!group(r, c[t], c) = <<t>> \o Linear!group(q, c[t], c)

LEMMA GroupsInserted ==
  ASSUME NEW c \in CPrios, NEW R, NEW q, LinearOK(q, c, R),
         NEW t \in Threads, t \notin R,
         NEW h0, NEW l0, Splits(q, c, c[t], h0, l0),
         NEW k0 \in h0 + 1 .. l0 + 1, NEW r, r = InsertAt(q, k0, t)
  PROVE  Inserts(q, r, c, t, h0, k0, l0)
<1> DEFINE p0  == c[t]
           pos == k0 - 1
<1>1. /\ q \in Seq(Threads) /\ Len(q) \in Nat /\ p0 \in Int
      /\ h0 \in 0 .. Len(q) /\ l0 \in h0 .. Len(q)
      /\ pos \in 0 .. Len(q) /\ pos \in Nat /\ k0 \in 1 .. Len(q) + 1 /\ k0 = pos + 1
  BY LenProperties DEF LinearOK, CPrios, Splits
<1> DEFINE Shifted(p, h, l) ==
             /\ Splits(r, c, p, IF p < p0 THEN h + 1 ELSE h,
                                IF p <= p0 THEN l + 1 ELSE l)
             /\ p < p0 => k0 <= h + 1
             /\ ~(p <= p0) => l < k0
<1>3. ASSUME NEW p \in Int, NEW h, NEW l, Splits(q, c, p, h, l)
      PROVE  Shifted(p, h, l)
  BY <1>3, Inserted
<1>4. Splits(q, c, p0, h0, l0)
  OBVIOUS
<1> HIDE DEF p0, pos
<1>5. r \in Seq(Threads) /\ Len(r) = Len(q) + 1
  BY <1>1, InsertAtType
<1>6. \A i \in 1 .. Len(q) + 1 :
        /\ i < k0 => r[i] = q[i]
        /\ i = k0 => r[i] = t
        /\ i > k0 => r[i] = q[i - 1]
  BY <1>1, InsertAtPlaces
<1>7. ASSUME NEW p \in Int, p # p0
      PROVE  Linear!group(r, p, c) = Linear!group(q, p, c)
  <2>1. PICK h, l : Splits(q, c, p, h, l)
    BY SplitExists
  <2>2. h \in 0 .. Len(q) /\ l \in h .. Len(q)
    BY <2>1 DEF Splits
  <2> DEFINE g  == Linear!group(q, p, c)
             g1 == Linear!group(r, p, c)
  <2>3. g \in Seq(Threads) /\ Len(g) = l - h /\ \A i \in 1 .. l - h : g[i] = q[h + i]
    BY <2>1, <1>1, GroupType, GroupPlaces
  <2>4. Shifted(p, h, l)
    BY <2>1, <1>3
  <2>5. g1 = g
    <3>1. CASE p < p0
      <4>1. Splits(r, c, p, h + 1, l + 1) /\ k0 <= h + 1
        BY <2>4, <3>1, <1>1
      <4>2. /\ g1 \in Seq(Threads) /\ Len(g1) = (l + 1) - (h + 1)
            /\ \A i \in 1 .. (l + 1) - (h + 1) : g1[i] = r[(h + 1) + i]
        BY <4>1, <1>5, GroupType, GroupPlaces
      <4> HIDE DEF g, g1
      <4>3. ASSUME NEW i \in 1 .. l - h PROVE g1[i] = g[i]
        <5>1. /\ (h + 1) + i \in 1 .. Len(q) + 1 /\ (h + 1) + i > k0
              /\ ((h + 1) + i) - 1 = h + i
          BY <2>2, <4>1, <1>1
        <5>2. r[(h + 1) + i] = q[h + i]
          BY <5>1, <1>6
        <5>3. i \in 1 .. (l + 1) - (h + 1)
          BY <2>2, <1>1
        <5> QED
          BY <2>3, <4>2, <5>2, <5>3
      <4>4. Len(g1) = Len(g)
        BY <2>2, <2>3, <4>2, <1>1
      <4> QED
        BY <2>3, <4>2, <4>3, <4>4, SeqEqual
    <3>2. CASE ~(p <= p0)
      <4>1. Splits(r, c, p, h, l) /\ l < k0
        BY <2>4, <3>2, <1>1
      <4>2. /\ g1 \in Seq(Threads) /\ Len(g1) = l - h
            /\ \A i \in 1 .. l - h : g1[i] = r[h + i]
        BY <4>1, <1>5, GroupType, GroupPlaces
      <4> HIDE DEF g, g1
      <4>3. ASSUME NEW i \in 1 .. l - h PROVE g1[i] = g[i]
        <5>1. h + i \in 1 .. Len(q) + 1 /\ h + i < k0
          BY <2>2, <4>1, <1>1
        <5>2. r[h + i] = q[h + i]
          BY <5>1, <1>6
        <5> QED
          BY <2>3, <4>2, <5>2
      <4> QED
        BY <2>3, <4>2, <4>3, SeqEqual
    <3> QED
      BY <3>1, <3>2, <1>1, <1>7
  <2> QED
    BY <2>5
<1> DEFINE g  == Linear!group(q, p0, c)
           g1 == Linear!group(r, p0, c)
<1>8. g \in Seq(Threads) /\ Len(g) = l0 - h0 /\ \A i \in 1 .. l0 - h0 : g[i] = q[h0 + i]
  <2>1. g \in Seq(Threads) /\ Len(g) = l0 - h0
    BY <1>1, <1>4, GroupType
  <2>2. \A i \in 1 .. l0 - h0 : g[i] = q[h0 + i]
    BY <1>1, <1>4, GroupPlaces
  <2> QED
    BY <2>1, <2>2
<1>9. /\ g1 \in Seq(Threads) /\ Len(g1) = (l0 + 1) - h0
      /\ \A i \in 1 .. (l0 + 1) - h0 : g1[i] = r[h0 + i]
  <2>1. Shifted(p0, h0, l0)
    BY <1>1, <1>3, <1>4
  <2>2. Splits(r, c, p0, h0, l0 + 1)
    BY <2>1, <1>1
  <2>3. g1 \in Seq(Threads) /\ Len(g1) = (l0 + 1) - h0
    BY <2>2, <1>1, <1>5, GroupType
  <2>4. \A i \in 1 .. (l0 + 1) - h0 : g1[i] = r[h0 + i]
    BY <2>2, <1>1, <1>5, GroupPlaces
  <2> QED
    BY <2>3, <2>4
<1> HIDE DEF g, g1
<1>10. ASSUME k0 = l0 + 1 PROVE g1 = Append(g, t)
  <2> DEFINE a == Append(g, t)
  <2>1. a \in Seq(Threads) /\ Len(a) = Len(g) + 1
    BY <1>8, AppendProperties
  <2>2. (\A i \in 1 .. Len(g) : a[i] = g[i]) /\ a[Len(g) + 1] = t
    BY <1>8, AppendProperties
  <2> HIDE DEF a
  <2>3. Len(g1) = Len(a)
    BY <2>1, <1>1, <1>8, <1>9
  <2>4. ASSUME NEW i \in 1 .. Len(g1) PROVE g1[i] = a[i]
    <3>1. i \in 1 .. (l0 + 1) - h0 /\ h0 + i \in 1 .. Len(q) + 1 /\ g1[i] = r[h0 + i]
      BY <1>1, <1>9
    <3>2. CASE i <= Len(g)
      <4>1. h0 + i < k0 /\ i \in 1 .. l0 - h0 /\ i \in 1 .. Len(g)
        BY <3>1, <3>2, <1>1, <1>8, <1>10
      <4> QED
        BY <2>2, <3>1, <4>1, <1>6, <1>8
    <3>3. CASE ~(i <= Len(g))
      <4>1. h0 + i = k0 /\ i = Len(g) + 1
        BY <3>1, <3>3, <1>1, <1>8, <1>10
      <4> QED
        BY <2>2, <3>1, <4>1, <1>6
    <3> QED
      BY <3>2, <3>3
  <2>5. g1 = a
    BY <2>1, <2>3, <2>4, <1>9, SeqEqual
  <2> QED
    BY <2>5, <1>10 DEF a
<1>11. ASSUME k0 = h0 + 1 PROVE g1 = <<t>> \o g
  <2> DEFINE a == <<t>> \o g
  <2>1. <<t>> \in Seq(Threads) /\ Len(<<t>>) = 1 /\ <<t>>[1] = t
    OBVIOUS
  <2>2. a \in Seq(Threads) /\ Len(a) = 1 + Len(g)
    BY <2>1, <1>8, ConcatProperties
  <2>3. \A i \in 1 .. 1 + Len(g) : a[i] = IF i <= 1 THEN <<t>>[i] ELSE g[i - 1]
    BY <2>1, <1>8, ConcatProperties
  <2> HIDE DEF a
  <2>4. Len(g1) = Len(a)
    BY <2>2, <1>1, <1>8, <1>9
  <2>5. ASSUME NEW i \in 1 .. Len(g1) PROVE g1[i] = a[i]
    <3>1. /\ i \in 1 .. (l0 + 1) - h0 /\ h0 + i \in 1 .. Len(q) + 1
          /\ i \in 1 .. 1 + Len(g) /\ g1[i] = r[h0 + i]
      BY <1>1, <1>8, <1>9
    <3>2. CASE i <= 1
      <4>1. i = 1 /\ h0 + i = k0
        BY <3>1, <3>2, <1>11, <1>1
      <4> QED
        BY <2>1, <2>3, <3>1, <4>1, <1>6
    <3>3. CASE ~(i <= 1)
      <4>1. /\ h0 + i > k0 /\ i - 1 \in 1 .. l0 - h0
            /\ (h0 + i) - 1 = h0 + (i - 1)
        <5>1. k0 = h0 + 1 /\ h0 \in Int /\ l0 \in Int
          BY <1>1, <1>11
        <5> QED
          BY ONLY <5>1, <3>1, <3>3
      <4>2. r[h0 + i] = q[h0 + (i - 1)]
        BY <3>1, <4>1, <1>6
      <4> QED
        BY <2>3, <3>1, <3>3, <4>1, <4>2, <1>8
    <3> QED
      BY <3>2, <3>3
  <2>6. g1 = a
    BY <2>2, <2>4, <2>5, <1>9, SeqEqual
  <2> QED
    BY <2>6 DEF a
<1> QED
  BY <1>7, <1>10, <1>11 DEF Inserts, p0, g, g1

\* And a removal.
LEMMA GroupsRemoved ==
  ASSUME NEW c \in CPrios, NEW R, NEW q, LinearOK(q, c, R),
         NEW k \in 1 .. Len(q),
         NEW r, r = RemoveAt(q, k)
  PROVE  /\ \A p \in Int : p # c[q[k]] =>
              Linear!group(r, p, c) = Linear!group(q, p, c)
         /\ Linear!group(r, c[q[k]], c)
              = RemoveFirst(Linear!group(q, c[q[k]], c), q[k])
<1> DEFINE t == q[k]
           p0 == c[t]
<1>1. /\ q \in Seq(Threads) /\ Len(q) \in Nat /\ p0 \in Int
      /\ \A i, j \in 1 .. Len(q) : i < j => q[i] # q[j]
  BY LenProperties, ElementOfSeq DEF LinearOK, Distinct, CPrios
<1> DEFINE Shifted(p, h, l) ==
             Splits(r, c, p, IF p < p0 THEN h - 1 ELSE h,
                             IF p <= p0 THEN l - 1 ELSE l)
<1>2. ASSUME NEW p \in Int, NEW h, NEW l, Splits(q, c, p, h, l)
      PROVE  Shifted(p, h, l)
  BY <1>2, Removed
<1>3. r \in Seq(Threads) /\ Len(r) = Len(q) - 1
  BY <1>1, RemoveAtProperties DEF RemovalOf
<1>4. \A i \in 1 .. Len(q) - 1 : r[i] = IF i < k THEN q[i] ELSE q[i + 1]
  BY <1>1, RemoveAtProperties DEF RemovalOf
<1>5. \A p \in Int : \A h, l : Splits(q, c, p, h, l) =>
        (p < p0 <=> k <= h) /\ (p <= p0 <=> k <= l)
  BY DEF Splits
<1> HIDE DEF t, p0
<1>6. ASSUME NEW p \in Int, p # p0
      PROVE  Linear!group(r, p, c) = Linear!group(q, p, c)
  <2>1. PICK h, l : Splits(q, c, p, h, l)
    BY SplitExists
  <2>2. /\ h \in 0 .. Len(q) /\ l \in h .. Len(q)
        /\ p < p0 <=> k <= h
        /\ p <= p0 <=> k <= l
    BY <2>1, <1>5 DEF Splits
  <2> DEFINE g  == Linear!group(q, p, c)
             g1 == Linear!group(r, p, c)
  <2>3. g \in Seq(Threads) /\ Len(g) = l - h /\ \A i \in 1 .. l - h : g[i] = q[h + i]
    BY <2>1, <1>1, GroupType, GroupPlaces
  <2>4. Shifted(p, h, l)
    BY <2>1, <1>2
  <2>5. g1 = g
    <3>1. CASE p < p0
      <4>1. Splits(r, c, p, h - 1, l - 1)
        BY <2>4, <3>1, <1>1
      <4>2. /\ g1 \in Seq(Threads) /\ Len(g1) = (l - 1) - (h - 1)
            /\ \A i \in 1 .. (l - 1) - (h - 1) : g1[i] = r[(h - 1) + i]
        BY <4>1, <1>3, GroupType, GroupPlaces
      <4> HIDE DEF g, g1
      <4>3. ASSUME NEW i \in 1 .. l - h PROVE g1[i] = g[i]
        <5>1. /\ (h - 1) + i \in 1 .. Len(q) - 1 /\ ~((h - 1) + i < k)
              /\ ((h - 1) + i) + 1 = h + i
          BY <2>2, <3>1, <1>1
        <5>2. r[(h - 1) + i] = q[h + i]
          BY <5>1, <1>4
        <5>3. i \in 1 .. (l - 1) - (h - 1)
          BY <2>2, <1>1
        <5> QED
          BY <2>3, <4>2, <5>2, <5>3
      <4>4. Len(g1) = Len(g)
        BY <2>2, <2>3, <4>2, <1>1
      <4> QED
        BY <2>3, <4>2, <4>3, <4>4, SeqEqual
    <3>2. CASE ~(p <= p0)
      <4>1. Splits(r, c, p, h, l) /\ l < k
        BY <2>2, <2>4, <3>2, <1>1
      <4>2. /\ g1 \in Seq(Threads) /\ Len(g1) = l - h
            /\ \A i \in 1 .. l - h : g1[i] = r[h + i]
        BY <4>1, <1>3, GroupType, GroupPlaces
      <4> HIDE DEF g, g1
      <4>3. ASSUME NEW i \in 1 .. l - h PROVE g1[i] = g[i]
        <5>1. h + i \in 1 .. Len(q) - 1 /\ h + i < k
          BY <2>2, <4>1, <1>1
        <5>2. r[h + i] = q[h + i]
          BY <5>1, <1>4
        <5> QED
          BY <2>3, <4>2, <5>2
      <4> QED
        BY <2>3, <4>2, <4>3, SeqEqual
    <3> QED
      BY <3>1, <3>2, <1>1, <1>6
  <2> QED
    BY <2>5
<1>7. PICK h0, l0 : Splits(q, c, p0, h0, l0)
  BY <1>1, SplitExists
<1>8. h0 \in 0 .. Len(q) /\ l0 \in h0 .. Len(q) /\ h0 < k /\ k <= l0
  <2>1. h0 \in 0 .. Len(q) /\ l0 \in h0 .. Len(q)
    BY <1>7 DEF Splits
  <2>2. (p0 < p0 <=> k <= h0) /\ (p0 <= p0 <=> k <= l0)
    BY <1>1, <1>5, <1>7
  <2> QED
    BY <2>1, <2>2, <1>1
<1> DEFINE g  == Linear!group(q, p0, c)
           g1 == Linear!group(r, p0, c)
           m  == k - h0
<1>9. g \in Seq(Threads) /\ Len(g) = l0 - h0 /\ \A i \in 1 .. l0 - h0 : g[i] = q[h0 + i]
  BY <1>1, <1>7, GroupType, GroupPlaces
<1>10. /\ g1 \in Seq(Threads) /\ Len(g1) = (l0 - 1) - h0
       /\ \A i \in 1 .. (l0 - 1) - h0 : g1[i] = r[h0 + i]
  <2>1. Shifted(p0, h0, l0)
    BY <1>1, <1>2, <1>7
  <2>2. Splits(r, c, p0, h0, l0 - 1)
    BY <2>1, <1>1
  <2> QED
    BY <2>2, <1>1, <1>3, GroupType, GroupPlaces
<1> HIDE DEF g, g1
<1>11. m \in 1 .. Len(g) /\ h0 + m = k
  BY <1>1, <1>8, <1>9
<1>12. g[m] = t
  BY <1>9, <1>11 DEF t
<1>13. Distinct(g)
  <2>1. SUFFICES ASSUME NEW i \in 1 .. l0 - h0, NEW j \in 1 .. l0 - h0, i < j
                 PROVE  g[i] # g[j]
    BY <1>9 DEF Distinct
  <2>2. h0 + i \in 1 .. Len(q) /\ h0 + j \in 1 .. Len(q) /\ h0 + i < h0 + j
    BY <2>1, <1>1, <1>8
  <2> QED
    BY <2>2, <1>1, <1>9
<1> HIDE DEF m
<1> DEFINE a == RemoveAt(g, m)
<1>14. a \in Seq(Threads) /\ Len(a) = Len(g) - 1
  BY <1>9, <1>11, RemoveAtProperties DEF RemovalOf
<1>15. \A i \in 1 .. Len(g) - 1 : a[i] = IF i < m THEN g[i] ELSE g[i + 1]
  BY <1>9, <1>11, RemoveAtProperties DEF RemovalOf
<1>16. RemoveFirst(g, t) = a
  BY <1>9, <1>11, <1>12, <1>13, RemoveFirstAt
<1> HIDE DEF a
<1>17. Len(g1) = Len(a)
  BY <1>1, <1>8, <1>9, <1>10, <1>14
<1>18. ASSUME NEW i \in 1 .. Len(g1) PROVE g1[i] = a[i]
  <2>1. /\ i \in 1 .. Len(g) - 1 /\ i \in 1 .. (l0 - 1) - h0
        /\ h0 + i \in 1 .. Len(q) - 1 /\ g1[i] = r[h0 + i]
    BY <1>1, <1>8, <1>9, <1>10
  <2>2. CASE i < m
    <3>1. h0 + i < k /\ i \in 1 .. l0 - h0
      BY <2>1, <2>2, <1>1, <1>8, <1>9, <1>11
    <3> QED
      BY <2>1, <2>2, <3>1, <1>4, <1>9, <1>15
  <2>3. CASE ~(i < m)
    <3>1. ~(h0 + i < k) /\ i + 1 \in 1 .. l0 - h0 /\ (h0 + i) + 1 = h0 + (i + 1)
      BY <2>1, <2>3, <1>1, <1>8, <1>9, <1>11
    <3>2. r[h0 + i] = q[h0 + (i + 1)]
      BY <2>1, <3>1, <1>4
    <3> QED
      BY <2>1, <2>3, <3>1, <3>2, <1>9, <1>15
  <2> QED
    BY <2>2, <2>3
<1>19. g1 = a
  BY <1>10, <1>14, <1>17, <1>18, SeqEqual
<1> QED
  BY <1>6, <1>16, <1>19 DEF p0, t, g, g1

(***************************************************************************)
(* The operations of the linear list.                                      *)
(***************************************************************************)
ListBecomes(r, q, c, R, p, s) ==
  /\ LinearOK(r, c, R)
  /\ \A o \in Int : o # p => Linear!group(r, o, c) = Linear!group(q, o, c)
  /\ Linear!group(r, p, c) = s

LEMMA LinearAddTail ==
  ASSUME NEW c \in CPrios, NEW R, NEW q, LinearOK(q, c, R),
         NEW t \in Threads, t \notin R,
         NEW r, r = Linear!evl_add_schedq_tail(q, t, c)
  PROVE  ListBecomes(r, q, c, R \cup {t}, c[t], Append(Linear!group(q, c[t], c), t))
<1>1. q \in Seq(Threads) /\ Len(q) \in Nat /\ c[t] \in Int
  BY LenProperties DEF LinearOK, CPrios
<1>2. PICK h, l : Splits(q, c, c[t], h, l)
  BY <1>1, SplitExists
<1>3. h \in 0 .. Len(q) /\ l \in h .. Len(q)
  BY <1>2 DEF Splits
<1>4. Linear!LastOf({i \in DOMAIN q : c[t] <= c[q[i]]}) = l
  BY <1>1, <1>2, BoundsAre
<1> DEFINE k == l + 1
<1>5. r = InsertAt(q, k, t)
  BY <1>4, SameOperators
     DEF Linear!evl_add_schedq_tail, Linear!list_add_priff, Linear!__list_add_pri
<1>6. k \in h + 1 .. l + 1
  BY <1>1, <1>3
<1> HIDE DEF k
<1>7. LinearOK(r, c, R \cup {t})
  BY <1>2, <1>5, <1>6, Inserted
<1>8. Inserts(q, r, c, t, h, k, l)
  BY <1>2, <1>5, <1>6, GroupsInserted
<1> QED
  BY <1>7, <1>8 DEF Inserts, ListBecomes, k

LEMMA LinearAdd ==
  ASSUME NEW c \in CPrios, NEW R, NEW q, LinearOK(q, c, R),
         NEW t \in Threads, t \notin R,
         NEW r, r = Linear!evl_add_schedq(q, t, c)
  PROVE  ListBecomes(r, q, c, R \cup {t}, c[t], <<t>> \o Linear!group(q, c[t], c))
<1>1. q \in Seq(Threads) /\ Len(q) \in Nat /\ c[t] \in Int
  BY LenProperties DEF LinearOK, CPrios
<1>2. PICK h, l : Splits(q, c, c[t], h, l)
  BY <1>1, SplitExists
<1>3. h \in 0 .. Len(q) /\ l \in h .. Len(q)
  BY <1>2 DEF Splits
<1>4. Linear!LastOf({i \in DOMAIN q : c[t] < c[q[i]]}) = h
  BY <1>1, <1>2, BoundsAre
<1> DEFINE k == h + 1
<1>5. r = InsertAt(q, k, t)
  BY <1>4, SameOperators
     DEF Linear!evl_add_schedq, Linear!list_add_prilf, Linear!__list_add_pri
<1>6. k \in h + 1 .. l + 1
  BY <1>1, <1>3
<1> HIDE DEF k
<1>7. LinearOK(r, c, R \cup {t})
  BY <1>2, <1>5, <1>6, Inserted
<1>8. Inserts(q, r, c, t, h, k, l)
  BY <1>2, <1>5, <1>6, GroupsInserted
<1> QED
  BY <1>7, <1>8 DEF Inserts, ListBecomes, k

LEMMA LinearDel ==
  ASSUME NEW c \in CPrios, NEW R, NEW q, LinearOK(q, c, R), NEW t \in R,
         NEW r, r = Linear!evl_del_schedq(q, t, c)
  PROVE  ListBecomes(r, q, c, R \ {t}, c[t], RemoveFirst(Linear!group(q, c[t], c), t))
<1>1. q \in Seq(Threads) /\ Distinct(q)
  BY DEF LinearOK
<1>2. PICK k \in 1 .. Len(q) : q[k] = t
  BY DEF LinearOK
<1>3. r = RemoveAt(q, k)
  BY <1>1, <1>2, SameOperators, RemoveFirstAt DEF Linear!evl_del_schedq
<1>4. LinearOK(r, c, R \ {q[k]})
  BY <1>3, Removed
<1>5. \A p \in Int : p # c[q[k]] => Linear!group(r, p, c) = Linear!group(q, p, c)
  BY <1>3, GroupsRemoved
<1>6. Linear!group(r, c[q[k]], c) = RemoveFirst(Linear!group(q, c[q[k]], c), q[k])
  BY <1>3, GroupsRemoved
<1> QED
  BY <1>2, <1>4, <1>5, <1>6 DEF ListBecomes

\* The first entry of a list without duplicates is the one its tail lacks.
LEMMA TailRemovesHead ==
  ASSUME NEW S, NEW s \in Seq(S), Distinct(s), s # <<>>
  PROVE  /\ 1 \in 1 .. Len(s)
         /\ Head(s) = s[1]
         /\ Tail(s) = RemoveFirst(s, Head(s))
<1>1. Len(s) \in Nat /\ Len(s) # 0
  BY EmptySeq, LenProperties
<1>2. 1 \in 1 .. Len(s) /\ Head(s) = s[1]
  BY <1>1
<1>3. RemoveFirst(s, Head(s)) = RemoveAt(s, 1)
  BY <1>2, RemoveFirstAt
<1> DEFINE a == RemoveAt(s, 1)
           b == Tail(s)
<1>4. a \in Seq(S) /\ Len(a) = Len(s) - 1
  BY <1>2, RemoveAtProperties DEF RemovalOf
<1>5. \A i \in 1 .. Len(s) - 1 : a[i] = IF i < 1 THEN s[i] ELSE s[i + 1]
  BY <1>2, RemoveAtProperties DEF RemovalOf
<1>6. b \in Seq(S) /\ Len(b) = Len(s) - 1 /\ \A i \in 1 .. Len(b) : b[i] = s[i + 1]
  BY HeadTailProperties
<1> HIDE DEF a, b
<1>7. \A i \in 1 .. Len(a) : a[i] = b[i]
  BY <1>1, <1>4, <1>5, <1>6
<1>8. a = b
  BY <1>4, <1>6, <1>7, SeqEqual
<1> QED
  BY <1>2, <1>3, <1>8 DEF a, b

LEMMA LinearGet ==
  ASSUME NEW c \in CPrios, NEW R, NEW q, LinearOK(q, c, R), q # <<>>,
         NEW t, t = Head(q)
  PROVE  /\ t \in R /\ \A u \in R : c[u] <= c[t]
         /\ Tail(q) = Linear!evl_del_schedq(q, t, c)
         /\ Linear!group(q, c[t], c) # <<>>
         /\ Head(Linear!group(q, c[t], c)) = t
<1>1. q \in Seq(Threads) /\ Distinct(q) /\ Len(q) \in Nat
  BY LenProperties DEF LinearOK
<1>2. 1 \in 1 .. Len(q) /\ t = q[1] /\ Tail(q) = RemoveFirst(q, t)
  BY <1>1, TailRemovesHead
<1>3. t \in R /\ c[t] \in Int
  BY <1>1, <1>2, ElementOfSeq DEF LinearOK, CPrios
<1>4. ASSUME NEW u \in R PROVE c[u] <= c[t]
  <2>1. PICK i \in 1 .. Len(q) : q[i] = u
    BY DEF LinearOK
  <2>2. i = 1 \/ 1 < i
    OBVIOUS
  <2> QED
    BY <2>1, <2>2, <1>2, <1>3 DEF LinearOK
<1>5. PICK h, l : Splits(q, c, c[t], h, l)
  BY <1>3, SplitExists
<1>6. h = 0 /\ l >= 1 /\ l \in Nat
  <2>1. h \in 0 .. Len(q) /\ l \in h .. Len(q)
    BY <1>5 DEF Splits
  <2>2. (c[t] < c[q[1]] <=> 1 <= h) /\ (c[t] <= c[q[1]] <=> 1 <= l)
    BY <1>2, <1>5 DEF Splits
  <2> QED
    BY <2>1, <2>2, <1>1, <1>2, <1>3
<1> DEFINE g == Linear!group(q, c[t], c)
<1>7. g \in Seq(Threads) /\ Len(g) = l - h
  BY <1>1, <1>3, <1>5, GroupType
<1>8. 1 \in 1 .. l - h
  BY <1>6
<1>9. g[1] = q[h + 1]
  BY <1>1, <1>3, <1>5, <1>8, GroupPlaces
<1> HIDE DEF g
<1>10. g # <<>> /\ Head(g) = t
  BY <1>2, <1>6, <1>7, <1>9
<1> QED
  BY <1>2, <1>3, <1>4, <1>10, SameOperators DEF Linear!evl_del_schedq, g

-----------------------------------------------------------------------------
(***************************************************************************)
(* Lines of threads without duplicates, by their elements.                 *)
(***************************************************************************)
Elems(s) == {s[i] : i \in 1 .. Len(s)}

LEMMA AppendElems ==
  ASSUME NEW S, NEW s \in Seq(S), Distinct(s), NEW e \in S, e \notin Elems(s)
  PROVE  LET a == Append(s, e)
         IN  a \in Seq(S) /\ a # <<>> /\ Distinct(a) /\ Elems(a) = Elems(s) \cup {e}
<1> DEFINE a == Append(s, e)
<1>1. Len(s) \in Nat /\ \A i \in 1 .. Len(s) : s[i] # e
  BY LenProperties DEF Elems
<1>2. a \in Seq(S) /\ Len(a) = Len(s) + 1
  BY AppendProperties
<1>3. (\A i \in 1 .. Len(s) : a[i] = s[i]) /\ a[Len(s) + 1] = e
  BY AppendProperties
<1> HIDE DEF a
<1>4. Distinct(a)
  <2>1. SUFFICES ASSUME NEW i \in 1 .. Len(s) + 1, NEW j \in 1 .. Len(s) + 1, i < j
                 PROVE  a[i] # a[j]
    BY <1>2 DEF Distinct
  <2>2. i \in 1 .. Len(s) /\ a[i] = s[i]
    BY <2>1, <1>1, <1>3
  <2>3. j = Len(s) + 1 \/ (j \in 1 .. Len(s) /\ a[j] = s[j])
    BY <1>1, <1>3
  <2> QED
    BY <2>1, <2>2, <2>3, <1>1, <1>3 DEF Distinct
<1>5. Elems(a) = Elems(s) \cup {e}
  <2>1. 1 .. Len(s) + 1 = (1 .. Len(s)) \cup {Len(s) + 1}
    BY <1>1
  <2> QED
    BY <2>1, <1>2, <1>3 DEF Elems
<1>6. a # <<>>
  BY <1>1, <1>2
<1> QED
  BY <1>2, <1>4, <1>5, <1>6 DEF a

LEMMA PrependElems ==
  ASSUME NEW S, NEW s \in Seq(S), Distinct(s), NEW e \in S, e \notin Elems(s)
  PROVE  LET a == <<e>> \o s
         IN  a \in Seq(S) /\ a # <<>> /\ Distinct(a) /\ Elems(a) = Elems(s) \cup {e}
<1> DEFINE a == <<e>> \o s
<1>1. Len(s) \in Nat /\ \A i \in 1 .. Len(s) : s[i] # e
  BY LenProperties DEF Elems
<1>2. <<e>> \in Seq(S) /\ Len(<<e>>) = 1 /\ <<e>>[1] = e
  OBVIOUS
<1>3. a \in Seq(S) /\ Len(a) = Len(s) + 1
  BY <1>1, <1>2, ConcatProperties
<1>4. \A i \in 1 .. 1 + Len(s) : a[i] = IF i <= 1 THEN <<e>>[i] ELSE s[i - 1]
  BY <1>2, ConcatProperties
<1> HIDE DEF a
<1>5. a[1] = e /\ \A i \in 1 .. Len(s) : a[i + 1] = s[i]
  BY <1>1, <1>2, <1>4
<1>6. ASSUME NEW i \in 1 .. Len(a)
      PROVE  i = 1 \/ (i - 1 \in 1 .. Len(s) /\ a[i] = s[i - 1])
  BY <1>1, <1>3, <1>4
<1>7. Distinct(a)
  <2>1. SUFFICES ASSUME NEW i \in 1 .. Len(a), NEW j \in 1 .. Len(a), i < j
                 PROVE  a[i] # a[j]
    BY DEF Distinct
  <2>2. j - 1 \in 1 .. Len(s) /\ a[j] = s[j - 1]
    BY <2>1, <1>3, <1>6
  <2>3. CASE i = 1
    BY <2>2, <2>3, <1>1, <1>5
  <2>4. CASE i - 1 \in 1 .. Len(s) /\ a[i] = s[i - 1]
    <3>1. i - 1 < j - 1
      BY <2>1
    <3> QED
      BY <3>1, <2>2, <2>4 DEF Distinct
  <2> QED
    BY <2>3, <2>4, <1>6
<1>8. Elems(a) = Elems(s) \cup {e}
  <2>1. ASSUME NEW x \in Elems(a) PROVE x \in Elems(s) \cup {e}
    <3>1. PICK i \in 1 .. Len(a) : x = a[i]
      BY DEF Elems
    <3>2. a[i] = e \/ \E j \in 1 .. Len(s) : a[i] = s[j]
      BY <1>5, <1>6
    <3> QED
      BY <3>1, <3>2 DEF Elems
  <2>2. ASSUME NEW x \in Elems(s) PROVE x \in Elems(a)
    <3>1. PICK i \in 1 .. Len(s) : x = s[i]
      BY DEF Elems
    <3>2. i + 1 \in 1 .. Len(a) /\ a[i + 1] = x
      BY <3>1, <1>1, <1>3, <1>5
    <3> QED
      BY <3>2 DEF Elems
  <2>3. e \in Elems(a)
    <3>1. 1 \in 1 .. Len(a)
      BY <1>1, <1>3
    <3> QED
      BY <3>1, <1>5 DEF Elems
  <2> QED
    BY <2>1, <2>2, <2>3
<1>9. a # <<>>
  BY <1>1, <1>3
<1> QED
  BY <1>3, <1>7, <1>8, <1>9 DEF a

LEMMA RemoveFirstElems ==
  ASSUME NEW S, NEW s \in Seq(S), Distinct(s), NEW e
  PROVE  LET a == RemoveFirst(s, e)
         IN  /\ a \in Seq(S) /\ Distinct(a) /\ Elems(a) = Elems(s) \ {e}
             /\ e \notin Elems(s) => a = s
<1> DEFINE a == RemoveFirst(s, e)
<1>1. Len(s) \in Nat
  BY LenProperties
<1>2. CASE e \notin Elems(s)
  <2>1. a = s
    BY <1>2, RemoveFirstAbsent DEF Elems
  <2> QED
    BY <1>2, <2>1
<1>3. CASE e \in Elems(s)
  <2>1. PICK k \in 1 .. Len(s) : s[k] = e
    BY <1>3 DEF Elems
  <2>2. a = RemoveAt(s, k)
    BY <2>1, RemoveFirstAt
  <2> HIDE DEF a
  <2>3. a \in Seq(S) /\ Len(a) = Len(s) - 1
    BY <2>2, RemoveAtProperties DEF RemovalOf
  <2>4. \A i \in 1 .. Len(s) - 1 : a[i] = IF i < k THEN s[i] ELSE s[i + 1]
    BY <2>2, RemoveAtProperties DEF RemovalOf
  <2>5. ASSUME NEW i \in 1 .. Len(a)
        PROVE  \/ i < k /\ i \in 1 .. Len(s) /\ a[i] = s[i]
               \/ ~(i < k) /\ i + 1 \in 1 .. Len(s) /\ a[i] = s[i + 1]
    BY <1>1, <2>3, <2>4
  <2>6. Distinct(a)
    <3>1. SUFFICES ASSUME NEW i \in 1 .. Len(a), NEW j \in 1 .. Len(a), i < j
                   PROVE  a[i] # a[j]
      BY DEF Distinct
    <3>2. PICK x \in 1 .. Len(s) : a[i] = s[x] /\ (x = i \/ (x = i + 1 /\ ~(i < k)))
      BY <2>5
    <3>3. PICK y \in 1 .. Len(s) : a[j] = s[y] /\ ((y = j /\ j < k) \/ y = j + 1)
      BY <2>5
    <3>4. x < y
      BY <3>1, <3>2, <3>3
    <3> QED
      BY <3>2, <3>3, <3>4 DEF Distinct
  <2>7. Elems(a) = Elems(s) \ {e}
    <3>1. ASSUME NEW x \in Elems(a) PROVE x \in Elems(s) \ {e}
      <4>1. PICK i \in 1 .. Len(a) : x = a[i]
        BY DEF Elems
      <4>2. PICK y \in 1 .. Len(s) : x = s[y] /\ y # k
        BY <4>1, <2>5
      <4>3. s[y] # s[k]
        BY <4>2 DEF Distinct
      <4> QED
        BY <4>2, <4>3, <2>1 DEF Elems
    <3>2. ASSUME NEW x \in Elems(s) \ {e} PROVE x \in Elems(a)
      <4>1. PICK y \in 1 .. Len(s) : x = s[y]
        BY DEF Elems
      <4>2. y # k
        BY <4>1, <2>1
      <4>3. CASE y < k
        <5>1. y \in 1 .. Len(s) - 1
          BY <4>3, <1>1
        <5> QED
          BY <5>1, <4>1, <4>3, <2>3, <2>4 DEF Elems
      <4>4. CASE y > k
        <5>1. y - 1 \in 1 .. Len(s) - 1 /\ ~(y - 1 < k) /\ (y - 1) + 1 = y
          BY <4>4, <1>1
        <5>2. a[y - 1] = x
          BY <5>1, <4>1, <2>4
        <5> QED
          BY <5>1, <5>2, <2>3 DEF Elems
      <4> QED
        BY <4>2, <4>3, <4>4
    <3> QED
      BY <3>1, <3>2
  <2> QED
    BY <1>3, <2>3, <2>6, <2>7 DEF a
<1> QED
  BY <1>2, <1>3

\* The group of a priority in the linear list is its line.
LEMMA GroupElems ==
  ASSUME NEW c \in CPrios, NEW R, NEW q, LinearOK(q, c, R), NEW p \in Int
  PROVE  LET g == Linear!group(q, p, c)
         IN  g \in Seq(Threads) /\ Distinct(g) /\ Elems(g) = {t \in R : c[t] = p}
<1> DEFINE g == Linear!group(q, p, c)
<1>1. /\ q \in Seq(Threads) /\ Len(q) \in Nat /\ Distinct(q)
      /\ \A i \in 1 .. Len(q) : c[q[i]] \in Int /\ q[i] \in R
  BY LenProperties, ElementOfSeq DEF LinearOK, CPrios
<1>2. PICK h, l : Splits(q, c, p, h, l)
  BY SplitExists
<1>3. g \in Seq(Threads) /\ Len(g) = l - h /\ \A i \in 1 .. l - h : g[i] = q[h + i]
  BY <1>1, <1>2, GroupType, GroupPlaces
<1>4. /\ h \in 0 .. Len(q) /\ l \in h .. Len(q)
      /\ \A i \in 1 .. Len(q) : (p < c[q[i]] <=> i <= h) /\ (p <= c[q[i]] <=> i <= l)
  BY <1>2 DEF Splits
<1> HIDE DEF g
<1>5. \A i \in 1 .. Len(q) : c[q[i]] = p <=> h < i /\ i <= l
  BY <1>1, <1>4
<1>6. \A i \in 1 .. Len(g) : h + i \in 1 .. Len(q) /\ h < h + i /\ h + i <= l
  BY <1>1, <1>3, <1>4
<1>7. Distinct(g)
  <2>1. SUFFICES ASSUME NEW i \in 1 .. Len(g), NEW j \in 1 .. Len(g), i < j
                 PROVE  g[i] # g[j]
    BY DEF Distinct
  <2>2. h + i < h + j /\ h + i \in 1 .. Len(q) /\ h + j \in 1 .. Len(q)
    BY <2>1, <1>4, <1>6
  <2> QED
    BY <2>2, <1>1, <1>3 DEF Distinct
<1>8. Elems(g) = {t \in R : c[t] = p}
  <2>1. ASSUME NEW x \in Elems(g) PROVE x \in R /\ c[x] = p
    <3>1. PICK i \in 1 .. Len(g) : x = g[i]
      BY DEF Elems
    <3> QED
      BY <3>1, <1>1, <1>3, <1>5, <1>6
  <2>2. ASSUME NEW x \in R, c[x] = p PROVE x \in Elems(g)
    <3>1. PICK i \in 1 .. Len(q) : q[i] = x
      BY DEF LinearOK
    <3>2. i - h \in 1 .. l - h /\ h + (i - h) = i
      BY <3>1, <2>2, <1>1, <1>4, <1>5
    <3>3. g[i - h] = x
      BY <3>1, <3>2, <1>3
    <3> QED
      BY <3>2, <3>3, <1>3 DEF Elems
  <2> QED
    BY <2>1, <2>2
<1> QED
  BY <1>3, <1>7, <1>8 DEF g

-----------------------------------------------------------------------------
(***************************************************************************)
(* Either build of the queue: the line of each priority, in which every    *)
(* linked thread of that priority stands once; and for the multi-level     *)
(* queue, the bitmap of its lines in use and the count of the threads.     *)
(***************************************************************************)
MlqLines(q)     == [p \in CorePrios |-> q.heads[Mlq!get_qindex(p)]]
ListLines(q, c) == [p \in CorePrios |-> Linear!group(q, p, c)]

LinesOf(b, q, c) == IF b THEN MlqLines(q) ELSE ListLines(q, c)

\* A function changed at one point.
Put(f, x, v) == [f EXCEPT ![x] = v]

LinesOK(L, c, R) ==
  /\ L \in [CorePrios -> Seq(Threads)]
  /\ \A p \in CorePrios :
       Distinct(L[p]) /\ Elems(L[p]) = {t \in R : c[t] = p}

\* The levels of the multi-level queue which have an entry.
Used(q) == {i \in Mlq!Index : q.heads[i] # <<>>}

MlqOK(q, c, R) ==
  /\ q \in [elems : Nat, prio_map : SUBSET Mlq!Index, heads : [Mlq!Index -> Seq(Threads)]]
  /\ q.prio_map = Used(q)
  /\ q.elems = Cardinality(R)
  /\ LinesOK(MlqLines(q), c, R)

QueueOK(b, q, c, R) == IF b THEN MlqOK(q, c, R) ELSE LinearOK(q, c, R)

\* The priorities and the levels of the multi-level queue, the other way round.
LEMMA Levels ==
  /\ CorePrios = 0 .. MAX_RT_PRIO + 1 /\ Mlq!Index = 0 .. MAX_RT_PRIO + 1
  /\ CorePrios \subseteq Int /\ EVL_CORE_NR_PRIO \in Nat
  /\ \A p \in CorePrios : Mlq!get_qindex(p) = MAX_RT_PRIO + 1 - p
  /\ \A p \in CorePrios : Mlq!get_qindex(p) \in Mlq!Index
  /\ \A i \in Mlq!Index : \E p \in CorePrios : Mlq!get_qindex(p) = i
  /\ \A p, o \in CorePrios : Mlq!get_qindex(p) = Mlq!get_qindex(o) => p = o
<1>1. MAX_RT_PRIO \in Nat /\ EVL_CORE_NR_PRIO = MAX_RT_PRIO + 2
  BY FifoAssumption DEF EVL_CORE_NR_PRIO, EVL_CORE_MAX_PRIO, EVL_CORE_MIN_PRIO
<1>2. CorePrios = 0 .. MAX_RT_PRIO + 1 /\ Mlq!Index = 0 .. MAX_RT_PRIO + 1
  BY <1>1 DEF CorePrios, Mlq!Index, EVL_CORE_MAX_PRIO, EVL_CORE_MIN_PRIO
<1>3. \A p \in CorePrios : Mlq!get_qindex(p) = MAX_RT_PRIO + 1 - p
  BY <1>1, <1>2 DEF Mlq!get_qindex
<1>4. ASSUME NEW i \in Mlq!Index PROVE \E p \in CorePrios : Mlq!get_qindex(p) = i
  <2>1. MAX_RT_PRIO + 1 - i \in CorePrios
    BY <1>1, <1>2
  <2>2. Mlq!get_qindex(MAX_RT_PRIO + 1 - i) = i
    BY <2>1, <1>1, <1>2, <1>3
  <2> QED
    BY <2>1, <2>2
<1>5. \A p \in CorePrios : Mlq!get_qindex(p) \in Mlq!Index
  BY <1>1, <1>2, <1>3
<1>6. \A p, o \in CorePrios : Mlq!get_qindex(p) = Mlq!get_qindex(o) => p = o
  BY <1>1, <1>2, <1>3
<1>7. CorePrios \subseteq Int /\ EVL_CORE_NR_PRIO \in Nat
  BY <1>1, <1>2
<1> QED
  BY ONLY <1>2, <1>3, <1>4, <1>5, <1>6, <1>7

LEMMA LinearLines ==
  ASSUME NEW c \in [Threads -> CorePrios], NEW R, NEW q, LinearOK(q, c, R)
  PROVE  LinesOK(ListLines(q, c), c, R)
<1>1. c \in CPrios /\ CorePrios \subseteq Int
  BY Levels DEF CPrios
<1> QED
  BY <1>1, GroupElems DEF LinesOK, ListLines

LEMMA QueueLines ==
  ASSUME NEW c \in [Threads -> CorePrios], NEW R, NEW b \in BOOLEAN, NEW q,
         QueueOK(b, q, c, R)
  PROVE  LinesOK(LinesOf(b, q, c), c, R)
BY LinearLines DEF QueueOK, MlqOK, LinesOf

(***************************************************************************)
(* What joining, heading and leaving a line does to the lines.             *)
(***************************************************************************)
LEMMA LinesAppend ==
  ASSUME NEW c \in [Threads -> CorePrios], NEW R \in SUBSET Threads,
         NEW L, LinesOK(L, c, R), NEW t \in Threads, t \notin R
  PROVE  LinesOK(Put(L, c[t], Append(L[c[t]], t)), c, R \cup {t})
<1> DEFINE M == Put(L, c[t], Append(L[c[t]], t))
<1>1. t \notin Elems(L[c[t]])
  BY DEF LinesOK
<1>2. L \in [CorePrios -> Seq(Threads)] /\ c[t] \in CorePrios
  BY DEF LinesOK
<1> DEFINE a == Append(L[c[t]], t)
<1>3. a \in Seq(Threads) /\ Distinct(a) /\ Elems(a) = Elems(L[c[t]]) \cup {t}
  BY <1>1, <1>2, AppendElems DEF LinesOK
<1> HIDE DEF a
<1>4. M = [L EXCEPT ![c[t]] = a]
  BY DEF a, Put
<1> HIDE DEF M
<1>5. M \in [CorePrios -> Seq(Threads)]
  BY <1>2, <1>3, <1>4
<1>6. ASSUME NEW p \in CorePrios
      PROVE  Distinct(M[p]) /\ Elems(M[p]) = {u \in R \cup {t} : c[u] = p}
  BY <1>2, <1>3, <1>4 DEF LinesOK
<1> QED
  BY <1>5, <1>6 DEF LinesOK, M

LEMMA LinesPrepend ==
  ASSUME NEW c \in [Threads -> CorePrios], NEW R \in SUBSET Threads,
         NEW L, LinesOK(L, c, R), NEW t \in Threads, t \notin R
  PROVE  LinesOK(Put(L, c[t], <<t>> \o L[c[t]]), c, R \cup {t})
<1> DEFINE M == Put(L, c[t], <<t>> \o L[c[t]])
<1>1. t \notin Elems(L[c[t]])
  BY DEF LinesOK
<1>2. L \in [CorePrios -> Seq(Threads)] /\ c[t] \in CorePrios
  BY DEF LinesOK
<1> DEFINE a == <<t>> \o L[c[t]]
<1>3. a \in Seq(Threads) /\ Distinct(a) /\ Elems(a) = Elems(L[c[t]]) \cup {t}
  BY <1>1, <1>2, PrependElems DEF LinesOK
<1> HIDE DEF a
<1>4. M = [L EXCEPT ![c[t]] = a]
  BY DEF a, Put
<1> HIDE DEF M
<1>5. M \in [CorePrios -> Seq(Threads)]
  BY <1>2, <1>3, <1>4
<1>6. ASSUME NEW p \in CorePrios
      PROVE  Distinct(M[p]) /\ Elems(M[p]) = {u \in R \cup {t} : c[u] = p}
  BY <1>2, <1>3, <1>4 DEF LinesOK
<1> QED
  BY <1>5, <1>6 DEF LinesOK, M

LEMMA LinesRemove ==
  ASSUME NEW c \in [Threads -> CorePrios], NEW R \in SUBSET Threads,
         NEW L, LinesOK(L, c, R), NEW t \in Threads
  PROVE  LinesOK(Put(L, c[t], RemoveFirst(L[c[t]], t)), c, R \ {t})
<1> DEFINE M == Put(L, c[t], RemoveFirst(L[c[t]], t))
<1>1. L \in [CorePrios -> Seq(Threads)] /\ c[t] \in CorePrios
  BY DEF LinesOK
<1> DEFINE a == RemoveFirst(L[c[t]], t)
<1>2. a \in Seq(Threads) /\ Distinct(a) /\ Elems(a) = Elems(L[c[t]]) \ {t}
  BY <1>1, RemoveFirstElems DEF LinesOK
<1> HIDE DEF a
<1>3. M = [L EXCEPT ![c[t]] = a]
  BY DEF a, Put
<1> HIDE DEF M
<1>4. M \in [CorePrios -> Seq(Threads)]
  BY <1>1, <1>2, <1>3
<1>5. ASSUME NEW p \in CorePrios
      PROVE  Distinct(M[p]) /\ Elems(M[p]) = {u \in R \ {t} : c[u] = p}
  BY <1>1, <1>2, <1>3 DEF LinesOK
<1>6. LinesOK(M, c, R \ {t})
  BY <1>4, <1>5 DEF LinesOK
<1> QED
  BY <1>6 DEF M

LEMMA LinesElsewhere ==
  ASSUME NEW c, NEW R, NEW L, LinesOK(L, c, R), NEW t,
         NEW p \in CorePrios, p # c[t]
  PROVE  RemoveFirst(L[p], t) = L[p]
<1>1. L[p] \in Seq(Threads) /\ Distinct(L[p]) /\ t \notin Elems(L[p])
  BY DEF LinesOK
<1> QED
  BY <1>1, RemoveFirstElems

-----------------------------------------------------------------------------
(***************************************************************************)
(* The operations of the multi-level queue.                                *)
(***************************************************************************)
MlqType == [elems : Nat, prio_map : SUBSET Mlq!Index, heads : [Mlq!Index -> Seq(Threads)]]

\* A change of one list is a change of one line, and of one bit at most.
LEMMA MlqLine ==
  ASSUME NEW c, NEW q \in MlqType, NEW p \in CorePrios, NEW s, NEW r,
         r.heads = Put(q.heads, Mlq!get_qindex(p), s)
  PROVE  MlqLines(r) = Put(MlqLines(q), p, s)
<1>1. q.heads \in [Mlq!Index -> Seq(Threads)] /\ Mlq!get_qindex(p) \in Mlq!Index
  BY Levels DEF MlqType
<1>2. ASSUME NEW o \in CorePrios
      PROVE  r.heads[Mlq!get_qindex(o)] = IF o = p THEN s ELSE q.heads[Mlq!get_qindex(o)]
  BY <1>1, Levels DEF Put
<1> QED
  BY <1>2 DEF MlqLines, Put

LEMMA MlqBits ==
  ASSUME NEW q \in MlqType, NEW idx \in Mlq!Index, NEW s, NEW r,
         q.prio_map = Used(q),
         r.heads = Put(q.heads, idx, s)
  PROVE  Used(r)
           = IF s = <<>> THEN q.prio_map \ {idx} ELSE q.prio_map \cup {idx}
<1>1. q.heads \in [Mlq!Index -> Seq(Threads)]
  BY DEF MlqType
<1>2. \A i \in Mlq!Index : r.heads[i] = IF i = idx THEN s ELSE q.heads[i]
  BY <1>1 DEF Put
<1> QED
  BY <1>2 DEF Used

LEMMA MlqRecord ==
  ASSUME NEW e \in Nat, NEW m \in SUBSET Mlq!Index,
         NEW hs \in [Mlq!Index -> Seq(Threads)]
  PROVE  [elems |-> e, prio_map |-> m, heads |-> hs] \in MlqType
BY DEF MlqType

\* Such a change leaves the type alone.
LEMMA MlqHeads ==
  ASSUME NEW q \in MlqType, NEW idx \in Mlq!Index, NEW s \in Seq(Threads)
  PROVE  LET r == [q EXCEPT !.heads[idx] = s]
         IN  /\ r \in MlqType
             /\ r.elems = q.elems /\ r.prio_map = q.prio_map
             /\ r.heads = Put(q.heads, idx, s)
BY DEF MlqType, Put

LEMMA MlqAddQ ==
  ASSUME NEW q \in MlqType, q.prio_map = Used(q),
         NEW p \in CorePrios
  PROVE  /\ Mlq!add_q(q, p) \in MlqType
         /\ Mlq!add_q(q, p).elems = q.elems + 1
         /\ Mlq!add_q(q, p).prio_map = q.prio_map \cup {Mlq!get_qindex(p)}
         /\ Mlq!add_q(q, p).heads = q.heads
<1> DEFINE idx == Mlq!get_qindex(p)
           e   == q.elems + 1
           m   == IF q.heads[idx] = <<>> THEN q.prio_map \cup {idx} ELSE q.prio_map
<1>1. /\ q.elems \in Nat /\ q.prio_map \in SUBSET Mlq!Index
      /\ q.heads \in [Mlq!Index -> Seq(Threads)]
  BY DEF MlqType
<1>5. idx \in Mlq!Index
  BY Levels
<1>2. e \in Nat /\ m \in SUBSET Mlq!Index /\ m = q.prio_map \cup {idx}
  BY <1>1, <1>5 DEF Used
<1>3. Mlq!add_q(q, p) = [q EXCEPT !.elems = e, !.prio_map = m]
  BY DEF Mlq!add_q
<1> HIDE DEF e, m, idx
<1>4. LET r == [q EXCEPT !.elems = e, !.prio_map = m]
      IN  r \in MlqType /\ r.elems = e /\ r.prio_map = m /\ r.heads = q.heads
  BY <1>2 DEF MlqType
<1> QED
  BY <1>2, <1>3, <1>4 DEF e, idx

\* Sets of threads are finite.
LEMMA FiniteReady ==
  ASSUME NEW R \in SUBSET Threads
  PROVE  /\ Cardinality(R) \in Nat
         /\ Cardinality(R) = 0 <=> R = {}
         /\ \A t : t \notin R => Cardinality(R \cup {t}) = Cardinality(R) + 1
         /\ \A t \in R : Cardinality(R \ {t}) = Cardinality(R) - 1
<1>1. IsFiniteSet(R)
  BY FifoAssumption, FS_Subset
<1>2. Cardinality(R) \in Nat /\ (Cardinality(R) = 0 <=> R = {})
  BY <1>1, FS_CardinalityType, FS_EmptySet
<1>3. ASSUME NEW t, t \notin R PROVE Cardinality(R \cup {t}) = Cardinality(R) + 1
  BY <1>1, <1>3, FS_AddElement
<1>4. ASSUME NEW t \in R PROVE Cardinality(R \ {t}) = Cardinality(R) - 1
  BY <1>1, FS_RemoveElement
<1> QED
  BY <1>2, <1>3, <1>4

\* A thread joins its list, which becomes s.
Joined(q, p, s) ==
  [Mlq!add_q(q, p) EXCEPT !.heads[Mlq!get_qindex(p)] = s]

MlqBecomes(r, q, c, R, p, s) ==
  MlqOK(r, c, R) /\ MlqLines(r) = Put(MlqLines(q), p, s)

LEMMA MlqJoins ==
  ASSUME NEW c \in [Threads -> CorePrios], NEW R \in SUBSET Threads, NEW q, MlqOK(q, c, R),
         NEW t \in Threads, t \notin R, NEW s \in Seq(Threads), s # <<>>,
         LinesOK(Put(MlqLines(q), c[t], s), c, R \cup {t})
  PROVE  MlqBecomes(Joined(q, c[t], s), q, c, R \cup {t}, c[t], s)
<1> DEFINE p   == c[t]
           idx == Mlq!get_qindex(p)
           a   == Mlq!add_q(q, p)
           r   == [a EXCEPT !.heads[idx] = s]
<1>1. /\ q \in MlqType /\ q.elems = Cardinality(R)
      /\ q.prio_map = Used(q)
      /\ p \in CorePrios /\ idx \in Mlq!Index
  BY Levels DEF MlqOK, MlqType
<1>2. /\ a \in MlqType /\ a.elems = q.elems + 1
      /\ a.prio_map = q.prio_map \cup {idx} /\ a.heads = q.heads
  BY <1>1, MlqAddQ
<1> HIDE DEF a
<1>3. /\ r \in MlqType /\ r.elems = a.elems /\ r.prio_map = a.prio_map
      /\ r.heads = Put(a.heads, idx, s)
  BY <1>1, <1>2, MlqHeads
<1> HIDE DEF r
<1>4. MlqLines(r) = Put(MlqLines(q), p, s)
  <2>1. q \in MlqType /\ p \in CorePrios /\ r.heads = Put(q.heads, Mlq!get_qindex(p), s)
    BY <1>1, <1>2, <1>3
  <2> QED
    BY ONLY <2>1, MlqLine, Zenon
<1>5. Used(r) = q.prio_map \cup {idx}
  <2>1. /\ q \in MlqType /\ idx \in Mlq!Index /\ r.heads = Put(q.heads, idx, s)
        /\ q.prio_map = Used(q)
    BY <1>1, <1>2, <1>3
  <2>2. Used(r)
          = IF s = <<>> THEN q.prio_map \ {idx} ELSE q.prio_map \cup {idx}
    BY ONLY <2>1, MlqBits, Zenon
  <2> QED
    BY <2>2
<1>6. r.elems = Cardinality(R \cup {t})
  BY <1>1, <1>2, <1>3, FiniteReady
<1>7. MlqOK(r, c, R \cup {t})
  BY <1>2, <1>3, <1>4, <1>5, <1>6 DEF MlqOK, MlqType
<1> QED
  BY <1>4, <1>7 DEF r, a, Joined, MlqBecomes

LEMMA MlqAddTail ==
  ASSUME NEW c \in [Threads -> CorePrios], NEW R \in SUBSET Threads, NEW q, MlqOK(q, c, R),
         NEW t \in Threads, t \notin R,
         NEW r, r = Mlq!evl_add_schedq_tail(q, t, c)
  PROVE  MlqBecomes(r, q, c, R \cup {t}, c[t], Append(MlqLines(q)[c[t]], t))
<1> DEFINE L == MlqLines(q)
           s == Append(L[c[t]], t)
<1>1. LinesOK(L, c, R)
  BY DEF MlqOK
<1>2. /\ c[t] \in CorePrios /\ L[c[t]] = q.heads[Mlq!get_qindex(c[t])]
      /\ L[c[t]] \in Seq(Threads) /\ Distinct(L[c[t]]) /\ t \notin Elems(L[c[t]])
  BY <1>1 DEF LinesOK, MlqLines
<1> HIDE DEF L
<1>3. s \in Seq(Threads) /\ s # <<>>
  BY <1>2, AppendElems
<1>4. LinesOK(Put(L, c[t], s), c, R \cup {t})
  BY <1>1, LinesAppend
<1>5. r = Joined(q, c[t], s)
  <2>1. Mlq!add_q(q, c[t]).heads = q.heads
    BY <1>2, MlqAddQ DEF MlqOK, MlqType
  <2> QED
    BY <1>2, <2>1 DEF Mlq!evl_add_schedq_tail, Joined
<1> HIDE DEF s
<1>6. LinesOK(Put(MlqLines(q), c[t], s), c, R \cup {t})
  BY <1>4 DEF L
<1>7. MlqBecomes(Joined(q, c[t], s), q, c, R \cup {t}, c[t], s)
  BY <1>3, <1>6, MlqJoins
<1> QED
  BY <1>5, <1>7 DEF s, L

LEMMA MlqAdd ==
  ASSUME NEW c \in [Threads -> CorePrios], NEW R \in SUBSET Threads, NEW q, MlqOK(q, c, R),
         NEW t \in Threads, t \notin R,
         NEW r, r = Mlq!evl_add_schedq(q, t, c)
  PROVE  MlqBecomes(r, q, c, R \cup {t}, c[t], <<t>> \o MlqLines(q)[c[t]])
<1> DEFINE L == MlqLines(q)
           s == <<t>> \o L[c[t]]
<1>1. LinesOK(L, c, R)
  BY DEF MlqOK
<1>2. /\ c[t] \in CorePrios /\ L[c[t]] = q.heads[Mlq!get_qindex(c[t])]
      /\ L[c[t]] \in Seq(Threads) /\ Distinct(L[c[t]]) /\ t \notin Elems(L[c[t]])
  BY <1>1 DEF LinesOK, MlqLines
<1> HIDE DEF L
<1>3. s \in Seq(Threads) /\ s # <<>>
  BY <1>2, PrependElems
<1>4. LinesOK(Put(L, c[t], s), c, R \cup {t})
  BY <1>1, LinesPrepend
<1>5. r = Joined(q, c[t], s)
  <2>1. Mlq!add_q(q, c[t]).heads = q.heads
    BY <1>2, MlqAddQ DEF MlqOK, MlqType
  <2> QED
    BY <1>2, <2>1 DEF Mlq!evl_add_schedq, Joined
<1> HIDE DEF s
<1>6. LinesOK(Put(MlqLines(q), c[t], s), c, R \cup {t})
  BY <1>4 DEF L
<1>7. MlqBecomes(Joined(q, c[t], s), q, c, R \cup {t}, c[t], s)
  BY <1>3, <1>6, MlqJoins
<1> QED
  BY <1>5, <1>7 DEF s, L

\* list_del() takes the thread from its own list: no other one has it.
LEMMA MlqDel ==
  ASSUME NEW c \in [Threads -> CorePrios], NEW R \in SUBSET Threads, NEW q, MlqOK(q, c, R),
         NEW t \in R,
         NEW r, r = Mlq!evl_del_schedq(q, t, c)
  PROVE  MlqBecomes(r, q, c, R \ {t}, c[t], RemoveFirst(MlqLines(q)[c[t]], t))
<1> DEFINE L   == MlqLines(q)
           p   == c[t]
           idx == Mlq!get_qindex(p)
           s   == RemoveFirst(L[p], t)
           e   == q.elems - 1
           hs  == [i \in Mlq!Index |-> RemoveFirst(q.heads[i], t)]
           m   == IF hs[idx] = <<>> THEN q.prio_map \ {idx} ELSE q.prio_map
<1>1. /\ q \in MlqType /\ q.elems \in Nat /\ q.prio_map \in SUBSET Mlq!Index
      /\ q.heads \in [Mlq!Index -> Seq(Threads)]
      /\ q.prio_map = Used(q)
      /\ p \in CorePrios /\ idx \in Mlq!Index
      /\ LinesOK(L, c, R) /\ q.elems = Cardinality(R)
  BY Levels DEF MlqOK, MlqType
<1>2. \A o \in CorePrios : L[o] = q.heads[Mlq!get_qindex(o)]
  BY DEF MlqLines
<1>3. r = [elems |-> e, prio_map |-> m, heads |-> hs]
  <2>1. hs = [i \in Mlq!Index |-> Mlq!RemoveFirst(q.heads[i], t)]
    BY SameOperators
  <2>2. r = [elems |-> q.elems - 1, prio_map |-> m, heads |-> hs]
    BY <2>1 DEF Mlq!evl_del_schedq, Mlq!__evl_del_schedq
  <2> QED
    BY <2>2
<1> HIDE DEF L
<1>4. LinesOK(Put(L, p, s), c, R \ {t})
  BY <1>1, LinesRemove
<1>5. s \in Seq(Threads) /\ L[p] # <<>>
  <2>1. L[p] \in Seq(Threads) /\ Distinct(L[p]) /\ t \in Elems(L[p])
    BY <1>1 DEF LinesOK
  <2>2. L[p] # <<>>
    BY <2>1 DEF Elems
  <2> QED
    BY <2>1, <2>2, RemoveFirstElems
<1> HIDE DEF s
<1>6. hs = Put(q.heads, idx, s)
  <2>1. ASSUME NEW i \in Mlq!Index
        PROVE  RemoveFirst(q.heads[i], t) = IF i = idx THEN s ELSE q.heads[i]
    <3>1. PICK o \in CorePrios : Mlq!get_qindex(o) = i
      BY Levels
    <3>2. CASE o = p
      BY <3>1, <3>2, <1>1, <1>2 DEF s
    <3>3. CASE o # p
      <4>1. i # idx
        BY <3>1, <3>3, <1>1, Levels
      <4> QED
        BY <3>1, <3>3, <4>1, <1>1, <1>2, LinesElsewhere
    <3> QED
      BY <3>2, <3>3
  <2> QED
    BY <2>1, <1>1 DEF Put
<1>7. /\ e \in Nat /\ m \in SUBSET Mlq!Index /\ hs \in [Mlq!Index -> Seq(Threads)]
      /\ e = Cardinality(R \ {t})
  <2>1. e = Cardinality(R \ {t}) /\ e \in Nat
    BY <1>1, FiniteReady
  <2>2. m \in SUBSET Mlq!Index
    BY <1>1
  <2>3. hs \in [Mlq!Index -> Seq(Threads)]
    BY <1>1, <1>5, <1>6 DEF Put
  <2> QED
    BY <2>1, <2>2, <2>3
<1>8. m = IF s = <<>> THEN q.prio_map \ {idx} ELSE q.prio_map \cup {idx}
  <2>1. idx \in q.prio_map
    BY <1>1, <1>2, <1>5 DEF Used
  <2>2. hs[idx] = s
    <3>1. Put(q.heads, idx, s)[idx] = s
      BY <1>1 DEF Put
    <3> QED
      BY ONLY <1>6, <3>1
  <2> QED
    BY <2>1, <2>2
<1> HIDE DEF e, m, hs, p
<1>9. r \in MlqType /\ r.elems = e /\ r.prio_map = m /\ r.heads = hs
  <2>1. [elems |-> e, prio_map |-> m, heads |-> hs] \in MlqType
    BY <1>7, MlqRecord
  <2> QED
    BY <1>3, <2>1
<1>10. r.heads = Put(q.heads, Mlq!get_qindex(p), s)
  BY <1>6, <1>9
<1>11. MlqLines(r) = Put(MlqLines(q), p, s)
  <2>1. q \in MlqType /\ p \in CorePrios
    BY <1>1
  <2> QED
    BY ONLY <2>1, <1>10, MlqLine, Zenon
<1>12. r.prio_map = Used(r)
  <2>1. q \in MlqType /\ idx \in Mlq!Index /\ q.prio_map = Used(q)
    BY <1>1
  <2>2. Used(r)
          = IF s = <<>> THEN q.prio_map \ {idx} ELSE q.prio_map \cup {idx}
    BY ONLY <2>1, <1>10, MlqBits, Zenon
  <2> QED
    BY <2>2, <1>8, <1>9
<1>13. MlqLines(r) = Put(L, p, s)
  BY <1>11 DEF L
<1>14. MlqOK(r, c, R \ {t})
  BY <1>4, <1>7, <1>9, <1>12, <1>13 DEF MlqOK, MlqType
<1> QED
  BY <1>13, <1>14 DEF MlqBecomes, s, p, L

\* The first level in use is that of the highest priority.
LEMMA MlqWeight ==
  ASSUME NEW q \in MlqType, q.prio_map # {}
  PROVE  /\ Mlq!evl_get_schedq_weight(q) \in q.prio_map
         /\ \A j \in q.prio_map : Mlq!evl_get_schedq_weight(q) <= j
<1>1. q.prio_map \in SUBSET Nat /\ \A j \in q.prio_map : j \in Nat /\ j < EVL_CORE_NR_PRIO
  BY Levels DEF MlqType, Mlq!Index
<1>2. EVL_CORE_NR_PRIO \in Nat
  BY Levels
<1>3. PICK x \in q.prio_map : \A j \in q.prio_map : x <= j
  BY <1>1, NatMin
<1>4. ASSUME NEW y \in q.prio_map \cup {EVL_CORE_NR_PRIO}, \A j \in q.prio_map : y <= j
      PROVE  y \in q.prio_map
  BY <1>1, <1>2, <1>3, <1>4
<1> DEFINE w == CHOOSE i \in q.prio_map \cup {EVL_CORE_NR_PRIO} : \A j \in q.prio_map : i <= j
<1>5. w \in q.prio_map \cup {EVL_CORE_NR_PRIO} /\ \A j \in q.prio_map : w <= j
  BY <1>3
<1>6. Mlq!evl_get_schedq_weight(q) = w
  BY DEF Mlq!evl_get_schedq_weight
<1> HIDE DEF w
<1> QED
  BY <1>4, <1>5, <1>6

\* The thread which the queue gives is the first of the best line.
Best(L, c, R, t) ==
  /\ t \in R /\ \A u \in R : c[u] <= c[t]
  /\ L[c[t]] # <<>> /\ t = Head(L[c[t]])

LEMMA MlqGet ==
  ASSUME NEW c \in [Threads -> CorePrios], NEW R \in SUBSET Threads, NEW q, MlqOK(q, c, R),
         R # {}
  PROVE  /\ Best(MlqLines(q), c, R, Mlq!evl_get_schedq(q).thread)
         /\ Mlq!evl_get_schedq(q).queue
              = Mlq!evl_del_schedq(q, Mlq!evl_get_schedq(q).thread, c)
<1> DEFINE L == MlqLines(q)
           w == Mlq!evl_get_schedq_weight(q)
           t == Head(q.heads[w])
<1>1. /\ q \in MlqType /\ q.prio_map = Used(q) /\ LinesOK(L, c, R)
  BY DEF MlqOK, MlqType
<1>2. \A o \in CorePrios : L[o] = q.heads[Mlq!get_qindex(o)]
  BY DEF MlqLines
<1> HIDE DEF L
<1>3. ASSUME NEW u \in R
      PROVE  c[u] \in CorePrios /\ Mlq!get_qindex(c[u]) \in q.prio_map
  <2>1. c[u] \in CorePrios /\ u \in Elems(L[c[u]])
    BY <1>1 DEF LinesOK
  <2>2. L[c[u]] # <<>>
    BY <2>1 DEF Elems
  <2> QED
    BY <2>1, <2>2, <1>1, <1>2, Levels DEF Used
<1>4. w \in q.prio_map /\ \A j \in q.prio_map : w <= j
  <2>1. q.prio_map # {}
    BY <1>3
  <2> QED
    BY <2>1, <1>1, MlqWeight
<1>5. Mlq!evl_get_schedq(q) = [thread |-> t, queue |-> Mlq!__evl_del_schedq(q, t, w)]
  BY DEF Mlq!evl_get_schedq
<1> HIDE DEF w, t
<1>6. PICK p \in CorePrios : Mlq!get_qindex(p) = w
  BY <1>1, <1>4, Levels DEF Used
<1>7. L[p] # <<>> /\ t = Head(L[p])
  BY <1>1, <1>2, <1>4, <1>6 DEF Used, t
<1>8. t \in R /\ c[t] = p
  <2>1. L[p] \in Seq(Threads) /\ Elems(L[p]) = {u \in R : c[u] = p}
    BY <1>1 DEF LinesOK
  <2>2. 1 \in 1 .. Len(L[p]) /\ Head(L[p]) = L[p][1]
    BY <1>7, <2>1, EmptySeq, LenProperties
  <2> QED
    BY <2>1, <2>2, <1>7 DEF Elems
<1>9. ASSUME NEW u \in R PROVE c[u] <= p
  <2>1. c[u] \in CorePrios /\ w <= Mlq!get_qindex(c[u])
    BY <1>3, <1>4
  <2>2. MAX_RT_PRIO + 1 - p <= MAX_RT_PRIO + 1 - c[u] /\ p \in Int /\ c[u] \in Int
    BY <2>1, <1>6, Levels
  <2> QED
    BY <2>2, FifoAssumption
<1>10. Best(L, c, R, t)
  BY <1>7, <1>8, <1>9 DEF Best
<1>11. Mlq!__evl_del_schedq(q, t, w) = Mlq!evl_del_schedq(q, t, c)
  BY <1>6, <1>8 DEF Mlq!evl_del_schedq
<1>12. /\ Mlq!evl_get_schedq(q).thread = t
       /\ Mlq!evl_get_schedq(q).queue = Mlq!__evl_del_schedq(q, t, w)
  BY <1>5
<1> QED
  BY ONLY <1>10, <1>11, <1>12, Zenon DEF L

-----------------------------------------------------------------------------
(***************************************************************************)
(* The operations of the queue, whichever the build has.                   *)
(***************************************************************************)
LEMMA LinearBounds ==
  ASSUME NEW c \in [Threads -> CorePrios]
  PROVE  c \in CPrios /\ \A p \in CorePrios : p \in Int
BY Levels DEF CPrios

Becomes(r, q, c, R, p, s) ==
  /\ QueueOK(scalable, r, c, R)
  /\ LinesOf(scalable, r, c) = Put(LinesOf(scalable, q, c), p, s)

LEMMA AddTail ==
  ASSUME scalable \in BOOLEAN,
         NEW c \in [Threads -> CorePrios], NEW R \in SUBSET Threads, NEW q,
         QueueOK(scalable, q, c, R), NEW t \in Threads, t \notin R,
         NEW r, r = evl_add_schedq_tail(q, t, c)
  PROVE  Becomes(r, q, c, R \cup {t}, c[t], Append(LinesOf(scalable, q, c)[c[t]], t))
<1>1. CASE scalable
  <2>1. r = Mlq!evl_add_schedq_tail(q, t, c) /\ MlqOK(q, c, R) /\ scalable = TRUE
    BY <1>1 DEF evl_add_schedq_tail, QueueOK
  <2>2. MlqBecomes(r, q, c, R \cup {t}, c[t], Append(MlqLines(q)[c[t]], t))
    BY <2>1, MlqAddTail
  <2> QED
    BY <2>1, <2>2 DEF Becomes, QueueOK, LinesOf, MlqBecomes
<1>2. CASE ~scalable
  <2>1. r = Linear!evl_add_schedq_tail(q, t, c) /\ LinearOK(q, c, R) /\ scalable = FALSE
    BY <1>2 DEF evl_add_schedq_tail, QueueOK
  <2>2. ListBecomes(r, q, c, R \cup {t}, c[t], Append(Linear!group(q, c[t], c), t))
    BY <2>1, LinearBounds, LinearAddTail
  <2>3. c[t] \in CorePrios
    OBVIOUS
  <2>4. ListLines(r, c)
          = Put(ListLines(q, c), c[t], Append(ListLines(q, c)[c[t]], t))
    BY <2>2, <2>3, LinearBounds DEF ListLines, ListBecomes, Put
  <2> QED
    BY <2>1, <2>2, <2>4 DEF Becomes, QueueOK, LinesOf, ListBecomes
<1> QED
  BY <1>1, <1>2

LEMMA Add ==
  ASSUME scalable \in BOOLEAN,
         NEW c \in [Threads -> CorePrios], NEW R \in SUBSET Threads, NEW q,
         QueueOK(scalable, q, c, R), NEW t \in Threads, t \notin R,
         NEW r, r = evl_add_schedq(q, t, c)
  PROVE  Becomes(r, q, c, R \cup {t}, c[t], <<t>> \o LinesOf(scalable, q, c)[c[t]])
<1>1. CASE scalable
  <2>1. r = Mlq!evl_add_schedq(q, t, c) /\ MlqOK(q, c, R) /\ scalable = TRUE
    BY <1>1 DEF evl_add_schedq, QueueOK
  <2>2. MlqBecomes(r, q, c, R \cup {t}, c[t], <<t>> \o MlqLines(q)[c[t]])
    BY <2>1, MlqAdd
  <2> QED
    BY <2>1, <2>2 DEF Becomes, QueueOK, LinesOf, MlqBecomes
<1>2. CASE ~scalable
  <2>1. r = Linear!evl_add_schedq(q, t, c) /\ LinearOK(q, c, R) /\ scalable = FALSE
    BY <1>2 DEF evl_add_schedq, QueueOK
  <2>2. ListBecomes(r, q, c, R \cup {t}, c[t], <<t>> \o Linear!group(q, c[t], c))
    BY <2>1, LinearBounds, LinearAdd
  <2>3. c[t] \in CorePrios
    OBVIOUS
  <2>4. ListLines(r, c)
          = Put(ListLines(q, c), c[t], <<t>> \o ListLines(q, c)[c[t]])
    BY <2>2, <2>3, LinearBounds DEF ListLines, ListBecomes, Put
  <2> QED
    BY <2>1, <2>2, <2>4 DEF Becomes, QueueOK, LinesOf, ListBecomes
<1> QED
  BY <1>1, <1>2

LEMMA Del ==
  ASSUME scalable \in BOOLEAN,
         NEW c \in [Threads -> CorePrios], NEW R \in SUBSET Threads, NEW q,
         QueueOK(scalable, q, c, R), NEW t \in R,
         NEW r, r = evl_del_schedq(q, t, c)
  PROVE  Becomes(r, q, c, R \ {t}, c[t], RemoveFirst(LinesOf(scalable, q, c)[c[t]], t))
<1>1. CASE scalable
  <2>1. r = Mlq!evl_del_schedq(q, t, c) /\ MlqOK(q, c, R) /\ scalable = TRUE
    BY <1>1 DEF evl_del_schedq, QueueOK
  <2>2. MlqBecomes(r, q, c, R \ {t}, c[t], RemoveFirst(MlqLines(q)[c[t]], t))
    BY <2>1, MlqDel
  <2> QED
    BY <2>1, <2>2 DEF Becomes, QueueOK, LinesOf, MlqBecomes
<1>2. CASE ~scalable
  <2>1. r = Linear!evl_del_schedq(q, t, c) /\ LinearOK(q, c, R) /\ scalable = FALSE
    BY <1>2 DEF evl_del_schedq, QueueOK
  <2>2. ListBecomes(r, q, c, R \ {t}, c[t], RemoveFirst(Linear!group(q, c[t], c), t))
    BY <2>1, LinearBounds, LinearDel
  <2>3. c[t] \in CorePrios
    OBVIOUS
  <2>4. ListLines(r, c)
          = Put(ListLines(q, c), c[t], RemoveFirst(ListLines(q, c)[c[t]], t))
    BY <2>2, <2>3, LinearBounds DEF ListLines, ListBecomes, Put
  <2> QED
    BY <2>1, <2>2, <2>4 DEF Becomes, QueueOK, LinesOf, ListBecomes
<1> QED
  BY <1>1, <1>2

LEMMA Empty ==
  ASSUME scalable \in BOOLEAN,
         NEW c \in [Threads -> CorePrios], NEW R \in SUBSET Threads, NEW q,
         QueueOK(scalable, q, c, R)
  PROVE  schedq_empty(q) <=> R = {}
<1>1. CASE scalable
  <2>1. MlqOK(q, c, R) /\ (schedq_empty(q) <=> q.elems = 0)
    BY <1>1 DEF schedq_empty, QueueOK, Mlq!schedq_empty
  <2> QED
    BY <2>1, FiniteReady DEF MlqOK
<1>2. CASE ~scalable
  <2>1. LinearOK(q, c, R) /\ (schedq_empty(q) <=> q = <<>>)
    BY <1>2 DEF schedq_empty, QueueOK, Linear!schedq_empty
  <2>2. q \in Seq(Threads) /\ Len(q) \in Nat /\ (Len(q) = 0 <=> q = <<>>)
    BY <2>1, EmptySeq, LenProperties DEF LinearOK
  <2>3. ASSUME R # {} PROVE Len(q) # 0
    BY <2>1, <2>2, <2>3 DEF LinearOK
  <2>4. ASSUME Len(q) # 0 PROVE R # {}
    <3>1. 1 \in 1 .. Len(q)
      BY <2>2, <2>4
    <3> QED
      BY <2>1, <3>1 DEF LinearOK
  <2> QED
    BY <2>1, <2>2, <2>3, <2>4
<1> QED
  BY <1>1, <1>2

LEMMA Get ==
  ASSUME scalable \in BOOLEAN,
         NEW c \in [Threads -> CorePrios], NEW R \in SUBSET Threads, NEW q,
         QueueOK(scalable, q, c, R), R # {}
  PROVE  /\ Best(LinesOf(scalable, q, c), c, R, evl_get_schedq(q).thread)
         /\ evl_get_schedq(q).queue = evl_del_schedq(q, evl_get_schedq(q).thread, c)
<1>1. CASE scalable
  <2>1. MlqOK(q, c, R) /\ scalable = TRUE /\ evl_get_schedq(q) = Mlq!evl_get_schedq(q)
    BY <1>1 DEF evl_get_schedq, QueueOK
  <2>2. \A t : evl_del_schedq(q, t, c) = Mlq!evl_del_schedq(q, t, c)
    BY <1>1 DEF evl_del_schedq
  <2>3. Best(MlqLines(q), c, R, Mlq!evl_get_schedq(q).thread)
    BY <2>1, MlqGet
  <2>4. Mlq!evl_get_schedq(q).queue
          = Mlq!evl_del_schedq(q, Mlq!evl_get_schedq(q).thread, c)
    BY <2>1, MlqGet
  <2> QED
    BY <2>1, <2>2, <2>3, <2>4 DEF LinesOf
<1>2. CASE ~scalable
  <2>1. LinearOK(q, c, R) /\ scalable = FALSE /\ ~schedq_empty(q)
    BY <1>2, Empty DEF QueueOK
  <2>2. q # <<>>
    BY <1>2, <2>1 DEF schedq_empty, Linear!schedq_empty
  <2> DEFINE t == Head(q)
  <2>3. evl_get_schedq(q).thread = t /\ evl_get_schedq(q).queue = Tail(q)
    BY <1>2 DEF evl_get_schedq, Linear!evl_get_schedq
  <2>4. evl_del_schedq(q, t, c) = Linear!evl_del_schedq(q, t, c)
    BY <1>2 DEF evl_del_schedq
  <2> HIDE DEF t
  <2>5. /\ t \in R /\ \A u \in R : c[u] <= c[t]
        /\ Tail(q) = Linear!evl_del_schedq(q, t, c)
        /\ Linear!group(q, c[t], c) # <<>>
        /\ Head(Linear!group(q, c[t], c)) = t
    BY <2>1, <2>2, LinearBounds, LinearGet DEF t
  <2>6. Best(ListLines(q, c), c, R, t)
    BY <2>5 DEF Best, ListLines
  <2> QED
    BY <2>1, <2>3, <2>4, <2>5, <2>6 DEF LinesOf
<1> QED
  BY <1>1, <1>2

\* The priority of a thread which is not linked does not matter.
LEMMA Reprio ==
  ASSUME scalable \in BOOLEAN,
         NEW c \in [Threads -> CorePrios], NEW d \in [Threads -> CorePrios],
         NEW R \in SUBSET Threads, \A t \in R : d[t] = c[t],
         NEW q, QueueOK(scalable, q, c, R)
  PROVE  /\ QueueOK(scalable, q, d, R)
         /\ LinesOf(scalable, q, d) = LinesOf(scalable, q, c)
<1>1. CASE scalable
  <2>2. MlqOK(q, c, R) /\ scalable = TRUE
    BY <1>1 DEF QueueOK
  <2>3. \A p : {t \in R : d[t] = p} = {t \in R : c[t] = p}
    OBVIOUS
  <2>4. MlqOK(q, d, R)
    BY <2>2, <2>3 DEF MlqOK, LinesOK
  <2> QED
    BY <2>2, <2>4 DEF QueueOK, LinesOf
<1>2. CASE ~scalable
  <2>1. LinearOK(q, c, R) /\ scalable = FALSE
    BY <1>2 DEF QueueOK
  <2>2. q \in Seq(Threads) /\ \A i \in 1 .. Len(q) : q[i] \in R /\ d[q[i]] = c[q[i]]
    BY <2>1 DEF LinearOK
  <2>3. LinearOK(q, d, R)
    BY <2>1, <2>2 DEF LinearOK
  <2>4. ASSUME NEW p PROVE Linear!group(q, p, d) = Linear!group(q, p, c)
    <3>1. {i \in DOMAIN q : p < d[q[i]]} = {i \in DOMAIN q : p < c[q[i]]}
      BY <2>2
    <3>2. {i \in DOMAIN q : p <= d[q[i]]} = {i \in DOMAIN q : p <= c[q[i]]}
      BY <2>2
    <3> QED
      BY <3>1, <3>2 DEF Linear!group
  <2>5. ListLines(q, d) = ListLines(q, c)
    BY <2>4 DEF ListLines
  <2> QED
    BY <2>1, <2>3, <2>5 DEF QueueOK, LinesOf
<1> QED
  BY <1>1, <1>2

(***************************************************************************)
(* A linked thread leaves its place under the old priorities and comes     *)
(* back under the new ones.                                                *)
(***************************************************************************)
Left(L, t) == [o \in CorePrios |-> RemoveFirst(L[o], t)]

Moved(r, q, c, d, R, p, s) ==
  /\ QueueOK(scalable, r, d, R)
  /\ LinesOf(scalable, r, d) = Put(Left(LinesOf(scalable, q, c), p), d[p], s)

LEMMA LeaveLine ==
  ASSUME scalable \in BOOLEAN,
         NEW c \in [Threads -> CorePrios], NEW d \in [Threads -> CorePrios],
         NEW R \in SUBSET Threads, NEW q, QueueOK(scalable, q, c, R),
         NEW t \in R, \A u \in R \ {t} : d[u] = c[u],
         NEW r, r = evl_del_schedq(q, t, c)
  PROVE  /\ QueueOK(scalable, r, d, R \ {t})
         /\ LinesOf(scalable, r, d) = Left(LinesOf(scalable, q, c), t)
<1> DEFINE L == LinesOf(scalable, q, c)
           M == LinesOf(scalable, r, c)
<1>1. LinesOK(L, c, R)
  BY QueueLines
<1>2. Becomes(r, q, c, R \ {t}, c[t], RemoveFirst(L[c[t]], t))
  BY Del
<1>3. QueueOK(scalable, r, c, R \ {t}) /\ M = Put(L, c[t], RemoveFirst(L[c[t]], t))
  BY <1>2 DEF Becomes
<1>4. R \ {t} \in SUBSET Threads
  OBVIOUS
<1>5. QueueOK(scalable, r, d, R \ {t}) /\ LinesOf(scalable, r, d) = M
  BY <1>3, <1>4, Reprio
<1> HIDE DEF L, M
<1>6. Put(L, c[t], RemoveFirst(L[c[t]], t)) = Left(L, t)
  <2>1. L \in [CorePrios -> Seq(Threads)]
    BY <1>1 DEF LinesOK
  <2>2. \A p \in CorePrios : p # c[t] => RemoveFirst(L[p], t) = L[p]
    BY <1>1, LinesElsewhere
  <2> QED
    BY <2>1, <2>2 DEF Put, Left
<1> QED
  BY <1>3, <1>5, <1>6 DEF L

LEMMA MoveToTail ==
  ASSUME scalable \in BOOLEAN,
         NEW c \in [Threads -> CorePrios], NEW d \in [Threads -> CorePrios],
         NEW R \in SUBSET Threads, NEW q, QueueOK(scalable, q, c, R),
         NEW t \in R, \A u \in R \ {t} : d[u] = c[u],
         NEW r, r = evl_add_schedq_tail(evl_del_schedq(q, t, c), t, d)
  PROVE  Moved(r, q, c, d, R, t, Append(Left(LinesOf(scalable, q, c), t)[d[t]], t))
<1> DEFINE a == evl_del_schedq(q, t, c)
           L == Left(LinesOf(scalable, q, c), t)
<1>1. QueueOK(scalable, a, d, R \ {t}) /\ LinesOf(scalable, a, d) = L
  BY LeaveLine
<1>2. r = evl_add_schedq_tail(a, t, d) /\ R \ {t} \in SUBSET Threads /\ t \notin R \ {t}
  OBVIOUS
<1> HIDE DEF a, L
<1>3. Becomes(r, a, d, (R \ {t}) \cup {t}, d[t], Append(LinesOf(scalable, a, d)[d[t]], t))
  BY <1>1, <1>2, AddTail
<1>4. (R \ {t}) \cup {t} = R
  OBVIOUS
<1> QED
  BY <1>1, <1>3, <1>4 DEF Becomes, Moved, L

LEMMA MoveToHead ==
  ASSUME scalable \in BOOLEAN,
         NEW c \in [Threads -> CorePrios], NEW d \in [Threads -> CorePrios],
         NEW R \in SUBSET Threads, NEW q, QueueOK(scalable, q, c, R),
         NEW t \in R, \A u \in R \ {t} : d[u] = c[u],
         NEW r, r = evl_add_schedq(evl_del_schedq(q, t, c), t, d)
  PROVE  Moved(r, q, c, d, R, t, <<t>> \o Left(LinesOf(scalable, q, c), t)[d[t]])
<1> DEFINE a == evl_del_schedq(q, t, c)
           L == Left(LinesOf(scalable, q, c), t)
<1>1. QueueOK(scalable, a, d, R \ {t}) /\ LinesOf(scalable, a, d) = L
  BY LeaveLine
<1>2. r = evl_add_schedq(a, t, d) /\ R \ {t} \in SUBSET Threads /\ t \notin R \ {t}
  OBVIOUS
<1> HIDE DEF a, L
<1>3. Becomes(r, a, d, (R \ {t}) \cup {t}, d[t], <<t>> \o LinesOf(scalable, a, d)[d[t]])
  BY <1>1, <1>2, Add
<1>4. (R \ {t}) \cup {t} = R
  OBVIOUS
<1> QED
  BY <1>1, <1>3, <1>4 DEF Becomes, Moved, L

\* An empty queue, and the one of the start.
LEMMA NoLines ==
  ASSUME NEW c, NEW L, LinesOK(L, c, {})
  PROVE  L = [p \in CorePrios |-> <<>>]
<1>1. ASSUME NEW p \in CorePrios PROVE L[p] = <<>>
  <2>1. L[p] \in Seq(Threads) /\ Elems(L[p]) = {}
    BY DEF LinesOK
  <2>2. Len(L[p]) \in Nat /\ (Len(L[p]) = 0 <=> L[p] = <<>>)
    BY <2>1, EmptySeq, LenProperties
  <2>3. \A i \in 1 .. Len(L[p]) : L[p][i] \in Elems(L[p])
    BY DEF Elems
  <2>4. 1 \notin 1 .. Len(L[p])
    BY <2>1, <2>3
  <2> QED
    BY <2>2, <2>4
<1> QED
  BY <1>1 DEF LinesOK

LEMMA QueueInit ==
  ASSUME scalable \in BOOLEAN, NEW c \in [Threads -> CorePrios]
  PROVE  QueueOK(scalable, evl_init_schedq, c, {})
<1>1. <<>> \in Seq(Threads) /\ Len(<<>>) = 0 /\ Distinct(<<>>) /\ Elems(<<>>) = {}
  BY DEF Distinct, Elems
<1>2. CASE scalable
  <2> DEFINE q == Mlq!evl_init_schedq
  <2>1. /\ q \in MlqType /\ q.elems = 0 /\ q.prio_map = {}
        /\ q.heads = [i \in Mlq!Index |-> <<>>]
    BY <1>1 DEF Mlq!evl_init_schedq, MlqType
  <2> HIDE DEF q
  <2>2. MlqLines(q) = [p \in CorePrios |-> <<>>]
    BY <2>1, Levels DEF MlqLines
  <2>3. LinesOK(MlqLines(q), c, {}) /\ Used(q) = {}
    BY <1>1, <2>1, <2>2 DEF LinesOK, Used
  <2>4. MlqOK(q, c, {})
    BY <2>1, <2>3, FS_EmptySet DEF MlqOK, MlqType
  <2> QED
    BY <1>2, <2>4 DEF q, QueueOK, evl_init_schedq
<1>3. CASE ~scalable
  BY <1>1, <1>3 DEF QueueOK, LinearOK, evl_init_schedq, Linear!evl_init_schedq
<1> QED
  BY <1>2, <1>3

-----------------------------------------------------------------------------
(***************************************************************************)
(* The inductive invariant: the queue holds the linked threads at their    *)
(* current priorities, whichever the build has; a runnable thread is       *)
(* linked unless it is on the CPU; the best one runs when no request to    *)
(* reschedule is pending.                                                  *)
(***************************************************************************)
FifoTypeOK ==
  /\ scalable \in BOOLEAN
  /\ bprio \in [Threads -> CorePrios] /\ cprio \in [Threads -> CorePrios]
  /\ boost \in SUBSET Threads /\ blocked \in SUBSET Threads
  /\ ready \in SUBSET (Threads \ blocked)
  /\ curr \in Threads \cup {Root}
  /\ resched \in BOOLEAN

RunnableServed == \A t \in Threads \ blocked : t = curr \/ t \in ready

FifoIInv ==
  /\ FifoTypeOK
  /\ QueueOK(scalable, runnable, cprio, ready)
  /\ RunnableServed
  /\ BestRuns

\* The lines of the queue, as the invariant and the policy see them.
Lines == LinesOf(scalable, runnable, cprio)

\* What a change of the priorities of one thread does, wherever it is.
PrioMoves(t) ==
  /\ cprio' \in [Threads -> CorePrios]
  /\ \A u \in Threads \ {t} : cprio'[u] = cprio[u]
  /\ runnable' = MovedToTail(t) \/ runnable' = MovedToHead(t)
  /\ UNCHANGED <<scalable, ready>>

PrioMoved(t) ==
  /\ QueueOK(scalable', runnable', cprio', ready')
  /\ t \notin ready => Lines' = Lines
  /\ t \in ready =>
       \/ Lines' = Put(Left(Lines, t), cprio'[t], Append(Left(Lines, t)[cprio'[t]], t))
       \/ Lines' = Put(Left(Lines, t), cprio'[t], <<t>> \o Left(Lines, t)[cprio'[t]])

LEMMA PrioMovesLine ==
  ASSUME FifoIInv, NEW t \in Threads, PrioMoves(t)
  PROVE  PrioMoved(t)
<1>1. /\ scalable \in BOOLEAN /\ cprio \in [Threads -> CorePrios]
      /\ ready \in SUBSET Threads /\ QueueOK(scalable, runnable, cprio, ready)
  BY DEF FifoIInv, FifoTypeOK
<1>2. /\ cprio' \in [Threads -> CorePrios] /\ scalable' = scalable /\ ready' = ready
      /\ \A u \in Threads \ {t} : cprio'[u] = cprio[u]
  BY DEF PrioMoves
<1> DEFINE d == cprio'
           r == runnable'
<1>3. CASE t \notin ready
  <2>1. r = runnable
    BY <1>3 DEF PrioMoves, MovedToTail, MovedToHead
  <2>2. \A u \in ready : d[u] = cprio[u]
    BY <1>2, <1>3, <1>1
  <2>3. QueueOK(scalable, runnable, d, ready) /\ LinesOf(scalable, runnable, d) = Lines
    BY <2>2, <1>1, <1>2, Reprio DEF Lines
  <2> QED
    BY <2>1, <2>3, <1>2, <1>3 DEF PrioMoved, Lines
<1>4. CASE t \in ready
  <2>1. \A u \in ready \ {t} : d[u] = cprio[u]
    BY <1>2, <1>1
  <2>2. CASE r = MovedToTail(t)
    <3>1. r = evl_add_schedq_tail(evl_del_schedq(runnable, t, cprio), t, d)
      BY <1>4, <2>2 DEF MovedToTail
    <3>2. Moved(r, runnable, cprio, d, ready, t,
                Append(Left(LinesOf(scalable, runnable, cprio), t)[d[t]], t))
      BY <3>1, <2>1, <1>1, <1>2, <1>4, MoveToTail
    <3> QED
      BY <3>2, <1>2, <1>4 DEF Moved, PrioMoved, Lines
  <2>3. CASE r = MovedToHead(t)
    <3>1. r = evl_add_schedq(evl_del_schedq(runnable, t, cprio), t, d)
      BY <1>4, <2>3 DEF MovedToHead
    <3>2. Moved(r, runnable, cprio, d, ready, t,
                <<t>> \o Left(LinesOf(scalable, runnable, cprio), t)[d[t]])
      BY <3>1, <2>1, <1>1, <1>2, <1>4, MoveToHead
    <3> QED
      BY <3>2, <1>2, <1>4 DEF Moved, PrioMoved, Lines
  <2> QED
    BY <2>2, <2>3 DEF PrioMoves
<1> QED
  BY <1>3, <1>4

\* The three changes of priority are such moves.
LEMMA AskedRange ==
  ASSUME NEW t, NEW prio, __evl_chk_fifo_schedparam(t, prio)
  PROVE  prio \in CorePrios
BY FifoAssumption
   DEF __evl_chk_fifo_schedparam, CorePrios, EVL_FIFO_MIN_PRIO, EVL_FIFO_MAX_PRIO,
       EVL_CORE_MIN_PRIO, EVL_CORE_MAX_PRIO

LEMMA PrioActions ==
  ASSUME FifoIInv, NEW t \in Threads,
         \/ \E prio \in AskedPrios : evl_set_schedparam(t, prio)
         \/ \E u \in Threads : evl_track_priority(t, u)
         \/ evl_untrack_priority(t)
  PROVE  /\ PrioMoves(t)
         /\ \E p \in CorePrios : cprio' = [cprio EXCEPT ![t] = p]
         /\ bprio' \in [Threads -> CorePrios] /\ boost' \in SUBSET Threads
         /\ resched' = TRUE
         /\ UNCHANGED <<blocked, curr>>
<1>1. /\ bprio \in [Threads -> CorePrios] /\ cprio \in [Threads -> CorePrios]
      /\ boost \in SUBSET Threads
  BY DEF FifoIInv, FifoTypeOK
<1>2. ASSUME NEW prio \in AskedPrios, evl_set_schedparam(t, prio)
      PROVE  /\ \E p \in CorePrios : cprio' = [cprio EXCEPT ![t] = p]
             /\ bprio' \in [Threads -> CorePrios]
  <2>1. prio \in CorePrios
    BY <1>2, AskedRange DEF evl_set_schedparam
  <2>2. /\ bprio' = [bprio EXCEPT ![t] = prio]
        /\ cprio' = cprio \/ cprio' = [cprio EXCEPT ![t] = prio]
    BY <1>2 DEF evl_set_schedparam, evl_set_effective_thread_priority
  <2>3. cprio = [cprio EXCEPT ![t] = cprio[t]] /\ cprio[t] \in CorePrios
    BY <1>1
  <2>4. bprio' \in [Threads -> CorePrios]
    BY <2>1, <2>2, <1>1
  <2>5. \E p \in CorePrios : cprio' = [cprio EXCEPT ![t] = p]
    BY <2>1, <2>2, <2>3
  <2> QED
    BY <2>4, <2>5
<1>3. ASSUME NEW u \in Threads, evl_track_priority(t, u)
      PROVE  \E p \in CorePrios : cprio' = [cprio EXCEPT ![t] = p]
  BY <1>1, <1>3 DEF evl_track_priority
<1>4. ASSUME evl_untrack_priority(t)
      PROVE  \E p \in CorePrios : cprio' = [cprio EXCEPT ![t] = p]
  BY <1>1, <1>4 DEF evl_untrack_priority
<1>5. PICK p \in CorePrios : cprio' = [cprio EXCEPT ![t] = p]
  BY <1>2, <1>3, <1>4
<1>6. /\ cprio' \in [Threads -> CorePrios]
      /\ \A u \in Threads \ {t} : cprio'[u] = cprio[u]
  BY <1>1, <1>5
<1>7. bprio' \in [Threads -> CorePrios] /\ boost' \in SUBSET Threads
  BY <1>1, <1>2 DEF evl_set_schedparam, evl_track_priority, evl_untrack_priority
<1>8. /\ runnable' = MovedToTail(t) \/ runnable' = MovedToHead(t)
      /\ resched' = TRUE
      /\ UNCHANGED <<scalable, ready, blocked, curr>>
  BY DEF evl_set_schedparam, evl_track_priority, evl_untrack_priority
<1> QED
  BY <1>5, <1>6, <1>7, <1>8 DEF PrioMoves

LEMMA ReleaseLine ==
  ASSUME FifoIInv, NEW t \in Threads, Release(t)
  PROVE  /\ QueueOK(scalable', runnable', cprio', ready')
         /\ Lines' = Put(Lines, cprio[t], Append(Lines[cprio[t]], t))
<1>1. /\ scalable \in BOOLEAN /\ cprio \in [Threads -> CorePrios]
      /\ ready \in SUBSET Threads /\ QueueOK(scalable, runnable, cprio, ready)
  BY DEF FifoIInv, FifoTypeOK
<1>2. t \notin ready
  BY DEF FifoIInv, FifoTypeOK, Release
<1>3. /\ runnable' = evl_add_schedq_tail(runnable, t, cprio)
      /\ ready' = ready \cup {t} /\ scalable' = scalable /\ cprio' = cprio
  BY DEF Release
<1>4. Becomes(runnable', runnable, cprio, ready \cup {t}, cprio[t],
              Append(LinesOf(scalable, runnable, cprio)[cprio[t]], t))
  BY <1>1, <1>2, <1>3, AddTail
<1> QED
  BY <1>3, <1>4 DEF Becomes, Lines

LEMMA HoldLine ==
  ASSUME FifoIInv, NEW t \in Threads, Hold(t)
  PROVE  /\ QueueOK(scalable', runnable', cprio', ready')
         /\ Lines' = Put(Lines, cprio[t], RemoveFirst(Lines[cprio[t]], t))
<1>1. /\ scalable \in BOOLEAN /\ cprio \in [Threads -> CorePrios]
      /\ ready \in SUBSET Threads /\ QueueOK(scalable, runnable, cprio, ready)
  BY DEF FifoIInv, FifoTypeOK
<1>2. /\ runnable' = IF t \in ready THEN evl_del_schedq(runnable, t, cprio) ELSE runnable
      /\ ready' = ready \ {t} /\ scalable' = scalable /\ cprio' = cprio
  BY DEF Hold
<1>3. CASE t \in ready
  <2>1. runnable' = evl_del_schedq(runnable, t, cprio)
    BY <1>2, <1>3
  <2>2. Becomes(runnable', runnable, cprio, ready \ {t}, cprio[t],
                RemoveFirst(LinesOf(scalable, runnable, cprio)[cprio[t]], t))
    BY <1>1, <1>3, <2>1, Del
  <2> QED
    BY <1>2, <2>2 DEF Becomes, Lines
<1>4. CASE t \notin ready
  <2>1. runnable' = runnable /\ ready' = ready
    BY <1>2, <1>4
  <2>2. LinesOK(Lines, cprio, ready)
    BY <1>1, QueueLines DEF Lines
  <2>3. /\ Lines \in [CorePrios -> Seq(Threads)] /\ cprio[t] \in CorePrios
        /\ Distinct(Lines[cprio[t]]) /\ t \notin Elems(Lines[cprio[t]])
    BY <2>2, <1>1, <1>4 DEF LinesOK
  <2>4. RemoveFirst(Lines[cprio[t]], t) = Lines[cprio[t]]
    BY <2>3, RemoveFirstElems
  <2>5. Lines = Put(Lines, cprio[t], Lines[cprio[t]])
    BY <2>3 DEF Put
  <2> QED
    BY <1>1, <1>2, <2>1, <2>4, <2>5 DEF Lines
<1> QED
  BY <1>3, <1>4

LEMMA YieldLine ==
  ASSUME FifoIInv, evl_sched_yield
  PROVE  /\ QueueOK(scalable', runnable', cprio', ready')
         /\ curr \notin ready =>
              Lines' = Put(Lines, cprio[curr], Append(Lines[cprio[curr]], curr))
         /\ curr \in ready =>
              Lines' = Put(Left(Lines, curr), cprio[curr],
                           Append(Left(Lines, curr)[cprio[curr]], curr))
<1>1. /\ scalable \in BOOLEAN /\ cprio \in [Threads -> CorePrios]
      /\ ready \in SUBSET Threads /\ QueueOK(scalable, runnable, cprio, ready)
      /\ curr \in Threads
  BY DEF FifoIInv, FifoTypeOK, evl_sched_yield
<1>2. ready' = ready \cup {curr} /\ scalable' = scalable /\ cprio' = cprio
  BY DEF evl_sched_yield
<1>3. CASE curr \notin ready
  <2>1. runnable' = evl_add_schedq_tail(runnable, curr, cprio)
    BY <1>3 DEF evl_sched_yield
  <2>2. Becomes(runnable', runnable, cprio, ready \cup {curr}, cprio[curr],
                Append(LinesOf(scalable, runnable, cprio)[cprio[curr]], curr))
    BY <1>1, <1>3, <2>1, AddTail
  <2> QED
    BY <1>2, <1>3, <2>2 DEF Becomes, Lines
<1>4. CASE curr \in ready
  <2>1. /\ runnable' = evl_add_schedq_tail(evl_del_schedq(runnable, curr, cprio), curr, cprio)
        /\ ready' = ready
    BY <1>2, <1>4 DEF evl_sched_yield
  <2>2. Moved(runnable', runnable, cprio, cprio, ready, curr,
              Append(Left(LinesOf(scalable, runnable, cprio), curr)[cprio[curr]], curr))
    BY <1>1, <1>4, <2>1, MoveToTail
  <2> QED
    BY <1>2, <1>4, <2>1, <2>2 DEF Moved, Lines
<1> QED
  BY <1>3, <1>4

(***************************************************************************)
(* The choice of the next thread: "linked" once the current one is back in *)
(* its line if it was preempted, in the lines All.                         *)
(***************************************************************************)
Preempted == curr \notin blocked \cup ready \cup {Root}
Linked    == IF Preempted THEN ready \cup {curr} ELSE ready
All == IF Preempted THEN Put(Lines, cprio[curr], <<curr>> \o Lines[cprio[curr]]) ELSE Lines

LEMMA PickLine ==
  ASSUME FifoIInv, Pick
  PROVE  /\ Linked \in SUBSET (Threads \ blocked)
         /\ LinesOK(All, cprio, Linked)
         /\ QueueOK(scalable', runnable', cprio', ready')
         /\ Linked = {} => curr' = Root /\ ready' = {} /\ Lines' = All
         /\ Linked # {} =>
              /\ Best(All, cprio, Linked, curr')
              /\ ready' = Linked \ {curr'}
              /\ Lines' = Put(All, cprio[curr'], Tail(All[cprio[curr']]))
<1>1. /\ scalable \in BOOLEAN /\ cprio \in [Threads -> CorePrios]
      /\ ready \in SUBSET Threads /\ QueueOK(scalable, runnable, cprio, ready)
  BY DEF FifoIInv, FifoTypeOK
<1>2. Linked \in SUBSET (Threads \ blocked) /\ Linked \in SUBSET Threads
  BY DEF FifoIInv, FifoTypeOK, Linked, Preempted
<1> DEFINE q == IF Preempted THEN evl_add_schedq(runnable, curr, cprio) ELSE runnable
           t == evl_get_schedq(q).thread
<1>3. QueueOK(scalable, q, cprio, Linked) /\ LinesOf(scalable, q, cprio) = All
  <2>1. CASE Preempted
    <3>1. curr \in Threads /\ curr \notin ready
      BY <2>1 DEF FifoIInv, FifoTypeOK, Preempted
    <3>2. q = evl_add_schedq(runnable, curr, cprio)
      BY <2>1
    <3> HIDE DEF q
    <3>3. Becomes(q, runnable, cprio, ready \cup {curr}, cprio[curr],
                  <<curr>> \o LinesOf(scalable, runnable, cprio)[cprio[curr]])
      BY <1>1, <3>1, <3>2, Add
    <3> QED
      BY <2>1, <3>3 DEF Becomes, Linked, All, Lines
  <2>2. CASE ~Preempted
    BY <1>1, <2>2 DEF Linked, All, Lines
  <2> QED
    BY <2>1, <2>2
<1>4. LinesOK(All, cprio, Linked)
  BY <1>1, <1>2, <1>3, QueueLines
<1>5. schedq_empty(q) <=> Linked = {}
  BY <1>1, <1>2, <1>3, Empty
<1>6. /\ scalable' = scalable /\ cprio' = cprio
      /\ schedq_empty(q) => curr' = Root /\ runnable' = q /\ ready' = Linked
      /\ ~schedq_empty(q) =>
           curr' = t /\ runnable' = evl_get_schedq(q).queue /\ ready' = Linked \ {t}
  BY DEF Pick, Linked, Preempted
<1> HIDE DEF q
<1>7. CASE Linked = {}
  BY <1>2, <1>3, <1>4, <1>5, <1>6, <1>7 DEF Lines
<1>8. CASE Linked # {}
  <2>1. /\ Best(LinesOf(scalable, q, cprio), cprio, Linked, t)
        /\ evl_get_schedq(q).queue = evl_del_schedq(q, t, cprio)
    BY <1>1, <1>2, <1>3, <1>8, Get
  <2>2. /\ curr' = t /\ runnable' = evl_del_schedq(q, t, cprio) /\ ready' = Linked \ {t}
    BY <1>5, <1>6, <1>8, <2>1
  <2>3. Best(All, cprio, Linked, t) /\ t \in Linked
    BY <1>3, <2>1 DEF Best
  <2> HIDE DEF t
  <2>4. Becomes(runnable', q, cprio, Linked \ {t}, cprio[t],
                RemoveFirst(LinesOf(scalable, q, cprio)[cprio[t]], t))
    BY <1>1, <1>2, <1>3, <2>2, <2>3, Del
  <2>5. RemoveFirst(All[cprio[t]], t) = Tail(All[cprio[t]])
    <3>1. /\ All[cprio[t]] \in Seq(Threads) /\ Distinct(All[cprio[t]])
          /\ All[cprio[t]] # <<>> /\ t = Head(All[cprio[t]])
      BY <1>1, <1>2, <1>4, <2>3 DEF Best, LinesOK
    <3> QED
      BY <3>1, TailRemovesHead
  <2>6. /\ QueueOK(scalable', runnable', cprio', ready')
        /\ Lines' = Put(All, cprio[t], Tail(All[cprio[t]]))
    BY <1>3, <1>6, <2>2, <2>4, <2>5 DEF Becomes, Lines
  <2> QED
    BY <1>2, <1>4, <1>8, <2>2, <2>3, <2>6
<1> QED
  BY <1>7, <1>8

-----------------------------------------------------------------------------
\* The invariant of SCHED_FIFO, on either build of the queue.
THEOREM FifoInvariant == Spec => []FifoIInv
<1>1. Init => FifoIInv
  <2> SUFFICES ASSUME Init PROVE FifoIInv
    OBVIOUS
  <2>1. FifoTypeOK
    BY DEF Init, FifoTypeOK
  <2>2. QueueOK(scalable, runnable, cprio, ready)
    BY <2>1, QueueInit DEF Init, FifoTypeOK
  <2>3. RunnableServed /\ BestRuns
    BY DEF Init, RunnableServed, BestRuns
  <2> QED
    BY <2>1, <2>2, <2>3 DEF FifoIInv
<1>2. FifoIInv /\ [Next]_fifoVars => FifoIInv'
  <2> SUFFICES ASSUME FifoIInv, [Next]_fifoVars PROVE FifoIInv'
    OBVIOUS
  <2> USE DEF FifoIInv
  <2>1. ASSUME NEW t \in Threads, Release(t) PROVE FifoIInv'
    <3>1. QueueOK(scalable, runnable, cprio, ready)'
      BY <2>1, ReleaseLine
    <3>2. FifoTypeOK' /\ RunnableServed' /\ BestRuns'
      BY <2>1 DEF Release, FifoTypeOK, RunnableServed, BestRuns
    <3> QED
      BY <3>1, <3>2
  <2>2. ASSUME NEW t \in Threads, Hold(t) PROVE FifoIInv'
    <3>1. QueueOK(scalable, runnable, cprio, ready)'
      BY <2>2, HoldLine
    <3>2. FifoTypeOK' /\ RunnableServed' /\ BestRuns'
      BY <2>2 DEF Hold, FifoTypeOK, RunnableServed, BestRuns
    <3> QED
      BY <3>1, <3>2
  <2>3. ASSUME NEW t \in Threads,
               \/ \E prio \in AskedPrios : evl_set_schedparam(t, prio)
               \/ \E u \in Threads : evl_track_priority(t, u)
               \/ evl_untrack_priority(t)
        PROVE FifoIInv'
    <3>1. /\ PrioMoves(t) /\ bprio' \in [Threads -> CorePrios] /\ boost' \in SUBSET Threads
          /\ resched' = TRUE /\ UNCHANGED <<blocked, curr>>
      BY <2>3, PrioActions
    <3>2. QueueOK(scalable, runnable, cprio, ready)'
      BY <3>1, PrioMovesLine DEF PrioMoved
    <3>3. FifoTypeOK' /\ RunnableServed' /\ BestRuns'
      BY <3>1 DEF PrioMoves, FifoTypeOK, RunnableServed, BestRuns
    <3> QED
      BY <3>2, <3>3
  <2>4. CASE evl_sched_yield
    <3>1. QueueOK(scalable, runnable, cprio, ready)'
      BY <2>4, YieldLine
    <3>2. FifoTypeOK' /\ RunnableServed' /\ BestRuns'
      BY <2>4 DEF evl_sched_yield, FifoTypeOK, RunnableServed, BestRuns
    <3> QED
      BY <3>1, <3>2
  <2>5. CASE Pick
    <3>1. /\ Linked \in SUBSET (Threads \ blocked)
          /\ QueueOK(scalable, runnable, cprio, ready)'
          /\ Linked = {} => curr' = Root /\ ready' = {}
          /\ Linked # {} => Best(All, cprio, Linked, curr') /\ ready' = Linked \ {curr'}
      BY <2>5, PickLine
    <3>2. UNCHANGED <<scalable, bprio, cprio, boost, blocked>> /\ resched' = FALSE
      BY <2>5 DEF Pick
    <3>3. \A t \in Threads \ blocked : t \in Linked
      BY FifoAssumption DEF Linked, Preempted, RunnableServed, FifoTypeOK
    <3>4. CASE Linked = {}
      <4>1. FifoTypeOK' /\ RunnableServed' /\ BestRuns'
        BY <3>1, <3>2, <3>3, <3>4 DEF FifoTypeOK, RunnableServed, BestRuns
      <4> QED
        BY <3>1, <4>1
    <3>5. CASE Linked # {}
      <4>1. /\ curr' \in Linked /\ \A u \in Linked : cprio[u] <= cprio[curr']
            /\ ready' = Linked \ {curr'}
        BY <3>1, <3>5 DEF Best
      <4>2. curr' \in Threads /\ curr' # Root
        BY <3>1, <4>1, FifoAssumption
      <4>3. FifoTypeOK'
        BY <3>1, <3>2, <4>1, <4>2 DEF FifoTypeOK
      <4>4. RunnableServed' /\ BestRuns'
        BY <3>1, <3>2, <3>3, <4>1, <4>2 DEF RunnableServed, BestRuns
      <4> QED
        BY <3>1, <4>3, <4>4
    <3> QED
      BY <3>4, <3>5
  <2>6. CASE UNCHANGED fifoVars
    BY <2>6 DEF fifoVars, FifoTypeOK, RunnableServed, BestRuns
  <2> QED
    BY <2>1, <2>2, <2>3, <2>4, <2>5, <2>6 DEF Next
<1> QED
  BY <1>1, <1>2, PTL DEF Spec

(***************************************************************************)
(* The bitmap of the multi-level queue has the levels in use, and its      *)
(* count is the number of linked threads.                                  *)
(***************************************************************************)
THEOREM MlqCoherentHolds == Spec => []MlqCoherent
<1>1. FifoIInv => MlqCoherent
  BY DEF FifoIInv, QueueOK, MlqOK, Used, MlqCoherent
<1> QED
  BY <1>1, FifoInvariant, PTL

\* No thread outranks the current one without a request to reschedule.
THEOREM BestRunsHolds == Spec => []BestRuns
<1>1. FifoIInv => BestRuns
  BY DEF FifoIInv
<1> QED
  BY <1>1, FifoInvariant, PTL

\* The places of a thread in the lines: one if it is linked, none if not.
LEMMA PlacesOf ==
  ASSUME FifoIInv, NEW t \in Threads
  PROVE  /\ t \in ready =>
              \E i \in DOMAIN Line(cprio[t]) : Places(t) = {<<cprio[t], i>>}
         /\ t \notin ready => Places(t) = {}
<1>1. LinesOK(Lines, cprio, ready) /\ cprio[t] \in CorePrios
  BY QueueLines DEF FifoIInv, FifoTypeOK, Lines
<1>2. \A p \in CorePrios : Line(p) = Lines[p]
  BY DEF Line, Lines, LinesOf, MlqLines, ListLines
<1>3. ASSUME NEW p \in CorePrios
      PROVE  /\ Line(p) \in Seq(Threads) /\ DOMAIN Line(p) = 1 .. Len(Line(p))
             /\ Len(Line(p)) \in Nat
             /\ Distinct(Line(p)) /\ Elems(Line(p)) = {u \in ready : cprio[u] = p}
  <2>1. /\ Line(p) \in Seq(Threads)
        /\ Distinct(Line(p)) /\ Elems(Line(p)) = {u \in ready : cprio[u] = p}
    BY <1>1, <1>2 DEF LinesOK
  <2> QED
    BY <2>1, LenProperties
<1>4. ASSUME NEW x \in Places(t)
      PROVE  \E p \in CorePrios : \E i \in DOMAIN Line(p) : x = <<p, i>> /\ Line(p)[i] = t
  BY DEF Places
<1>5. ASSUME NEW p \in CorePrios, NEW i \in DOMAIN Line(p), Line(p)[i] = t
      PROVE  t \in ready /\ cprio[t] = p
  BY <1>3, <1>5 DEF Elems
<1>6. ASSUME t \notin ready PROVE Places(t) = {}
  BY <1>4, <1>5, <1>6
<1>7. ASSUME t \in ready
      PROVE  \E i \in DOMAIN Line(cprio[t]) : Places(t) = {<<cprio[t], i>>}
  <2> DEFINE p == cprio[t]
  <2>1. PICK i \in DOMAIN Line(p) : Line(p)[i] = t
    BY <1>1, <1>3, <1>7 DEF Elems
  <2>2. \A j \in DOMAIN Line(p) : Line(p)[j] = t => j = i
    BY <2>1, <1>1, <1>3 DEF Distinct
  <2>3. <<p, i>> \in Places(t)
    BY <2>1, <1>1 DEF Places
  <2>4. ASSUME NEW x \in Places(t) PROVE x = <<p, i>>
    BY <2>2, <1>4, <1>5
  <2> QED
    BY <2>1, <2>3, <2>4
<1> QED
  BY <1>6, <1>7

(***************************************************************************)
(* A runnable thread is on the CPU or linked, once, at its priority.       *)
(***************************************************************************)
THEOREM RunnableLinkedOnceHolds == Spec => []RunnableLinkedOnce
<1>1. ASSUME FifoIInv PROVE RunnableLinkedOnce
  <2>1. \A t \in Threads \ blocked : t = curr \/ t \in ready
    BY <1>1 DEF FifoIInv, RunnableServed
  <2>2. \A t \in ready : \E i \in DOMAIN Line(cprio[t]) : Places(t) = {<<cprio[t], i>>}
    BY <1>1, PlacesOf DEF FifoIInv, FifoTypeOK
  <2>3. \A t \in Threads \ ready : Places(t) = {}
    BY <1>1, PlacesOf
  <2> QED
    BY <2>1, <2>2, <2>3 DEF RunnableLinkedOnce
<1>2. FifoIInv => RunnableLinkedOnce
  BY <1>1
<1> QED
  BY <1>2, FifoInvariant, PTL

-----------------------------------------------------------------------------
(***************************************************************************)
(* Refinement: the lines of the queue are those of the policy, and a       *)
(* thread waits there exactly when it is linked.                           *)
(***************************************************************************)
LEMMA PolicyLines ==
  ASSUME FifoIInv
  PROVE  /\ [p \in CorePrios |-> Line(p)] = Lines
         /\ LinesOK(Lines, cprio, ready)
         /\ Lines \in [CorePrios -> Seq(Threads)]
         /\ \A t : Policy!Waiting(t) <=> t \in ready
<1>1. [p \in CorePrios |-> Line(p)] = Lines
  BY DEF Line, Lines, LinesOf, MlqLines, ListLines
<1>2. LinesOK(Lines, cprio, ready) /\ cprio \in [Threads -> CorePrios] /\ ready \in SUBSET Threads
  BY QueueLines DEF FifoIInv, FifoTypeOK, Lines
<1>3. /\ Lines \in [CorePrios -> Seq(Threads)]
      /\ \A p \in CorePrios : Elems(Lines[p]) = {u \in ready : cprio[u] = p}
  BY <1>2 DEF LinesOK
<1>4. \A p \in CorePrios : DOMAIN Lines[p] = 1 .. Len(Lines[p])
  BY <1>3, LenProperties
<1>5. ASSUME NEW t PROVE Policy!Waiting(t) <=> t \in ready
  <2>1. Policy!Waiting(t) <=> \E p \in CorePrios : \E i \in DOMAIN Lines[p] : Lines[p][i] = t
    BY <1>1 DEF Policy!Waiting
  <2>2. Policy!Waiting(t) <=> \E p \in CorePrios : t \in Elems(Lines[p])
    BY <2>1, <1>4 DEF Elems
  <2>3. (\E p \in CorePrios : t \in Elems(Lines[p])) <=> t \in ready
    BY <1>2, <1>3
  <2> QED
    BY <2>2, <2>3
<1> QED
  BY <1>1, <1>2, <1>3, <1>5

\* The next lines, likewise.
LEMMA PolicyNextLines == [p \in CorePrios |-> Line(p)]' = Lines'
BY DEF Line, Lines, LinesOf, MlqLines, ListLines

\* A thread gets ready: it joins its line.
LEMMA ReleaseJoins ==
  ASSUME FifoIInv, NEW t \in Threads, Release(t)
  PROVE  Policy!Join(t)
<1>1. ~Policy!Waiting(t)
  BY PolicyLines DEF FifoIInv, FifoTypeOK, Release
<1>2. Lines' = [Lines EXCEPT ![cprio[t]] = Append(@, t)]
  BY ReleaseLine DEF Put
<1>3. (curr \notin blocked)' = ((curr \notin blocked) \/ t = curr)
  BY DEF Release
<1>4. UNCHANGED <<cprio, curr>>
  BY DEF Release
<1> QED
  BY <1>1, <1>2, <1>3, <1>4, PolicyLines, PolicyNextLines DEF Policy!Join

\* A thread is held: it leaves.
LEMMA HoldLeaves ==
  ASSUME FifoIInv, NEW t \in Threads, Hold(t)
  PROVE  Policy!Leave(t)
<1>1. Policy!Waiting(t) \/ t = curr
  BY PolicyLines DEF FifoIInv, RunnableServed, Hold
<1>2. Lines' = [Lines EXCEPT ![cprio[t]] = Policy!RemoveFirst(@, t)]
  BY HoldLine, SameOperators DEF Put
<1>3. (curr \notin blocked)' = ((curr \notin blocked) /\ t # curr)
  BY DEF Hold
<1>4. UNCHANGED <<cprio, curr>>
  BY DEF Hold
<1> QED
  BY <1>1, <1>2, <1>3, <1>4, PolicyLines, PolicyNextLines DEF Policy!Leave

\* A thread moves to an end of the line of its new priority, if it waits.
LEMMA PolicyMoves ==
  ASSUME FifoIInv, NEW t \in Threads, NEW p \in CorePrios,
         cprio' = [cprio EXCEPT ![t] = p],
         t \notin ready => Lines' = Lines,
         t \in ready =>
           \/ Lines' = Put(Left(Lines, t), p, Append(Left(Lines, t)[p], t))
           \/ Lines' = Put(Left(Lines, t), p, <<t>> \o Left(Lines, t)[p]),
         UNCHANGED curr, (curr \notin blocked)' = (curr \notin blocked)
  PROVE  Policy!Move(t, p)
<1> DEFINE line == [o \in CorePrios |-> Line(o)]
           left == [o \in CorePrios |-> Policy!RemoveFirst(line[o], t)]
<1>1. line = Lines /\ line' = Lines'
  BY PolicyLines, PolicyNextLines
<1>2. left = Left(Lines, t)
  BY <1>1, SameOperators DEF Left
<1>3. Policy!Waiting(t) <=> t \in ready
  BY PolicyLines
<1> HIDE DEF line, left
<1>4. IF Policy!Waiting(t)
      THEN \/ line' = [left EXCEPT ![p] = Append(left[p], t)]
           \/ line' = [left EXCEPT ![p] = <<t>> \o left[p]]
      ELSE line' = line
  BY <1>1, <1>2, <1>3 DEF Put
<1> QED
  BY <1>4 DEF Policy!Move, line, left

\* The current thread yields: it joins its line, or moves to its end.
LEMMA YieldMoves ==
  ASSUME FifoIInv, evl_sched_yield
  PROVE  curr \in Threads /\ (Policy!Join(curr) \/ Policy!Move(curr, cprio[curr]))
<1>1. /\ curr \in Threads /\ cprio \in [Threads -> CorePrios] /\ curr \notin blocked
      /\ UNCHANGED <<cprio, curr, blocked>>
  BY DEF FifoIInv, FifoTypeOK, evl_sched_yield
<1>2. CASE curr \notin ready
  <2>1. ~Policy!Waiting(curr)
    BY <1>2, PolicyLines
  <2>2. Lines' = [Lines EXCEPT ![cprio[curr]] = Append(@, curr)]
    BY <1>2, YieldLine DEF Put
  <2>3. (curr \notin blocked)' = ((curr \notin blocked) \/ curr = curr)
    BY <1>1
  <2>4. Policy!Join(curr)
    BY <1>1, <2>1, <2>2, <2>3, PolicyLines, PolicyNextLines DEF Policy!Join
  <2> QED
    BY <1>1, <2>4
<1>3. CASE curr \in ready
  <2>1. Lines' = Put(Left(Lines, curr), cprio[curr],
                     Append(Left(Lines, curr)[cprio[curr]], curr))
    BY <1>3, YieldLine
  <2>2. cprio' = [cprio EXCEPT ![curr] = cprio[curr]] /\ cprio[curr] \in CorePrios
    BY <1>1
  <2>3. (curr \notin blocked)' = (curr \notin blocked)
    BY <1>1
  <2>4. Policy!Move(curr, cprio[curr])
    BY <1>1, <1>3, <2>1, <2>2, <2>3, PolicyMoves
  <2> QED
    BY <1>1, <2>4
<1> QED
  BY <1>2, <1>3

\* A change of priority moves its thread.
LEMMA PrioChangeMoves ==
  ASSUME FifoIInv, NEW t \in Threads,
         \/ \E prio \in AskedPrios : evl_set_schedparam(t, prio)
         \/ \E u \in Threads : evl_track_priority(t, u)
         \/ evl_untrack_priority(t)
  PROVE  \E p \in CorePrios : Policy!Move(t, p)
<1>1. PrioMoves(t) /\ UNCHANGED <<blocked, curr>>
  BY PrioActions
<1>2. PICK p \in CorePrios : cprio' = [cprio EXCEPT ![t] = p]
  BY PrioActions
<1>3. cprio'[t] = p
  BY <1>2 DEF FifoIInv, FifoTypeOK
<1>4. PrioMoved(t)
  BY <1>1, PrioMovesLine
<1>5. /\ t \notin ready => Lines' = Lines
      /\ t \in ready =>
           \/ Lines' = Put(Left(Lines, t), p, Append(Left(Lines, t)[p], t))
           \/ Lines' = Put(Left(Lines, t), p, <<t>> \o Left(Lines, t)[p])
  BY <1>3, <1>4 DEF PrioMoved
<1>6. UNCHANGED curr /\ (curr \notin blocked)' = (curr \notin blocked)
  BY <1>1
<1> QED
  BY <1>2, <1>5, <1>6, PolicyMoves

\* The choice of the next thread is a turn.
LEMMA PickTurns ==
  ASSUME FifoIInv, Pick
  PROVE  Policy!Turn
<1> DEFINE line == [o \in CorePrios |-> Line(o)]
           back == (curr \notin blocked) /\ curr # Root /\ ~Policy!Waiting(curr)
           all  == IF back THEN [line EXCEPT ![cprio[curr]] = <<curr>> \o @] ELSE line
           used == {o \in CorePrios : all[o] # <<>>}
<1>1. line = Lines /\ line' = Lines'
  BY PolicyLines, PolicyNextLines
<1>2. back <=> Preempted
  BY PolicyLines DEF Preempted
<1> HIDE DEF back, line
<1>3. all = All
  BY <1>1, <1>2 DEF All, Put
<1>4. /\ Linked \in SUBSET (Threads \ blocked)
      /\ LinesOK(All, cprio, Linked)
      /\ Linked = {} => curr' = Root /\ ready' = {} /\ Lines' = All
      /\ Linked # {} =>
           /\ Best(All, cprio, Linked, curr')
           /\ ready' = Linked \ {curr'}
           /\ Lines' = Put(All, cprio[curr'], Tail(All[cprio[curr']]))
  BY PickLine
<1>5. UNCHANGED <<cprio, blocked>> /\ blocked \in SUBSET Threads
  BY DEF Pick, FifoIInv, FifoTypeOK
<1> HIDE DEF all
<1>6. ASSUME NEW o \in used
      PROVE  \E u \in Linked : cprio[u] = o
  <2>1. o \in CorePrios /\ All[o] # <<>>
    BY <1>3
  <2>2. All[o] \in Seq(Threads) /\ Elems(All[o]) = {u \in Linked : cprio[u] = o}
    BY <2>1, <1>4 DEF LinesOK
  <2>3. 1 \in 1 .. Len(All[o])
    BY <2>1, <2>2, EmptySeq, LenProperties
  <2>4. All[o][1] \in Elems(All[o])
    BY <2>3 DEF Elems
  <2> QED
    BY <2>2, <2>4
<1>7. ASSUME NEW u \in Linked
      PROVE  cprio[u] \in used
  <2>1. cprio[u] \in CorePrios
    BY <1>4 DEF FifoIInv, FifoTypeOK
  <2>2. u \in Elems(All[cprio[u]])
    BY <2>1, <1>4 DEF LinesOK
  <2>3. All[cprio[u]] # <<>>
    BY <2>2 DEF Elems
  <2> QED
    BY <2>1, <2>3, <1>3
<1> HIDE DEF used
<1>8. IF used = {}
      THEN curr' = Root /\ line' = all
      ELSE \E p \in used : /\ \A o \in used : o <= p
                           /\ curr' = Head(all[p])
                           /\ line' = [all EXCEPT ![p] = Tail(@)]
  <2>1. CASE Linked = {}
    BY <2>1, <1>1, <1>3, <1>4, <1>6
  <2>2. CASE Linked # {}
    <3> DEFINE p == cprio[curr']
    <3>1. Best(All, cprio, Linked, curr')
      BY <2>2, <1>4
    <3>2. curr' \in Linked /\ (\A u \in Linked : cprio[u] <= p) /\ curr' = Head(All[p])
      BY <3>1 DEF Best
    <3>3. p \in used
      BY <3>2, <1>7
    <3> HIDE DEF p
    <3>4. \A o \in used : o <= p
      BY <3>2, <1>6
    <3>5. line' = [all EXCEPT ![p] = Tail(@)]
      BY <2>2, <1>1, <1>3, <1>4 DEF Put, p
    <3> QED
      BY <3>2, <3>3, <3>4, <3>5, <1>3
  <2> QED
    BY <2>1, <2>2
<1>9. (curr \notin blocked)' = TRUE
  BY <1>4, <1>5, FifoAssumption DEF Best
<1> QED
  BY <1>5, <1>8, <1>9 DEF Policy!Turn, used, all, back, line

(***************************************************************************)
(* Both queues implement the policy of SCHED_FIFO: one line for each       *)
(* priority, served in turn, the highest first.                            *)
(***************************************************************************)
THEOREM FifoImplementsPolicy == Spec => ImplementsFifo
<1>1. Init => Policy!Init
  <2> SUFFICES ASSUME Init PROVE Policy!Init
    OBVIOUS
  <2>1. cprio \in [Threads -> CorePrios] /\ scalable \in BOOLEAN
    BY DEF Init
  <2>2. QueueOK(scalable, runnable, cprio, {})
    BY <2>1, QueueInit DEF Init
  <2>3. Lines = [p \in CorePrios |-> <<>>]
    BY <2>1, <2>2, QueueLines, NoLines DEF Lines
  <2>4. [p \in CorePrios |-> Line(p)] = Lines
    BY DEF Line, Lines, LinesOf, MlqLines, ListLines
  <2>5. (curr \notin blocked) = TRUE /\ curr = Root
    BY FifoAssumption DEF Init
  <2> QED
    BY <2>1, <2>3, <2>4, <2>5 DEF Policy!Init
<1>2. FifoIInv /\ [Next]_fifoVars => [Policy!Next]_(Policy!policyVars)
  <2> SUFFICES ASSUME FifoIInv, [Next]_fifoVars
               PROVE  Policy!Next \/ UNCHANGED Policy!policyVars
    OBVIOUS
  <2>1. ASSUME NEW t \in Threads, Release(t) PROVE Policy!Next
    BY <2>1, ReleaseJoins DEF Policy!Next
  <2>2. ASSUME NEW t \in Threads, Hold(t) PROVE Policy!Next
    BY <2>2, HoldLeaves DEF Policy!Next
  <2>3. ASSUME NEW t \in Threads,
               \/ \E prio \in AskedPrios : evl_set_schedparam(t, prio)
               \/ \E u \in Threads : evl_track_priority(t, u)
               \/ evl_untrack_priority(t)
        PROVE  Policy!Next
    BY <2>3, PrioChangeMoves DEF Policy!Next
  <2>4. CASE evl_sched_yield
    <3>1. curr \in Threads /\ cprio[curr] \in CorePrios
      BY <2>4, YieldMoves DEF FifoIInv, FifoTypeOK
    <3> QED
      BY <2>4, <3>1, YieldMoves DEF Policy!Next
  <2>5. CASE Pick
    BY <2>5, PickTurns DEF Policy!Next
  <2>6. CASE UNCHANGED fifoVars
    BY <2>6 DEF fifoVars, Policy!policyVars, Line
  <2> QED
    BY <2>1, <2>2, <2>3, <2>4, <2>5, <2>6 DEF Next
<1> QED
  BY <1>1, <1>2, FifoInvariant, PTL DEF Spec, ImplementsFifo, Policy!Spec
=============================================================================
