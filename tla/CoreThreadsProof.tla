-------------------------- MODULE CoreThreadsProof --------------------------
(***************************************************************************)
(* Proofs about the locks of threads (EvlThread), for any finite set of    *)
(* CPUs, and about scheduling classes (SchedClasses).                      *)
(***************************************************************************)
EXTENDS EvlThread, SchedClasses, FiniteSetTheorems, SequenceTheorems, TLAPS

(***************************************************************************)
(* The locks of threads.  Each operation holds the first of its locks, in  *)
(* the order channel, threads by address, runqueue, and a lock is held by  *)
(* one CPU.                                                                *)
(***************************************************************************)
Upto2(k, l) == {<< >>, <<k>>, <<k, l>>}
Upto3(k, l, m) == {<< >>, <<k>>, <<k, l>>, <<k, l, m>>}

OneThread(a, t) ==
  /\ a.threads = <<t>>
  /\ \/ a.op = "pin" /\ a.held \in Upto2(Thread(t), Rq(thread_rq[t]))
     \/ a.op = "unpin" /\ \E r \in Rqs : a.held = <<Thread(t), Rq(r)>>
     \/ a.op = "look" /\ a.held \in {<< >>, <<Thread(t)>>}
     \/ a.op = "requeue" /\ a.held \in Upto2(Wchan(a.wchan), Thread(t))
     \/ /\ a.op \in {"wait", "wake"}
        /\ a.held \in Upto3(Wchan(a.wchan), Thread(t), Rq(thread_rq[t]))

TwoThreads(a, t, u) ==
  /\ a.op = "double"
  /\ t < u /\ a.threads \in {<<t, u>>, <<u, t>>}
  /\ a.held \in Upto2(Thread(t), Thread(u))

InOrder(a) ==
  \/ a.op = "none" /\ a.held = << >>
  \/ \E t \in Addresses : OneThread(a, t)
  \/ \E t, u \in Addresses : TwoThreads(a, t, u)

AllLocks ==
  {Thread(t) : t \in Addresses} \cup {Rq(r) : r \in Rqs} \cup {Wchan(w) : w \in Wchans \cup {NoWchan}}

OpNames == {"none", "pin", "unpin", "look", "requeue", "double", "wait", "wake"}
Operations == [op : OpNames, threads : Seq(Addresses),
               wchan : Wchans \cup {NoWchan}, held : Seq(AllLocks)]

ThreadTypeOK ==
  /\ thread_rq \in [Addresses -> Rqs]
  /\ wprio \in [Addresses -> Weights]
  /\ wchan \in [Addresses -> Wchans \cup {NoWchan}]
  /\ info \in [Addresses -> SUBSET {"EVL_T_WCHAN"}]
  /\ order \in [Addresses -> Weights]
  /\ agent \in [Agents -> Operations]

LocksInOrder == \A c \in Agents : InOrder(agent[c])

LocksExclusive ==
  \A b, c \in Agents : \A l : Holds(b, l) /\ Holds(c, l) => b = c

ThreadIInv == ThreadTypeOK /\ LocksInOrder /\ LocksExclusive /\ RequeueOwed

LEMMA OneAndTwo ==
  ASSUME NEW k, NEW l, NEW m
  PROVE  <<k>> \o <<l, m>> = <<k, l, m>>
<1>. DEFINE S == {k, l, m}
<1>1. <<k>> \in Seq(S) /\ <<l, m>> \in Seq(S) /\ <<k, l, m>> \in Seq(S)
  OBVIOUS
<1>. HIDE DEF S
<1>2. /\ <<k>> \o <<l, m>> \in Seq(S)
      /\ Len(<<k>> \o <<l, m>>) = Len(<<k>>) + Len(<<l, m>>)
      /\ \A i \in 1 .. Len(<<k>>) + Len(<<l, m>>) : (<<k>> \o <<l, m>>)[i] =
           IF i <= Len(<<k>>) THEN <<k>>[i] ELSE <<l, m>>[i - Len(<<k>>)]
  BY <1>1, ConcatProperties, Zenon
<1>. DEFINE c == <<k>> \o <<l, m>>
<1>. HIDE DEF c
<1>3. Len(c) = 3 /\ c \in Seq(S)
  BY <1>2 DEF c
<1>4. c[1] = k /\ c[2] = l /\ c[3] = m
  BY <1>2 DEF c
<1>5. \A i \in 1 .. Len(c) : c[i] = <<k, l, m>>[i]
  BY <1>3, <1>4
<1>6. c = <<k, l, m>>
  BY <1>1, <1>3, <1>5, SeqEqual
<1>. QED
  BY <1>6 DEF c

(* A lock is appended to those held.                                       *)
LEMMA Appended ==
  ASSUME NEW S, NEW k \in S, NEW l \in S, NEW m \in S
  PROVE  /\ Append(<< >>, k) = <<k>> /\ <<k>> \in Seq(S)
         /\ Append(<<k>>, l) = <<k, l>> /\ <<k, l>> \in Seq(S)
         /\ Append(<<k, l>>, m) = <<k, l, m>> /\ <<k, l, m>> \in Seq(S)
<1>1. << >> \in Seq(S) /\ <<k>> \in Seq(S) /\ <<k, l>> \in Seq(S) /\ <<k, l, m>> \in Seq(S)
  OBVIOUS
<1>2. Append(<< >>, k) = <<k>>
  OBVIOUS
<1>3. Append(<<k>>, l) = <<k, l>>
  <2>. DEFINE c == Append(<<k>>, l)
  <2>1. c \in Seq(S) /\ Len(c) = 2 /\ c[1] = k /\ c[2] = l
    BY <1>1, AppendProperties
  <2>. HIDE DEF c
  <2>2. \A i \in 1 .. Len(c) : c[i] = <<k, l>>[i]
    BY <2>1
  <2>3. c = <<k, l>>
    BY <1>1, <2>1, <2>2, SeqEqual
  <2>. QED
    BY <2>3 DEF c
<1>4. Append(<<k, l>>, m) = <<k, l, m>>
  <2>. DEFINE c == Append(<<k, l>>, m)
  <2>1. c \in Seq(S) /\ Len(c) = 3 /\ c[1] = k /\ c[2] = l /\ c[3] = m
    BY <1>1, AppendProperties
  <2>. HIDE DEF c
  <2>2. \A i \in 1 .. Len(c) : c[i] = <<k, l, m>>[i]
    BY <2>1
  <2>3. c = <<k, l, m>>
    BY <1>1, <2>1, <2>2, SeqEqual
  <2>. QED
    BY <2>3 DEF c
<1>. QED
  BY <1>1, <1>2, <1>3, <1>4

(* The locks of each operation.                                            *)
LEMMA LocksOfOne ==
  ASSUME NEW a, NEW t \in Addresses, a.threads = <<t>>
  PROVE  /\ a.op = "pin" => Locks(a) = <<Thread(t), Rq(thread_rq[t])>>
         /\ a.op = "look" => Locks(a) = <<Thread(t)>>
         /\ a.op = "requeue" => Locks(a) = <<Wchan(a.wchan), Thread(t)>>
         /\ a.op \in {"wait", "wake"} =>
              Locks(a) = <<Wchan(a.wchan), Thread(t), Rq(thread_rq[t])>>
<1>1. a.threads[1] = t
  OBVIOUS
<1>2. evl_get_thread_rq(a.threads[1]) = <<Thread(t), Rq(thread_rq[t])>>
  BY <1>1, Zenon DEF evl_get_thread_rq
<1>3. CASE a.op = "pin"
  BY <1>2, <1>3 DEF Locks
<1>4. CASE a.op = "look"
  BY <1>1, <1>4 DEF Locks
<1>5. CASE a.op = "requeue"
  BY <1>1, <1>5 DEF Locks
<1>6. CASE a.op \in {"wait", "wake"}
  <2>1. Locks(a) = <<Wchan(a.wchan)>> \o <<Thread(t), Rq(thread_rq[t])>>
    BY <1>2, <1>6 DEF Locks
  <2>2. <<Wchan(a.wchan)>> \o <<Thread(t), Rq(thread_rq[t])>>
          = <<Wchan(a.wchan), Thread(t), Rq(thread_rq[t])>>
    BY OneAndTwo
  <2>. QED
    BY <1>6, <2>1, <2>2
<1>. QED
  BY <1>3, <1>4, <1>5, <1>6

LEMMA LocksOfTwo ==
  ASSUME NEW a, NEW t \in Addresses, NEW u \in Addresses, t < u,
         a.op = "double", a.threads \in {<<t, u>>, <<u, t>>}
  PROVE  Locks(a) = <<Thread(t), Thread(u)>>
  BY ThreadAssumption DEF Locks, evl_double_thread_lock

LEMMA LocksOfOthers ==
  ASSUME NEW a, a.op \in {"none", "unpin"}
  PROVE  Locks(a) = a.held
  BY DEF Locks

(***************************************************************************)
(* The locks of a set of CPUs that all wait rise for ever: there is a      *)
(* highest one, for the set is finite.                                     *)
(***************************************************************************)
Height(l) == IF l[1] = "thread" THEN l[2] + 1 ELSE 0

LEMMA Highest ==
  ASSUME NEW S, IsFiniteSet(S), S # {}, NEW f, \A x \in S : f[x] \in Int
  PROVE  \E m \in S : \A x \in S : f[x] <= f[m]
<1>. DEFINE Tops(Q) == {m \in Q : \A x \in Q : f[x] <= f[m]}
            Bad == {Q \in SUBSET S : Q # {} /\ Tops(Q) = {}}
<1>. SUFFICES ASSUME Tops(S) = {} PROVE FALSE
  OBVIOUS
<1>1. S \in Bad
  OBVIOUS
<1>2. IsWellFoundedOn(StrictSubsetOrdering(S), SUBSET S)
  BY FS_StrictSubsetOrderingWellFounded, FS_FiniteSubsetsOfFinite
<1>3. Bad \subseteq SUBSET S /\ Bad # {}
  BY <1>1
<1>. HIDE DEF Bad
<1>4. PICK Q \in Bad : \A P \in Bad : <<P, Q>> \notin StrictSubsetOrdering(S)
  BY <1>2, <1>3, WFMin, Zenon
<1>. USE DEF Bad
<1>5. PICK q \in Q : TRUE
  BY <1>4
<1>6. <<Q \ {q}, Q>> \in StrictSubsetOrdering(S)
  BY <1>4, <1>5 DEF StrictSubsetOrdering
<1>7. Q \ {q} \notin Bad
  BY <1>4, <1>6
<1>8. CASE Q = {q}
  BY <1>4, <1>8
<1>9. CASE Q # {q}
  <2>1. Q \ {q} # {} /\ Q \ {q} \subseteq S
    BY <1>4, <1>5, <1>9
  <2>2. PICK m \in Q \ {q} : \A x \in Q \ {q} : f[x] <= f[m]
    BY <2>1, <1>7
  <2>3. f[q] \in Int /\ f[m] \in Int /\ \A x \in Q : f[x] \in Int
    BY <1>4, <1>5, <2>2
  <2>4. CASE f[q] <= f[m]
    <3>1. m \in Tops(Q)
      BY <2>2, <2>4
    <3>. QED
      BY <3>1, <1>4
  <2>5. CASE f[m] < f[q]
    <3>1. q \in Tops(Q)
      BY <1>5, <2>2, <2>3, <2>5
    <3>. QED
      BY <3>1, <1>4
  <2>. QED
    BY <2>3, <2>4, <2>5
<1>. QED
  BY <1>8, <1>9

(* A CPU that waits for a lock holds lower ones only.                      *)
LEMMA WaitsUpwards ==
  ASSUME NEW b \in Agents, InOrder(agent[b]), Spins(b), NEW k, Holds(b, k)
  PROVE  /\ Height(k) \in Int /\ k[1] # "rq"
         /\ \/ NextLock(b)[1] = "rq"
            \/ Height(NextLock(b)) \in Int /\ Height(k) < Height(NextLock(b))
<1>. DEFINE a == agent[b]
            Goal == /\ Height(k) \in Int /\ k[1] # "rq"
                    /\ \/ NextLock(b)[1] = "rq"
                       \/ /\ Height(NextLock(b)) \in Int
                          /\ Height(k) < Height(NextLock(b))
<1>a. ASSUME NEW t \in Addresses
      PROVE  Height(Thread(t)) = t + 1 /\ t + 1 \in Nat /\ Thread(t)[1] # "rq"
  BY ThreadAssumption DEF Height, Thread
<1>b. ASSUME NEW w PROVE Height(Wchan(w)) = 0 /\ Wchan(w)[1] # "rq"
  BY DEF Height, Wchan
<1>1. ASSUME a.op \in {"none", "unpin"} PROVE Goal
  BY <1>1, LocksOfOthers DEF Spins
<1>2. ASSUME NEW t \in Addresses, a.threads = <<t>>, a.op = "pin",
             a.held \in Upto2(Thread(t), Rq(thread_rq[t]))
      PROVE  Goal
  <2>1. Locks(a) = <<Thread(t), Rq(thread_rq[t])>>
    BY <1>2, LocksOfOne
  <2>2. a.held = <<Thread(t)>>
    BY <1>2, <2>1 DEF Spins, Upto2, Holds
  <2>3. k = Thread(t) /\ NextLock(b)[1] = "rq"
    BY <2>1, <2>2 DEF NextLock, Rq, Holds
  <2>. QED
    BY <1>a, <2>3
<1>3. ASSUME NEW t \in Addresses, a.threads = <<t>>, a.op = "look",
             a.held \in {<< >>, <<Thread(t)>>}
      PROVE  Goal
  <2>1. Locks(a) = <<Thread(t)>>
    BY <1>3, LocksOfOne
  <2>. QED
    BY <1>3, <2>1 DEF Spins, Holds
<1>4. ASSUME NEW t \in Addresses, a.threads = <<t>>, a.op = "requeue",
             a.held \in Upto2(Wchan(a.wchan), Thread(t))
      PROVE  Goal
  <2>1. Locks(a) = <<Wchan(a.wchan), Thread(t)>>
    BY <1>4, LocksOfOne
  <2>2. a.held = <<Wchan(a.wchan)>>
    BY <1>4, <2>1 DEF Spins, Upto2, Holds
  <2>3. k = Wchan(a.wchan) /\ NextLock(b) = Thread(t)
    BY <2>1, <2>2 DEF NextLock, Holds
  <2>4. Height(k) = 0 /\ k[1] # "rq" /\ Height(NextLock(b)) = t + 1
    BY <1>a, <1>b, <2>3, Zenon
  <2>. QED
    BY <2>4, ThreadAssumption
<1>5. ASSUME NEW t \in Addresses, a.threads = <<t>>, a.op \in {"wait", "wake"},
             a.held \in Upto3(Wchan(a.wchan), Thread(t), Rq(thread_rq[t]))
      PROVE  Goal
  <2>1. Locks(a) = <<Wchan(a.wchan), Thread(t), Rq(thread_rq[t])>>
    BY <1>5, LocksOfOne
  <2>2. a.held = <<Wchan(a.wchan)>> \/ a.held = <<Wchan(a.wchan), Thread(t)>>
    BY <1>5, <2>1 DEF Spins, Upto3, Holds
  <2>3. CASE a.held = <<Wchan(a.wchan)>>
    <3>1. k = Wchan(a.wchan) /\ NextLock(b) = Thread(t)
      BY <2>1, <2>3 DEF NextLock, Holds
    <3>2. Height(k) = 0 /\ k[1] # "rq" /\ Height(NextLock(b)) = t + 1
      BY <1>a, <1>b, <3>1, Zenon
    <3>. QED
      BY <3>2, ThreadAssumption
  <2>4. CASE a.held = <<Wchan(a.wchan), Thread(t)>>
    <3>1. NextLock(b)[1] = "rq" /\ k \in {Wchan(a.wchan), Thread(t)}
      BY <2>1, <2>4 DEF NextLock, Holds, Rq
    <3>2. Height(k) \in {0, t + 1} /\ k[1] # "rq"
      BY <1>a, <1>b, <3>1, Zenon
    <3>. QED
      BY <3>1, <3>2, ThreadAssumption
  <2>. QED
    BY <2>2, <2>3, <2>4
<1>6. ASSUME NEW t \in Addresses, NEW u \in Addresses,
             a.op = "double", t < u, a.threads \in {<<t, u>>, <<u, t>>},
             a.held \in Upto2(Thread(t), Thread(u))
      PROVE  Goal
  <2>1. Locks(a) = <<Thread(t), Thread(u)>>
    BY <1>6, LocksOfTwo
  <2>2. a.held = <<Thread(t)>>
    BY <1>6, <2>1 DEF Spins, Upto2, Holds
  <2>3. k = Thread(t) /\ NextLock(b) = Thread(u)
    BY <2>1, <2>2 DEF NextLock, Holds
  <2>4. Height(k) = t + 1 /\ k[1] # "rq" /\ Height(NextLock(b)) = u + 1
    BY <1>a, <2>3, Zenon
  <2>. QED
    BY <1>6, <2>4, ThreadAssumption
<1>. HIDE DEF Goal
<1>7. Goal
  <2>1. CASE \E t \in Addresses : OneThread(a, t)
    <3>1. PICK t \in Addresses : OneThread(a, t)
      BY <2>1
    <3>2. CASE a.op = "unpin"
      BY <1>1, <3>2
    <3>3. CASE a.op = "pin"
      BY <1>2, <3>1, <3>3 DEF OneThread
    <3>4. CASE a.op = "look"
      BY <1>3, <3>1, <3>4 DEF OneThread
    <3>5. CASE a.op = "requeue"
      BY <1>4, <3>1, <3>5 DEF OneThread
    <3>6. CASE a.op \in {"wait", "wake"}
      BY <1>5, <3>1, <3>6 DEF OneThread
    <3>. QED
      BY <3>1, <3>2, <3>3, <3>4, <3>5, <3>6 DEF OneThread
  <2>2. CASE \E t, u \in Addresses : TwoThreads(a, t, u)
    BY <1>6, <2>2, Zenon DEF TwoThreads
  <2>3. CASE a.op = "none"
    BY <1>1, <2>3
  <2>. QED
    BY <2>1, <2>2, <2>3, Zenon DEF InOrder
<1>. QED
  BY <1>7 DEF Goal

(* Whatever CPUs: one of them does not wait for another.                   *)
LEMMA NoCycle == LocksInOrder => NoLockCycle
<1>. SUFFICES ASSUME LocksInOrder, NEW S \in (SUBSET Agents) \ {{}},
                     \A c \in S : Spins(c) /\ \E b \in S : Holds(b, NextLock(c))
              PROVE  FALSE
  BY DEF NoLockCycle
<1>1. IsFiniteSet(S) /\ S # {}
  <2>1. S \subseteq Agents /\ S # {}
    OBVIOUS
  <2>. QED
    BY <2>1, ThreadAssumption, FS_Subset
<1>2. ASSUME NEW c \in S
      PROVE  /\ Height(NextLock(c)) \in Int
             /\ \E b \in S : Height(NextLock(c)) < Height(NextLock(b))
  <2>1. PICK b \in S : Holds(b, NextLock(c))
    OBVIOUS
  <2>2. PICK d \in S : Holds(d, NextLock(b))
    OBVIOUS
  <2>3. InOrder(agent[b]) /\ InOrder(agent[d]) /\ b \in Agents /\ d \in Agents
    BY DEF LocksInOrder
  <2>4. NextLock(b)[1] # "rq"
    BY <2>2, <2>3, WaitsUpwards
  <2>. QED
    BY <2>1, <2>3, <2>4, WaitsUpwards
<1>. DEFINE f == [c \in S |-> Height(NextLock(c))]
<1>3. \A c \in S : f[c] \in Int /\ \E b \in S : f[c] < f[b]
  BY <1>2
<1>. HIDE DEF f
<1>4. PICK m \in S : \A c \in S : f[c] <= f[m]
  BY <1>1, <1>3, Highest
<1>. QED
  BY <1>3, <1>4

(* A fresh operation holds no lock.                                        *)
LEMMA OperationType ==
  /\ NoOp \in Operations /\ NoOp.op = "none" /\ NoOp.held = << >>
  /\ \A name \in OpNames, q \in Seq(Addresses), w \in Wchans \cup {NoWchan} :
       /\ Op(name, q, w) \in Operations
       /\ Op(name, q, w).op = name /\ Op(name, q, w).threads = q
       /\ Op(name, q, w).wchan = w /\ Op(name, q, w).held = << >>
<1>1. << >> \in Seq(AllLocks) /\ << >> \in Seq(Addresses)
  OBVIOUS
<1>2. ASSUME NEW name \in OpNames, NEW q \in Seq(Addresses),
             NEW w \in Wchans \cup {NoWchan}
      PROVE  /\ Op(name, q, w) \in Operations
             /\ Op(name, q, w).op = name /\ Op(name, q, w).threads = q
             /\ Op(name, q, w).wchan = w /\ Op(name, q, w).held = << >>
  BY <1>1 DEF Op, Operations
<1>3. "none" \in OpNames /\ NoWchan \in Wchans \cup {NoWchan}
  BY DEF OpNames
<1>4. NoOp \in Operations /\ NoOp.op = "none" /\ NoOp.held = << >>
  BY <1>1, <1>3 DEF NoOp, Op, Operations
<1>. QED
  BY <1>2, <1>4, Zenon

LEMMA ThreadInitIInv == ThreadInit => ThreadIInv
<1>. SUFFICES ASSUME ThreadInit PROVE ThreadIInv
  OBVIOUS
<1>1. ThreadTypeOK
  <2>1. NoOp \in Operations
    BY OperationType
  <2>. QED
    BY <2>1 DEF ThreadInit, ThreadTypeOK, NoWchan
<1>2. \A c \in Agents : agent[c].op = "none" /\ agent[c].held = << >>
  BY DEF ThreadInit, NoOp, Op
<1>3. LocksInOrder /\ LocksExclusive
  BY <1>2 DEF LocksInOrder, InOrder, LocksExclusive, Holds
<1>4. RequeueOwed
  BY DEF ThreadInit, RequeueOwed, NoWchan
<1>. QED
  BY <1>1, <1>3, <1>4 DEF ThreadIInv

(* The CPU moves on to another operation, holding locks it held or none.   *)
LEMMA GoesExclusive ==
  ASSUME ThreadTypeOK, LocksExclusive, NEW c \in Agents, NEW a, Goes(c, a),
         a.held \in {<< >>, agent[c].held}
  PROVE  LocksExclusive'
<1>1. agent'[c] = a /\ \A b \in Agents : b # c => agent'[b] = agent[b]
  BY DEF ThreadTypeOK, Goes
<1>2. \A b \in Agents : \A k : Holds(b, k)' => Holds(b, k)
  BY <1>1 DEF Holds
<1>. QED
  BY <1>2 DEF LocksExclusive

LEMMA ThreadNextExclusive == ThreadTypeOK /\ LocksExclusive /\ [ThreadNext]_threadVars => LocksExclusive'
<1>. SUFFICES ASSUME ThreadTypeOK, LocksExclusive, [ThreadNext]_threadVars
              PROVE  LocksExclusive'
  OBVIOUS
<1>1. CASE UNCHANGED threadVars
  BY <1>1 DEF threadVars, LocksExclusive, Holds
<1>2. ASSUME NEW c \in Agents, Acquire(c) PROVE LocksExclusive'
  <2>. DEFINE l == NextLock(c)
              h == agent[c].held
  <2>1. agent' = [agent EXCEPT ![c].held = Append(h, l)] /\ \A b \in Agents : ~Holds(b, l)
    BY <1>2 DEF Acquire
  <2>. HIDE DEF l
  <2>. DEFINE S == AllLocks \cup {l}
  <2>2. h \in Seq(AllLocks) /\ h \in Seq(S)
    BY DEF ThreadTypeOK, Operations
  <2>2a. agent'[c].held = Append(h, l)
    BY <2>1 DEF ThreadTypeOK, Operations
  <2>. HIDE DEF S, h
  <2>2b. DOMAIN h = 1..Len(h) /\ Len(h) \in Nat /\ l \in S
    BY <2>2 DEF S
  <2>2c. /\ Append(h, l) \in Seq(S) /\ Len(Append(h, l)) = Len(h) + 1
         /\ \A i \in 1 .. Len(h) + 1 : Append(h, l)[i] = IF i <= Len(h) THEN h[i] ELSE l
    BY <2>2, <2>2b, AppendProperties
  <2>3. \A k : Holds(c, k)' => Holds(c, k) \/ k = l
    BY <2>2, <2>2a, <2>2b, <2>2c DEF Holds, h
  <2>4. \A b \in Agents : \A k : b # c => (Holds(b, k)' <=> Holds(b, k))
    BY <2>1 DEF ThreadTypeOK, Holds
  <2>. QED
    BY <2>1, <2>3, <2>4 DEF LocksExclusive
<1>3. ASSUME NEW c \in Agents, Begin(c) PROVE LocksExclusive'
  BY <1>3, GoesExclusive DEF Begin, Op
<1>4. ASSUME NEW c \in Agents, Pinned(c) PROVE LocksExclusive'
  <2>1. PICK a : Goes(c, a) /\ a.held = agent[c].held
    BY <1>4 DEF Pinned, ThreadTypeOK, Operations
  <2>. QED
    BY <2>1, GoesExclusive
<1>5. ASSUME NEW c \in Agents, NEW a, Goes(c, a), a.held = << >> PROVE LocksExclusive'
  BY <1>5, GoesExclusive
<1>6. ASSUME NEW c \in Agents,
             \/ evl_put_thread_rq_check(c) \/ LookUpWchan(c)
             \/ evl_adjust_wait_priority(c) \/ evl_double_thread_unlock(c)
             \/ Wait(c) \/ WakeUp(c)
      PROVE  \E a : Goes(c, a) /\ a.held = << >>
  <2>1. CASE evl_put_thread_rq_check(c)
    BY <2>1 DEF evl_put_thread_rq_check, NoOp, Op
  <2>2. CASE LookUpWchan(c)
    BY <2>2 DEF LookUpWchan, NoOp, Op
  <2>3. CASE evl_adjust_wait_priority(c)
    BY <2>3 DEF evl_adjust_wait_priority, NoOp, Op
  <2>4. CASE evl_double_thread_unlock(c)
    BY <2>4 DEF evl_double_thread_unlock, NoOp, Op
  <2>5. CASE Wait(c)
    BY <2>5 DEF Wait, NoOp, Op
  <2>6. CASE WakeUp(c)
    BY <2>6 DEF WakeUp, NoOp, Op
  <2>. QED
    BY <1>6, <2>1, <2>2, <2>3, <2>4, <2>5, <2>6
<1>. QED
  BY <1>1, <1>2, <1>3, <1>4, <1>5, <1>6 DEF ThreadNext

(* One lock more keeps the order.                                          *)
LEMMA NextInOrder ==
  ASSUME ThreadTypeOK, NEW c \in Agents, InOrder(agent[c]), Spins(c), NEW a,
         a = [agent[c] EXCEPT !.held = Append(@, NextLock(c))]
  PROVE  a \in Operations /\ InOrder(a)
<1>. DEFINE o == agent[c]
            Goal == a \in Operations /\ InOrder(a)
<1>0. o \in Operations
  BY DEF ThreadTypeOK
<1>a. ASSUME NEW h \in Seq(AllLocks), a = [o EXCEPT !.held = h]
      PROVE  /\ a \in Operations /\ a.op = o.op /\ a.threads = o.threads
             /\ a.wchan = o.wchan /\ a.held = h
  BY <1>0, <1>a DEF Operations
<1>b. ASSUME NEW t \in Addresses
      PROVE  Thread(t) \in AllLocks /\ Rq(thread_rq[t]) \in AllLocks
  BY DEF ThreadTypeOK, AllLocks
<1>c. Wchan(o.wchan) \in AllLocks
  BY <1>0 DEF Operations, AllLocks
<1>d. ASSUME NEW k \in AllLocks, NEW l \in AllLocks, NEW m \in AllLocks
      PROVE  /\ Append(<< >>, k) = <<k>> /\ <<k>> \in Seq(AllLocks)
             /\ Append(<<k>>, l) = <<k, l>> /\ <<k, l>> \in Seq(AllLocks)
             /\ Append(<<k, l>>, m) = <<k, l, m>> /\ <<k, l, m>> \in Seq(AllLocks)
  BY Appended
\* What is held, and what is next.
<1>e. ASSUME NEW k, NEW l, o.held \in Upto2(k, l), Locks(o) = <<k, l>>
      PROVE  \/ o.held = << >> /\ NextLock(c) = k
             \/ o.held = <<k>> /\ NextLock(c) = l
  BY <1>e DEF Upto2, Spins, NextLock
<1>f. ASSUME NEW k, NEW l, NEW m, o.held \in Upto3(k, l, m), Locks(o) = <<k, l, m>>
      PROVE  \/ o.held = << >> /\ NextLock(c) = k
             \/ o.held = <<k>> /\ NextLock(c) = l
             \/ o.held = <<k, l>> /\ NextLock(c) = m
  <2>1. Len(o.held) # 3 /\ NextLock(c) = <<k, l, m>>[Len(o.held) + 1]
    BY <1>f DEF Spins, NextLock
  <2>2. CASE o.held = << >>
    BY <2>1, <2>2
  <2>3. CASE o.held = <<k>>
    BY <2>1, <2>3
  <2>4. CASE o.held = <<k, l>>
    BY <2>1, <2>4
  <2>5. CASE o.held = <<k, l, m>>
    BY <2>1, <2>5
  <2>. QED
    BY <1>f, <2>2, <2>3, <2>4, <2>5 DEF Upto3
<1>g. a = [o EXCEPT !.held = Append(o.held, NextLock(c))]
  OBVIOUS
<1>h. ASSUME NEW k \in AllLocks, NEW l \in AllLocks,
             o.held \in Upto2(k, l), Locks(o) = <<k, l>>
      PROVE  /\ a \in Operations /\ a.op = o.op /\ a.threads = o.threads
             /\ a.wchan = o.wchan /\ a.held \in Upto2(k, l)
  <2>1. \E h \in {<<k>>, <<k, l>>} : h \in Seq(AllLocks) /\ a = [o EXCEPT !.held = h]
    <3>1. CASE o.held = << >> /\ NextLock(c) = k
      BY <1>d, <1>g, <3>1
    <3>2. CASE o.held = <<k>> /\ NextLock(c) = l
      BY <1>d, <1>g, <3>2
    <3>. QED
      BY <1>e, <1>h, <3>1, <3>2
  <2>. QED
    BY <1>a, <2>1 DEF Upto2
<1>i. ASSUME NEW k \in AllLocks, NEW l \in AllLocks, NEW m \in AllLocks,
             o.held \in Upto3(k, l, m), Locks(o) = <<k, l, m>>
      PROVE  /\ a \in Operations /\ a.op = o.op /\ a.threads = o.threads
             /\ a.wchan = o.wchan /\ a.held \in Upto3(k, l, m)
  <2>1. \E h \in {<<k>>, <<k, l>>, <<k, l, m>>} :
          h \in Seq(AllLocks) /\ a = [o EXCEPT !.held = h]
    <3>1. CASE o.held = << >> /\ NextLock(c) = k
      BY <1>d, <1>g, <3>1
    <3>2. CASE o.held = <<k>> /\ NextLock(c) = l
      BY <1>d, <1>g, <3>2
    <3>3. CASE o.held = <<k, l>> /\ NextLock(c) = m
      BY <1>d, <1>g, <3>3
    <3>. QED
      BY <1>f, <1>i, <3>1, <3>2, <3>3
  <2>. QED
    BY <1>a, <2>1 DEF Upto3
<1>. HIDE DEF o
<1>1. ASSUME o.op \in {"none", "unpin"} PROVE Goal
  BY <1>1, LocksOfOthers DEF Spins, o
<1>2. ASSUME NEW t \in Addresses, OneThread(o, t), o.op = "pin" PROVE Goal
  <2>1. o.held \in Upto2(Thread(t), Rq(thread_rq[t])) /\ o.threads = <<t>>
    BY <1>2 DEF OneThread
  <2>2. Locks(o) = <<Thread(t), Rq(thread_rq[t])>>
    BY <1>2, <2>1, LocksOfOne
  <2>3. /\ a \in Operations /\ a.op = o.op /\ a.threads = o.threads
        /\ a.held \in Upto2(Thread(t), Rq(thread_rq[t]))
    BY <1>b, <1>h, <2>1, <2>2
  <2>. QED
    BY <1>2, <2>1, <2>3 DEF InOrder, OneThread
<1>3. ASSUME NEW t \in Addresses, OneThread(o, t), o.op = "look" PROVE Goal
  <2>1. o.held \in {<< >>, <<Thread(t)>>} /\ o.threads = <<t>>
    BY <1>3 DEF OneThread
  <2>2. Locks(o) = <<Thread(t)>>
    BY <1>3, <2>1, LocksOfOne
  <2>3. o.held = << >> /\ NextLock(c) = Thread(t)
    BY <2>1, <2>2 DEF Spins, NextLock, o
  <2>4. a = [o EXCEPT !.held = <<Thread(t)>>] /\ <<Thread(t)>> \in Seq(AllLocks)
    BY <1>b, <1>d, <1>g, <2>3
  <2>5. a \in Operations /\ a.op = o.op /\ a.threads = o.threads /\ a.held = <<Thread(t)>>
    BY <1>a, <2>4
  <2>. QED
    BY <1>3, <2>1, <2>5 DEF InOrder, OneThread
<1>4. ASSUME NEW t \in Addresses, OneThread(o, t), o.op = "requeue" PROVE Goal
  <2>1. o.held \in Upto2(Wchan(o.wchan), Thread(t)) /\ o.threads = <<t>>
    BY <1>4 DEF OneThread
  <2>2. Locks(o) = <<Wchan(o.wchan), Thread(t)>>
    BY <1>4, <2>1, LocksOfOne
  <2>3. /\ a \in Operations /\ a.op = o.op /\ a.threads = o.threads
        /\ a.wchan = o.wchan /\ a.held \in Upto2(Wchan(o.wchan), Thread(t))
    BY <1>b, <1>c, <1>h, <2>1, <2>2
  <2>. QED
    BY <1>4, <2>1, <2>3 DEF InOrder, OneThread
<1>5. ASSUME NEW t \in Addresses, OneThread(o, t), o.op \in {"wait", "wake"} PROVE Goal
  <2>1. o.held \in Upto3(Wchan(o.wchan), Thread(t), Rq(thread_rq[t])) /\ o.threads = <<t>>
    BY <1>5 DEF OneThread
  <2>2. Locks(o) = <<Wchan(o.wchan), Thread(t), Rq(thread_rq[t])>>
    BY <1>5, <2>1, LocksOfOne
  <2>3. /\ a \in Operations /\ a.op = o.op /\ a.threads = o.threads
        /\ a.wchan = o.wchan
        /\ a.held \in Upto3(Wchan(o.wchan), Thread(t), Rq(thread_rq[t]))
    BY <1>b, <1>c, <1>i, <2>1, <2>2
  <2>. QED
    BY <1>5, <2>1, <2>3 DEF InOrder, OneThread
<1>6. ASSUME NEW t \in Addresses, NEW u \in Addresses, TwoThreads(o, t, u) PROVE Goal
  <2>1. o.held \in Upto2(Thread(t), Thread(u)) /\ Locks(o) = <<Thread(t), Thread(u)>>
    BY <1>6, LocksOfTwo DEF TwoThreads
  <2>2. /\ a \in Operations /\ a.op = o.op /\ a.threads = o.threads
        /\ a.held \in Upto2(Thread(t), Thread(u))
    BY <1>b, <1>h, <2>1
  <2>. QED
    BY <1>6, <2>2 DEF InOrder, TwoThreads
<1>7. Goal
  <2>0. InOrder(o)
    BY DEF o
  <2>1. ASSUME NEW t \in Addresses, OneThread(o, t) PROVE Goal
    <3>1. o.op \in {"pin", "unpin", "look", "requeue", "wait", "wake"}
      BY <2>1 DEF OneThread
    <3>. HIDE DEF Goal
    <3>. QED
      BY <1>1, <1>2, <1>3, <1>4, <1>5, <2>1, <3>1
  <2>. HIDE DEF Goal
  <2>2. ASSUME o.op = "none" PROVE Goal
    BY <1>1, <2>2
  <2>. QED
    BY <1>6, <2>0, <2>1, <2>2, Zenon DEF InOrder
<1>. QED
  BY <1>7

(* A CPU begins or goes on with an operation whose locks are in order, and *)
(* no thread migrates.                                                     *)
LEMMA GoesInOrder ==
  ASSUME ThreadTypeOK, LocksInOrder, NEW c \in Agents, NEW a,
         Goes(c, a), thread_rq' = thread_rq, a \in Operations, InOrder(a)
  PROVE  agent' \in [Agents -> Operations] /\ LocksInOrder'
<1>1. /\ agent' \in [Agents -> Operations] /\ agent'[c] = a
      /\ \A b \in Agents : b # c => agent'[b] = agent[b]
  BY DEF ThreadTypeOK, Goes
<1>2. ASSUME NEW o, InOrder(o) PROVE InOrder(o)'
  BY <1>2 DEF InOrder, OneThread, TwoThreads
<1>3. ASSUME NEW b \in Agents PROVE InOrder(agent[b])'
  <2>1. CASE b = c
    <3>1. PICK o : o = agent'[b]
      OBVIOUS
    <3>2. InOrder(o)'
      BY <1>1, <1>2, <2>1, <3>1
    <3>. QED
      BY <3>1, <3>2 DEF InOrder, OneThread, TwoThreads
  <2>2. CASE b # c
    <3>1. PICK o : o = agent'[b]
      OBVIOUS
    <3>2. InOrder(o)'
      BY <1>1, <1>2, <2>2, <3>1 DEF LocksInOrder
    <3>. QED
      BY <3>1, <3>2 DEF InOrder, OneThread, TwoThreads
  <2>. QED
    BY <2>1, <2>2
<1>. QED
  BY <1>1, <1>3 DEF LocksInOrder

LEMMA SubjectOf ==
  ASSUME ThreadTypeOK, LocksInOrder, NEW c \in Agents,
         agent[c].op \notin {"none", "double"}
  PROVE  /\ Subject(c) \in Addresses /\ agent[c].threads = <<Subject(c)>>
         /\ OneThread(agent[c], Subject(c))
<1>1. PICK t \in Addresses : OneThread(agent[c], t)
  BY DEF LocksInOrder, InOrder, TwoThreads
<1>2. agent[c].threads = <<t>> /\ Subject(c) = t
  BY <1>1 DEF OneThread, Subject
<1>. QED
  BY <1>1, <1>2

(* A thread that is pinned, or about to be unpinned, is locked.            *)
LEMMA PinnedIsLocked ==
  ASSUME ThreadTypeOK, LocksInOrder, NEW c \in Agents,
         Does(c, "pin") \/ Does(c, "unpin")
  PROVE  /\ Subject(c) \in Addresses /\ Holds(c, Thread(Subject(c)))
         /\ \E r \in Rqs : agent[c].held = <<Thread(Subject(c)), Rq(r)>>
<1>. DEFINE t == Subject(c)
<1>1. t \in Addresses /\ agent[c].threads = <<t>> /\ OneThread(agent[c], t)
  BY SubjectOf DEF Does
<1>. HIDE DEF t
<1>2. CASE Does(c, "unpin")
  BY <1>1, <1>2 DEF OneThread, Does, Holds, t
<1>3. CASE Does(c, "pin")
  <2>1. Locks(agent[c]) = <<Thread(t), Rq(thread_rq[t])>>
    BY <1>1, <1>3, LocksOfOne DEF Does
  <2>2. agent[c].held = <<Thread(t), Rq(thread_rq[t])>>
    BY <1>1, <1>3, <2>1 DEF OneThread, Does, Spins, Upto2
  <2>. QED
    BY <1>1, <2>2 DEF ThreadTypeOK, Holds, t
<1>. QED
  BY <1>2, <1>3

(* A CPU that knows the runqueue of a thread has the thread locked.        *)
LEMMA RqUnderThread ==
  ASSUME NEW b \in Agents, NEW t \in Addresses, OneThread(agent[b], t),
         ~Holds(b, Thread(t)), thread_rq' \in [Addresses -> Rqs],
         agent'[b] = agent[b]
  PROVE  OneThread(agent[b], t)'
<1>1. CASE agent[b].op = "pin"
  <2>1. agent[b].held = << >>
    BY <1>1 DEF OneThread, Upto2, Holds
  <2>. QED
    BY <1>1, <2>1 DEF OneThread, Upto2
<1>2. CASE agent[b].op \in {"wait", "wake"}
  <2>1. agent[b].held \in {<< >>, <<Wchan(agent[b].wchan)>>}
    BY <1>2 DEF OneThread, Upto3, Holds
  <2>. QED
    BY <1>2, <2>1 DEF OneThread, Upto3
<1>3. CASE agent[b].op \notin {"pin", "wait", "wake"}
  BY <1>3 DEF OneThread
<1>. QED
  BY <1>1, <1>2, <1>3

LEMMA PinnedInOrder ==
  ASSUME ThreadTypeOK, LocksInOrder, LocksExclusive, NEW c \in Agents, Pinned(c)
  PROVE  agent' \in [Agents -> Operations] /\ LocksInOrder'
<1>. DEFINE t == Subject(c)
<1>1. /\ t \in Addresses /\ Holds(c, Thread(t))
      /\ \E r \in Rqs : agent[c].held = <<Thread(t), Rq(r)>>
      /\ agent[c].threads = <<t>>
  BY PinnedIsLocked, SubjectOf DEF Pinned, Does
<1>2. Goes(c, [agent[c] EXCEPT !.op = "unpin"])
  BY DEF Pinned
<1>3. /\ agent' \in [Agents -> Operations] /\ agent'[c] = [agent[c] EXCEPT !.op = "unpin"]
      /\ \A b \in Agents : b # c => agent'[b] = agent[b]
  BY <1>2 DEF Goes, ThreadTypeOK, Operations, OpNames
<1>4. /\ thread_rq' \in [Addresses -> Rqs]
      /\ \A u \in Addresses : u # t => thread_rq'[u] = thread_rq[u]
  BY <1>1 DEF Pinned, SetPriority, MigrateThread, ThreadTypeOK
<1>. HIDE DEF t
<1>5. /\ agent'[c].op = "unpin" /\ agent'[c].threads = <<t>>
      /\ agent'[c].held = agent[c].held
  BY <1>1, <1>3 DEF ThreadTypeOK, Operations
<1>6. InOrder(agent[c])'
  BY <1>1, <1>5 DEF InOrder, OneThread
<1>7. ASSUME NEW b \in Agents, b # c PROVE InOrder(agent[b])'
  <2>1. ~Holds(b, Thread(t)) /\ agent'[b] = agent[b]
    BY <1>1, <1>3, <1>7 DEF LocksExclusive
  <2>2. CASE agent[b].op = "none" /\ agent[b].held = << >>
    BY <2>1, <2>2 DEF InOrder
  <2>3. CASE \E u \in Addresses : OneThread(agent[b], u)
    <3>1. PICK u \in Addresses : OneThread(agent[b], u)
      BY <2>3
    <3>2. CASE u = t
      <4>1. OneThread(agent[b], u)'
        BY <1>4, <2>1, <3>1, <3>2, RqUnderThread
      <4>. QED
        BY <4>1 DEF InOrder
    <3>3. CASE u # t
      <4>1. OneThread(agent[b], u)'
        BY <1>4, <2>1, <3>1, <3>3 DEF OneThread
      <4>. QED
        BY <4>1 DEF InOrder
    <3>. QED
      BY <3>2, <3>3
  <2>4. CASE \E u, v \in Addresses : TwoThreads(agent[b], u, v)
    BY <2>1, <2>4 DEF InOrder, TwoThreads
  <2>. QED
    BY <2>2, <2>3, <2>4 DEF LocksInOrder, InOrder
<1>. QED
  BY <1>3, <1>6, <1>7 DEF LocksInOrder

LEMMA ThreadNextOrder ==
  ThreadTypeOK /\ LocksInOrder /\ LocksExclusive /\ [ThreadNext]_threadVars
    => ThreadTypeOK' /\ LocksInOrder'
<1>. SUFFICES ASSUME ThreadTypeOK, LocksInOrder, LocksExclusive, [ThreadNext]_threadVars
              PROVE  ThreadTypeOK' /\ LocksInOrder'
  OBVIOUS
<1>a. ASSUME UNCHANGED threadData, agent' \in [Agents -> Operations]
      PROVE  ThreadTypeOK'
  BY <1>a DEF ThreadTypeOK, threadData
<1>z. << >> \in Seq(AllLocks)
  OBVIOUS
<1>b. NoOp \in Operations /\ InOrder(NoOp)
  BY OperationType DEF InOrder
<1>1. CASE UNCHANGED threadVars
  BY <1>1 DEF threadVars, threadData, ThreadTypeOK, LocksInOrder, InOrder,
     OneThread, TwoThreads
<1>2. ASSUME NEW c \in Agents, Begin(c) PROVE ThreadTypeOK' /\ LocksInOrder'
  <2>1. ASSUME NEW name \in OpNames, NEW t \in Addresses, NEW w \in Wchans \cup {NoWchan},
               name \in {"pin", "wait", "wake"}
        PROVE  Op(name, <<t>>, w) \in Operations /\ InOrder(Op(name, <<t>>, w))
    <3>1. <<t>> \in Seq(Addresses)
      OBVIOUS
    <3>2. PICK o : o = Op(name, <<t>>, w)
      OBVIOUS
    <3>3. /\ o \in Operations /\ o.op = name /\ o.threads = <<t>> /\ o.held = << >>
      BY <1>z, <2>1, <3>1, <3>2 DEF Op, Operations
    <3>4. OneThread(o, t)
      BY <2>1, <3>3 DEF OneThread, Upto2, Upto3
    <3>. QED
      BY <3>2, <3>3, <3>4 DEF InOrder
  <2>2. ASSUME NEW t \in Addresses, NEW u \in Addresses, t # u
        PROVE  /\ Op("double", <<t, u>>, NoWchan) \in Operations
               /\ InOrder(Op("double", <<t, u>>, NoWchan))
    <3>1. <<t, u>> \in Seq(Addresses) /\ "double" \in OpNames /\ (t < u \/ u < t)
          /\ NoWchan \in Wchans \cup {NoWchan}
      BY <2>2, ThreadAssumption DEF OpNames
    <3>2. PICK o : o = Op("double", <<t, u>>, NoWchan)
      OBVIOUS
    <3>3. /\ o \in Operations /\ o.op = "double" /\ o.threads = <<t, u>> /\ o.held = << >>
      BY <1>z, <3>1, <3>2 DEF Op, Operations
    <3>4. TwoThreads(o, t, u) \/ TwoThreads(o, u, t)
      BY <3>1, <3>3 DEF TwoThreads, Upto2
    <3>. QED
      BY <3>2, <3>3, <3>4 DEF InOrder
  <2>3. PICK a : Goes(c, a) /\ a \in Operations /\ InOrder(a)
    BY <1>2, <2>1, <2>2 DEF Begin, OpNames
  <2>4. thread_rq' = thread_rq /\ UNCHANGED threadData
    BY <1>2 DEF Begin, threadData
  <2>. QED
    BY <1>a, <2>3, <2>4, GoesInOrder
<1>3. ASSUME NEW c \in Agents, Acquire(c) PROVE ThreadTypeOK' /\ LocksInOrder'
  <2>1. PICK a : a = [agent[c] EXCEPT !.held = Append(@, NextLock(c))]
    OBVIOUS
  <2>2. Goes(c, a) /\ Spins(c) /\ thread_rq' = thread_rq /\ UNCHANGED threadData
    BY <1>3, <2>1 DEF Acquire, Goes, threadData
  <2>3. a \in Operations /\ InOrder(a)
    BY <2>1, <2>2, NextInOrder DEF LocksInOrder
  <2>. QED
    BY <1>a, <2>2, <2>3, GoesInOrder
<1>4. ASSUME NEW c \in Agents, Pinned(c) PROVE ThreadTypeOK' /\ LocksInOrder'
  <2>1. Subject(c) \in Addresses
    BY <1>4, PinnedIsLocked DEF Pinned
  <2>2. agent' \in [Agents -> Operations] /\ LocksInOrder'
    BY <1>4, PinnedInOrder
  <2>. QED
    BY <1>4, <2>1, <2>2 DEF Pinned, SetPriority, MigrateThread, ThreadTypeOK
<1>5. ASSUME NEW c \in Agents, evl_put_thread_rq_check(c)
      PROVE  ThreadTypeOK' /\ LocksInOrder'
  <2>1. Subject(c) \in Addresses
    BY <1>5, PinnedIsLocked DEF evl_put_thread_rq_check
  <2>2. PICK a : a = Op("look", <<Subject(c)>>, NoWchan)
    OBVIOUS
  <2>3. <<Subject(c)>> \in Seq(Addresses) /\ "look" \in OpNames
        /\ NoWchan \in Wchans \cup {NoWchan}
    BY <2>1 DEF OpNames
  <2>4. /\ a \in Operations /\ a.op = "look" /\ a.threads = <<Subject(c)>> /\ a.held = << >>
    BY <1>z, <2>2, <2>3 DEF Op, Operations
  <2>5. InOrder(a)
    BY <2>1, <2>4 DEF InOrder, OneThread
  <2>6. PICK o : Goes(c, o) /\ o \in Operations /\ InOrder(o)
    BY <1>b, <1>5, <2>2, <2>4, <2>5 DEF evl_put_thread_rq_check
  <2>7. agent' \in [Agents -> Operations] /\ LocksInOrder'
    BY <1>5, <2>6, GoesInOrder DEF evl_put_thread_rq_check
  <2>. QED
    BY <1>5, <2>1, <2>7 DEF evl_put_thread_rq_check, ThreadTypeOK
<1>6. ASSUME NEW c \in Agents, LookUpWchan(c) PROVE ThreadTypeOK' /\ LocksInOrder'
  <2>1. Subject(c) \in Addresses
    BY <1>6, SubjectOf DEF LookUpWchan, Does
  <2>. DEFINE w == wchan[Subject(c)]
  <2>2. PICK a : a = Op("requeue", <<Subject(c)>>, w)
    OBVIOUS
  <2>3. <<Subject(c)>> \in Seq(Addresses) /\ "requeue" \in OpNames
        /\ w \in Wchans \cup {NoWchan}
    BY <2>1 DEF OpNames, ThreadTypeOK
  <2>4. /\ a \in Operations /\ a.op = "requeue" /\ a.threads = <<Subject(c)>>
        /\ a.held = << >>
    BY <1>z, <2>2, <2>3 DEF Op, Operations
  <2>5. InOrder(a)
    BY <2>1, <2>4 DEF InOrder, OneThread, Upto2
  <2>6. PICK o : Goes(c, o) /\ o \in Operations /\ InOrder(o)
    BY <1>b, <1>6, <2>2, <2>4, <2>5 DEF LookUpWchan
  <2>7. agent' \in [Agents -> Operations] /\ LocksInOrder'
    BY <1>6, <2>6, GoesInOrder DEF LookUpWchan, threadData
  <2>. QED
    BY <1>a, <1>6, <2>7 DEF LookUpWchan
<1>7. ASSUME NEW c \in Agents, evl_adjust_wait_priority(c)
      PROVE  ThreadTypeOK' /\ LocksInOrder'
  <2>1. Subject(c) \in Addresses
    BY <1>7, SubjectOf DEF evl_adjust_wait_priority, Does
  <2>2. PICK a : a = Op("look", <<Subject(c)>>, NoWchan)
    OBVIOUS
  <2>3. <<Subject(c)>> \in Seq(Addresses) /\ "look" \in OpNames
        /\ NoWchan \in Wchans \cup {NoWchan}
    BY <2>1 DEF OpNames
  <2>4. /\ a \in Operations /\ a.op = "look" /\ a.threads = <<Subject(c)>> /\ a.held = << >>
    BY <1>z, <2>2, <2>3 DEF Op, Operations
  <2>5. InOrder(a)
    BY <2>1, <2>4 DEF InOrder, OneThread
  <2>6. PICK o : Goes(c, o) /\ o \in Operations /\ InOrder(o)
    BY <1>b, <1>7, <2>2, <2>4, <2>5 DEF evl_adjust_wait_priority
  <2>7. agent' \in [Agents -> Operations] /\ LocksInOrder'
    BY <1>7, <2>6, GoesInOrder DEF evl_adjust_wait_priority
  <2>. QED
    BY <1>7, <2>1, <2>7 DEF evl_adjust_wait_priority, ThreadTypeOK
<1>8. ASSUME NEW c \in Agents,
             evl_double_thread_unlock(c) \/ Wait(c) \/ WakeUp(c)
      PROVE  ThreadTypeOK' /\ LocksInOrder'
  <2>1. Goes(c, NoOp) /\ thread_rq' = thread_rq
    BY <1>8 DEF evl_double_thread_unlock, Wait, WakeUp, threadData
  <2>2. agent' \in [Agents -> Operations] /\ LocksInOrder'
    BY <1>b, <2>1, GoesInOrder
  <2>3. CASE evl_double_thread_unlock(c)
    BY <1>a, <2>2, <2>3 DEF evl_double_thread_unlock
  <2>4. CASE Wait(c)
    <3>1. Subject(c) \in Addresses /\ OneThread(agent[c], Subject(c))
      BY <2>4, SubjectOf DEF Wait, Does
    <3>. QED
      BY <2>2, <2>4, <3>1 DEF Wait, ThreadTypeOK, Operations
  <2>5. CASE WakeUp(c)
    <3>1. Subject(c) \in Addresses
      BY <2>5, SubjectOf DEF WakeUp, Does
    <3>. QED
      BY <2>2, <2>5, <3>1 DEF WakeUp, ThreadTypeOK
  <2>. QED
    BY <1>8, <2>3, <2>4, <2>5
<1>. QED
  BY <1>1, <1>2, <1>3, <1>4, <1>5, <1>6, <1>7, <1>8 DEF ThreadNext

(* Who owes the requeuing of a thread.                                     *)
Owes(c, t) ==
  /\ agent[c].threads = <<t>>
  /\ \/ agent[c].op \in {"look", "requeue"}
     \/ agent[c].op = "unpin" /\ "EVL_T_WCHAN" \in info[t]
Misplaced(t) == wchan[t] # NoWchan /\ order[t] # wprio[t]

LEMMA ThreadNextOwed ==
  ThreadTypeOK /\ LocksInOrder /\ LocksExclusive /\ RequeueOwed /\ [ThreadNext]_threadVars
    => RequeueOwed'
<1>. SUFFICES ASSUME ThreadTypeOK, LocksInOrder, LocksExclusive, RequeueOwed,
                     [ThreadNext]_threadVars, NEW t \in Addresses, Misplaced(t)'
              PROVE  \E c \in Agents : Owes(c, t)'
  BY DEF RequeueOwed, Misplaced, Owes
<1>a. Misplaced(t) => \E c \in Agents : Owes(c, t)
  BY DEF RequeueOwed, Misplaced, Owes
\* The CPU of the step does not owe: who did still does.
<1>b. ASSUME NEW c \in Agents, NEW a, Goes(c, a), Misplaced(t),
             ~Owes(c, t), info'[t] = info[t]
      PROVE  \E d \in Agents : Owes(d, t)'
  <2>1. PICK d \in Agents : Owes(d, t)
    BY <1>a, <1>b
  <2>2. d # c /\ agent'[d] = agent[d]
    BY <1>b, <2>1 DEF Goes, ThreadTypeOK
  <2>. QED
    BY <1>b, <2>1, <2>2 DEF Owes
<1>c. ASSUME NEW c \in Agents, NEW a, Goes(c, a), a.threads = <<t>>,
             \/ a.op \in {"look", "requeue"}
             \/ a.op = "unpin" /\ "EVL_T_WCHAN" \in info'[t]
      PROVE  \E d \in Agents : Owes(d, t)'
  BY <1>c DEF Goes, ThreadTypeOK, Owes
<1>1. CASE UNCHANGED threadVars
  BY <1>1, <1>a DEF threadVars, threadData, Misplaced, Owes
<1>2. ASSUME NEW c \in Agents, Begin(c) \/ evl_double_thread_unlock(c)
      PROVE  \E d \in Agents : Owes(d, t)'
  <2>1. ~Owes(c, t) /\ UNCHANGED threadData /\ \E a : Goes(c, a)
    BY <1>2 DEF Begin, evl_double_thread_unlock, Does, Owes, threadData
  <2>. QED
    BY <1>b, <2>1 DEF threadData, Misplaced
<1>3. ASSUME NEW c \in Agents, Acquire(c)
      PROVE  \E d \in Agents : Owes(d, t)'
  <2>1. PICK d \in Agents : Owes(d, t)
    BY <1>3, <1>a DEF Acquire, threadData, Misplaced
  <2>2. agent'[d].op = agent[d].op /\ agent'[d].threads = agent[d].threads
    BY <1>3 DEF Acquire, ThreadTypeOK, Operations
  <2>3. info' = info
    BY <1>3 DEF Acquire, threadData
  <2>. QED
    BY <2>1, <2>2, <2>3 DEF Owes
<1>4. ASSUME NEW c \in Agents, Pinned(c)
      PROVE  \E d \in Agents : Owes(d, t)'
  <2>1. Subject(c) \in Addresses /\ agent[c].threads = <<Subject(c)>>
    BY <1>4, PinnedIsLocked, SubjectOf DEF Pinned, Does
  <2>2. PICK a : a = [agent[c] EXCEPT !.op = "unpin"]
    OBVIOUS
  <2>3. Goes(c, a) /\ a.op = "unpin" /\ a.threads = <<Subject(c)>> /\ ~Owes(c, t)
    BY <1>4, <2>1, <2>2 DEF Pinned, ThreadTypeOK, Operations, Does, Owes
  <2>4. CASE \E r \in Rqs : MigrateThread(Subject(c), r)
    BY <1>b, <2>3, <2>4 DEF MigrateThread, Misplaced
  <2>5. ASSUME NEW p \in Weights, SetPriority(Subject(c), p)
        PROVE  \E d \in Agents : Owes(d, t)'
    <3>1. CASE Subject(c) = t
      <4>1. "EVL_T_WCHAN" \in info'[t]
        BY <2>5, <3>1 DEF SetPriority, Misplaced, ThreadTypeOK
      <4>. QED
        BY <1>c, <2>3, <3>1, <4>1
    <3>2. CASE Subject(c) # t
      <4>1. Misplaced(t) /\ info'[t] = info[t]
        BY <2>1, <2>5, <3>2 DEF SetPriority, Misplaced, ThreadTypeOK
      <4>. QED
        BY <1>b, <2>3, <4>1
    <3>. QED
      BY <3>1, <3>2
  <2>. QED
    BY <1>4, <2>4, <2>5 DEF Pinned
<1>5. ASSUME NEW c \in Agents, evl_put_thread_rq_check(c)
      PROVE  \E d \in Agents : Owes(d, t)'
  <2>1. /\ Subject(c) \in Addresses /\ agent[c].threads = <<Subject(c)>>
        /\ agent[c].op = "unpin" /\ Holds(c, Thread(Subject(c)))
    BY <1>5, PinnedIsLocked, SubjectOf DEF evl_put_thread_rq_check, Does
  <2>2. Misplaced(t)
    BY <1>5 DEF evl_put_thread_rq_check, Misplaced
  <2>3. CASE Subject(c) # t
    <3>1. ~Owes(c, t) /\ info'[t] = info[t] /\ \E a : Goes(c, a)
      BY <1>5, <2>1, <2>3 DEF evl_put_thread_rq_check, Owes, ThreadTypeOK
    <3>. QED
      BY <1>b, <2>2, <3>1
  <2>4. CASE Subject(c) = t /\ "EVL_T_WCHAN" \in info[t]
    <3>1. PICK a : a = Op("look", <<t>>, NoWchan)
      OBVIOUS
    <3>2. Goes(c, a) /\ a.op = "look" /\ a.threads = <<t>>
      BY <1>5, <2>4, <3>1 DEF evl_put_thread_rq_check, Op
    <3>. QED
      BY <1>c, <3>2
  <2>5. CASE Subject(c) = t /\ "EVL_T_WCHAN" \notin info[t]
    <3>1. PICK d \in Agents : Owes(d, t)
      BY <1>a, <2>2
    <3>2. d # c /\ agent[d].op \in {"look", "requeue"}
      BY <2>1, <2>5, <3>1 DEF Owes
    <3>3. agent'[d] = agent[d]
      BY <1>5, <3>2 DEF evl_put_thread_rq_check, Goes, ThreadTypeOK
    <3>. QED
      BY <3>1, <3>2, <3>3 DEF Owes
  <2>. QED
    BY <2>3, <2>4, <2>5
<1>6. ASSUME NEW c \in Agents, LookUpWchan(c)
      PROVE  \E d \in Agents : Owes(d, t)'
  <2>1. /\ Subject(c) \in Addresses /\ agent[c].threads = <<Subject(c)>>
        /\ agent[c].op = "look"
    BY <1>6, SubjectOf DEF LookUpWchan, Does
  <2>2. Misplaced(t) /\ info' = info
    BY <1>6 DEF LookUpWchan, threadData, Misplaced
  <2>3. CASE Subject(c) # t
    <3>1. ~Owes(c, t) /\ \E a : Goes(c, a)
      BY <1>6, <2>1, <2>3 DEF LookUpWchan, Owes
    <3>. QED
      BY <1>b, <2>2, <3>1
  <2>4. CASE Subject(c) = t
    <3>1. PICK a : a = Op("requeue", <<t>>, wchan[t])
      OBVIOUS
    <3>2. Goes(c, a) /\ a.op = "requeue" /\ a.threads = <<t>>
      BY <1>6, <2>2, <2>4, <3>1 DEF LookUpWchan, Misplaced, Op
    <3>. QED
      BY <1>c, <3>2
  <2>. QED
    BY <2>3, <2>4
<1>7. ASSUME NEW c \in Agents, evl_adjust_wait_priority(c)
      PROVE  \E d \in Agents : Owes(d, t)'
  <2>1. /\ Subject(c) \in Addresses /\ agent[c].threads = <<Subject(c)>>
        /\ agent[c].op = "requeue"
    BY <1>7, SubjectOf DEF evl_adjust_wait_priority, Does
  <2>2. UNCHANGED <<wchan, wprio, info>>
    BY <1>7 DEF evl_adjust_wait_priority
  <2>3. CASE Subject(c) # t
    <3>1. ~Owes(c, t) /\ (\E a : Goes(c, a)) /\ order'[t] = order[t]
      BY <1>7, <2>1, <2>3 DEF evl_adjust_wait_priority, Owes, ThreadTypeOK
    <3>. QED
      BY <1>b, <2>2, <3>1 DEF Misplaced
  <2>4. CASE Subject(c) = t /\ wchan[t] = agent[c].wchan
    <3>1. order'[t] = wprio[t]
      BY <1>7, <2>4 DEF evl_adjust_wait_priority, ThreadTypeOK
    <3>. QED
      BY <2>2, <3>1 DEF Misplaced
  <2>5. CASE Subject(c) = t /\ wchan[t] # agent[c].wchan
    <3>1. PICK a : a = Op("look", <<t>>, NoWchan)
      OBVIOUS
    <3>2. Goes(c, a) /\ a.op = "look" /\ a.threads = <<t>>
      BY <1>7, <2>5, <3>1 DEF evl_adjust_wait_priority, Op
    <3>. QED
      BY <1>c, <3>2
  <2>. QED
    BY <2>3, <2>4, <2>5
<1>8. ASSUME NEW c \in Agents, Wait(c)
      PROVE  \E d \in Agents : Owes(d, t)'
  <2>1. ~Owes(c, t) /\ Goes(c, NoOp) /\ UNCHANGED <<wprio, info>>
    BY <1>8 DEF Wait, Does, Owes
  <2>2. Subject(c) \in Addresses
    BY <1>8, SubjectOf DEF Wait, Does
  <2>3. CASE Subject(c) = t /\ wchan[t] = NoWchan
    <3>1. order'[t] = wprio[t]
      BY <1>8, <2>3 DEF Wait, ThreadTypeOK
    <3>. QED
      BY <2>1, <3>1 DEF Misplaced
  <2>4. CASE ~(Subject(c) = t /\ wchan[t] = NoWchan)
    <3>1. wchan'[t] = wchan[t] /\ order'[t] = order[t]
      BY <1>8, <2>2, <2>4 DEF Wait, ThreadTypeOK
    <3>. QED
      BY <1>b, <2>1, <3>1 DEF Misplaced
  <2>. QED
    BY <2>3, <2>4
<1>9. ASSUME NEW c \in Agents, WakeUp(c)
      PROVE  \E d \in Agents : Owes(d, t)'
  <2>1. ~Owes(c, t) /\ Goes(c, NoOp) /\ UNCHANGED <<wprio, info, order>>
    BY <1>9 DEF WakeUp, Does, Owes
  <2>2. wchan'[t] # NoWchan => wchan'[t] = wchan[t]
    BY <1>9 DEF WakeUp, ThreadTypeOK
  <2>. QED
    BY <1>b, <2>1, <2>2 DEF Misplaced
<1>. QED
  BY <1>1, <1>2, <1>3, <1>4, <1>5, <1>6, <1>7, <1>8, <1>9 DEF ThreadNext

(* ThreadIInv is an inductive invariant of the locks of threads            *)
(* (evl/thread.h, evl/sched.h).                                            *)
THEOREM ThreadInvariant == ThreadSpec => []ThreadIInv
<1>1. ThreadInit => ThreadIInv
  BY ThreadInitIInv
<1>2. ThreadIInv /\ [ThreadNext]_threadVars => ThreadIInv'
  BY ThreadNextOrder, ThreadNextExclusive, ThreadNextOwed DEF ThreadIInv
<1>. QED
  BY <1>1, <1>2, PTL DEF ThreadSpec

(* No set of CPUs wait for each other in evl_double_thread_lock(),         *)
(* evl_get_thread_rq() and under the lock of a channel, whatever threads   *)
(* they are about.                                                         *)
THEOREM ThreadNoLockCycle == ThreadSpec => []NoLockCycle
<1>1. ThreadIInv => NoLockCycle
  BY NoCycle DEF ThreadIInv
<1>. QED
  BY <1>1, ThreadInvariant, PTL

(* EVL_T_WCHAN and evl_put_thread_rq_check() leave no waiter in the place  *)
(* of an old priority.                                                     *)
THEOREM ThreadRequeueOwed == ThreadSpec => []RequeueOwed
<1>1. ThreadIInv => RequeueOwed
  BY DEF ThreadIInv
<1>. QED
  BY <1>1, ThreadInvariant, PTL

-----------------------------------------------------------------------------
(***************************************************************************)
(* Scheduling classes.  A thread keeps its settings in agreement, and the  *)
(* idle class, which does not touch the weak state when a boost ends,      *)
(* finds it clear.                                                         *)
(***************************************************************************)
Fields == [base_class : Classes \cup {NoClass}, sched_class : Classes \cup {NoClass},
           bprio : Int, cprio : Int, wprio : Int,
           state : SUBSET {"WEAK", "BOOST", "READY"},
           linked : Classes \cup {NoClass}]

Settled(th) ==
  /\ th.base_class \in Classes /\ th.sched_class \in Classes
  /\ EffectiveSettings(th) /\ InRightQueue(th)
  /\ th.base_class = "idle" => th.bprio = EVL_IDLE_PRIO /\ "WEAK" \notin th.state

Based(c) == {t \in Threads : thread[t].base_class = c}

ClassIInv ==
  /\ thread \in [Threads -> Fields]
  /\ \A t \in Threads : thread[t] = NewThread \/ Settled(thread[t])
  /\ nthreads \in [Classes -> Int]
  /\ \A c \in Classes : nthreads[c] = Cardinality(Based(c))

LEMMA Weights3 ==
  /\ \A c \in Classes : weight(c) \in Int
  /\ \A c \in Classes, p \in Int : evl_calc_weighted_prio(c, p) \in Int
<1>1. \A c \in Classes : weight(c) \in Int
  BY ClassesAssumption DEF Classes, weight, EVL_CLASS_WEIGHT
<1>. QED
  BY <1>1 DEF evl_calc_weighted_prio

(* Out of the queue, the thread is in none.                                *)
Taken(th) == IF "READY" \in th.state THEN evl_dequeue_thread(th) ELSE th

LEMMA TakenFields ==
  ASSUME NEW th \in Fields, InRightQueue(th)
  PROVE  /\ Taken(th) \in Fields /\ Taken(th).linked = NoClass
         /\ Taken(th).base_class = th.base_class /\ Taken(th).sched_class = th.sched_class
         /\ Taken(th).bprio = th.bprio /\ Taken(th).cprio = th.cprio
         /\ Taken(th).wprio = th.wprio /\ Taken(th).state = th.state
  BY DEF Taken, evl_dequeue_thread, Fields, InRightQueue, Classes, NoClass

(* Back in the queue of its class, the thread is where it will be looked   *)
(* for.                                                                    *)
LEMMA RelinkedFields ==
  ASSUME NEW old \in Fields, NEW th \in Fields, th.linked = NoClass,
         "READY" \in old.state <=> "READY" \in th.state
  PROVE  /\ Relinked(old, th) \in Fields /\ InRightQueue(Relinked(old, th))
         /\ Relinked(old, th).base_class = th.base_class
         /\ Relinked(old, th).sched_class = th.sched_class
         /\ Relinked(old, th).bprio = th.bprio /\ Relinked(old, th).cprio = th.cprio
         /\ Relinked(old, th).wprio = th.wprio /\ Relinked(old, th).state = th.state
  BY DEF Relinked, evl_enqueue_thread, Fields, InRightQueue, Classes, NoClass

LEMMA RelinkedSettled ==
  ASSUME NEW old \in Fields, NEW th \in Fields, th.linked = NoClass,
         "READY" \in old.state <=> "READY" \in th.state,
         th.base_class \in Classes, th.sched_class \in Classes, EffectiveSettings(th),
         th.base_class = "idle" => th.bprio = EVL_IDLE_PRIO /\ "WEAK" \notin th.state
  PROVE  Relinked(old, th) \in Fields /\ Settled(Relinked(old, th))
  BY RelinkedFields DEF Settled, EffectiveSettings

LEMMA WeightedFields ==
  ASSUME NEW th \in Fields, th.sched_class \in Classes
  PROVE  /\ Weighted(th) \in Fields /\ Weighted(th).linked = th.linked
         /\ Weighted(th).base_class = th.base_class
         /\ Weighted(th).sched_class = th.sched_class
         /\ Weighted(th).bprio = th.bprio /\ Weighted(th).cprio = th.cprio
         /\ Weighted(th).wprio = evl_calc_weighted_prio(th.sched_class, th.cprio)
         /\ Weighted(th).state = th.state
<1>1. evl_calc_weighted_prio(th.sched_class, th.cprio) \in Int
  BY Weights3 DEF Fields
<1>. QED
  BY <1>1 DEF Weighted, Fields

(* What the class of a thread does with a priority.                        *)
LEMMA SchedparamFields ==
  ASSUME NEW th \in Fields, th.base_class \in Classes, NEW prio \in Int
  PROVE  LET set == evl_set_schedparam(th, prio) IN
         /\ set \in Fields /\ set.linked = th.linked
         /\ set.base_class = th.base_class /\ set.sched_class = th.sched_class
         /\ set.wprio = th.wprio /\ set.bprio = prio
         /\ set.cprio = IF Denied(th, prio) THEN th.cprio ELSE prio
         /\ \A b \in {"BOOST", "READY"} : b \in set.state <=> b \in th.state
         /\ "BOOST" \notin th.state =>
              ("WEAK" \in set.state <=> th.base_class = "weak")
         /\ th.base_class = "idle" => "WEAK" \notin set.state
<1>. DEFINE set == evl_set_schedparam(th, prio)
            cp == IF Denied(th, prio) THEN th.cprio ELSE prio
            drop == th.state \ {"WEAK"}
<1>a. ASSUME NEW s \in SUBSET {"WEAK", "BOOST", "READY"},
             set = [th EXCEPT !.bprio = prio, !.cprio = cp, !.state = s]
      PROVE  /\ set \in Fields /\ set.linked = th.linked
             /\ set.base_class = th.base_class /\ set.sched_class = th.sched_class
             /\ set.wprio = th.wprio /\ set.bprio = prio
             /\ set.cprio = cp /\ set.state = s
  <2>1. cp \in Int
    BY DEF Fields
  <2>. HIDE DEF cp, set
  <2>. QED
    BY <1>a, <2>1 DEF Fields
<1>b. th.state \in SUBSET {"WEAK", "BOOST", "READY"}
  BY DEF Fields
<1>1. CASE th.base_class = "idle"
  <2>1. set = [th EXCEPT !.bprio = prio, !.cprio = cp, !.state = drop]
    BY <1>1 DEF evl_set_schedparam, __evl_set_idle_schedparam,
       evl_set_effective_thread_priority, Denied, Fields
  <2>2. drop \in SUBSET {"WEAK", "BOOST", "READY"}
    BY <1>b
  <2>3. /\ set \in Fields /\ set.linked = th.linked
        /\ set.base_class = th.base_class /\ set.sched_class = th.sched_class
        /\ set.wprio = th.wprio /\ set.bprio = prio
        /\ set.cprio = cp /\ set.state = drop
    BY <1>a, <2>1, <2>2
  <2>. HIDE DEF set
  <2>. QED
    BY <1>1, <2>3 DEF set
<1>2. CASE th.base_class = "weak"
  <2>. DEFINE s == IF "BOOST" \in th.state THEN th.state ELSE th.state \cup {"WEAK"}
  <2>1. set = [th EXCEPT !.bprio = prio, !.cprio = cp, !.state = s]
    BY <1>2 DEF evl_set_schedparam, SetWeakParam, evl_set_effective_thread_priority, Fields
  <2>2. s \in SUBSET {"WEAK", "BOOST", "READY"}
    BY <1>b
  <2>3. /\ set \in Fields /\ set.linked = th.linked
        /\ set.base_class = th.base_class /\ set.sched_class = th.sched_class
        /\ set.wprio = th.wprio /\ set.bprio = prio
        /\ set.cprio = cp /\ set.state = s
    BY <1>a, <2>1, <2>2
  <2>. QED
    BY <1>2, <2>3
<1>3. CASE th.base_class = "fifo"
  <2>. DEFINE s == IF "BOOST" \in th.state THEN th.state ELSE drop
  <2>1. set = [th EXCEPT !.bprio = prio, !.cprio = cp, !.state = s]
    BY <1>3 DEF evl_set_schedparam, __evl_set_fifo_schedparam,
       evl_set_effective_thread_priority, Fields
  <2>2. s \in SUBSET {"WEAK", "BOOST", "READY"}
    BY <1>b
  <2>3. /\ set \in Fields /\ set.linked = th.linked
        /\ set.base_class = th.base_class /\ set.sched_class = th.sched_class
        /\ set.wprio = th.wprio /\ set.bprio = prio
        /\ set.cprio = cp /\ set.state = s
    BY <1>a, <2>1, <2>2
  <2>. QED
    BY <1>3, <2>3
<1>. QED
  BY <1>1, <1>2, <1>3 DEF Classes

-----------------------------------------------------------------------------
Change(old, new, c) ==
  CASE new.base_class = c /\ old.base_class # c -> 1
    [] new.base_class # c /\ old.base_class = c -> -1
    [] OTHER -> 0

(* When one thread changes, and its old and new classes count the change,  *)
(* the invariant only has to be checked for that thread.                   *)
LEMMA OneMember ==
  ASSUME ClassIInv, NEW t \in Threads, NEW new \in Fields,
         new = NewThread \/ Settled(new),
         thread' = [thread EXCEPT ![t] = new],
         nthreads' \in [Classes -> Int],
         \A c \in Classes : nthreads'[c] = nthreads[c] + Change(thread[t], new, c)
  PROVE  ClassIInv'
<1>1. thread' \in [Threads -> Fields]
  BY DEF ClassIInv
<1>2. \A u \in Threads : thread'[u] = NewThread \/ Settled(thread'[u])
  BY DEF ClassIInv
<1>3. ASSUME NEW c \in Classes
      PROVE  nthreads'[c] = Cardinality(Based(c)')
  <2>1. IsFiniteSet(Based(c)) /\ Cardinality(Based(c)) \in Nat
    BY ClassesAssumption, FS_Subset, FS_CardinalityType DEF Based
  <2>2. nthreads[c] = Cardinality(Based(c)) /\ nthreads[c] \in Int
    BY DEF ClassIInv
  <2>3. nthreads'[c] = nthreads[c] + Change(thread[t], new, c)
    OBVIOUS
  <2>4. CASE new.base_class = c /\ thread[t].base_class # c
    <3>1. Based(c)' = Based(c) \cup {t} /\ t \notin Based(c)
      BY <2>4, <1>1 DEF Based, ClassIInv
    <3>2. Cardinality(Based(c)') = Cardinality(Based(c)) + 1
      BY <3>1, <2>1, FS_AddElement
    <3>3. Change(thread[t], new, c) = 1
      BY <2>4 DEF Change
    <3>. QED
      BY <3>2, <3>3, <2>2, <2>3
  <2>5. CASE new.base_class # c /\ thread[t].base_class = c
    <3>1. Based(c)' = Based(c) \ {t} /\ t \in Based(c)
      BY <2>5, <1>1 DEF Based, ClassIInv
    <3>2. Cardinality(Based(c)') = Cardinality(Based(c)) - 1
      BY <3>1, <2>1, FS_RemoveElement
    <3>3. Change(thread[t], new, c) = -1
      BY <2>5 DEF Change
    <3>. QED
      BY <3>2, <3>3, <2>1, <2>2, <2>3
  <2>6. CASE new.base_class = c <=> thread[t].base_class = c
    <3>1. Based(c)' = Based(c)
      BY <2>6, <1>1 DEF Based, ClassIInv
    <3>3. Change(thread[t], new, c) = 0
      BY <2>6 DEF Change
    <3>. QED
      BY <3>1, <3>3, <2>2, <2>3
  <2>. QED
    BY <2>4, <2>5, <2>6
<1>. QED
  BY <1>1, <1>2, <1>3 DEF ClassIInv

(* The thread stays in its class.                                          *)
LEMMA SameBase ==
  ASSUME ClassIInv, NEW t \in Threads, NEW new \in Fields,
         Settled(new), new.base_class = thread[t].base_class,
         thread' = [thread EXCEPT ![t] = new], nthreads' = nthreads
  PROVE  ClassIInv'
<1>1. \A c \in Classes : Change(thread[t], new, c) = 0
  BY DEF Change
<1>2. /\ nthreads' \in [Classes -> Int]
      /\ \A c \in Classes : nthreads'[c] = nthreads[c] + Change(thread[t], new, c)
  BY <1>1 DEF ClassIInv
<1>. QED
  BY <1>2, OneMember

LEMMA AliveSettled ==
  ASSUME ClassIInv, NEW t \in Threads, Alive(t)
  PROVE  /\ thread[t] \in Fields /\ Settled(thread[t])
         /\ InRightQueue(thread[t]) /\ EffectiveSettings(thread[t])
BY DEF ClassIInv, Alive, NewThread, Settled

(* What a boost does: the thread takes the class, and a priority that is   *)
(* worth more in it, of another one or of a ceiling.                       *)
LEMMA BoostedSettled ==
  ASSUME NEW old \in Fields, Settled(old), NEW class \in Classes, NEW prio \in Int,
         evl_calc_weighted_prio(class, prio) > old.wprio
  PROVE  LET up == [Taken(old) EXCEPT !.state = @ \cup {"BOOST"}, !.sched_class = class]
             new == Weighted([up EXCEPT !.cprio = prio])
         IN  /\ Relinked(old, new) \in Fields /\ Settled(Relinked(old, new))
             /\ Relinked(old, new).base_class = old.base_class
<1>. DEFINE up == [Taken(old) EXCEPT !.state = @ \cup {"BOOST"}, !.sched_class = class]
            uq == [up EXCEPT !.cprio = prio]
            new == Weighted(uq)
<1>1. /\ Taken(old) \in Fields /\ Taken(old).linked = NoClass
      /\ Taken(old).base_class = old.base_class /\ Taken(old).bprio = old.bprio
      /\ Taken(old).state = old.state
  BY TakenFields DEF Settled
<1>2. /\ uq \in Fields /\ uq.linked = NoClass /\ uq.sched_class = class
      /\ uq.base_class = old.base_class /\ uq.bprio = old.bprio /\ uq.cprio = prio
      /\ uq.state = old.state \cup {"BOOST"}
  <2>1. PICK o \in Fields : o = Taken(old)
    BY <1>1
  <2>. QED
    BY <1>1, <2>1 DEF Fields
<1>. HIDE DEF uq
<1>3. /\ new \in Fields /\ new.linked = NoClass /\ new.sched_class = class
      /\ new.base_class = old.base_class /\ new.bprio = old.bprio /\ new.cprio = prio
      /\ new.wprio = evl_calc_weighted_prio(class, prio)
      /\ new.state = old.state \cup {"BOOST"}
  BY <1>2, WeightedFields
<1>. HIDE DEF new
<1>4. /\ evl_calc_weighted_prio(class, prio) \in Int
      /\ old.wprio \in Int /\ old.bprio \in Int /\ old.base_class \in Classes
      /\ evl_calc_weighted_prio(old.base_class, old.bprio) \in Int
      /\ old.wprio >= evl_calc_weighted_prio(old.base_class, old.bprio)
  BY Weights3 DEF Fields, Settled, EffectiveSettings
<1>5. EffectiveSettings(new)
  BY <1>3, <1>4 DEF EffectiveSettings
<1>6. new.base_class = "idle" => new.bprio = EVL_IDLE_PRIO /\ "WEAK" \notin new.state
  BY <1>3 DEF Settled
<1>7. /\ Relinked(old, new) \in Fields /\ Settled(Relinked(old, new))
      /\ Relinked(old, new).base_class = new.base_class
  BY <1>3, <1>4, <1>5, <1>6, RelinkedSettled, RelinkedFields
<1>. QED
  BY <1>3, <1>7 DEF new, uq

(* What the drop of a boost does: the thread takes its base class and      *)
(* priority back.                                                          *)
LEMMA DroppedSettled ==
  ASSUME NEW old \in Fields, Settled(old)
  PROVE  LET down == [Taken(old) EXCEPT !.state = @ \ {"BOOST"},
                                        !.sched_class = Taken(old).base_class]
             new == Weighted(TrackBase(down))
         IN  /\ Relinked(old, new) \in Fields /\ Settled(Relinked(old, new))
             /\ Relinked(old, new).base_class = old.base_class
<1>. DEFINE down == [Taken(old) EXCEPT !.state = @ \ {"BOOST"},
                                       !.sched_class = Taken(old).base_class]
            back == TrackBase(down)
            new == Weighted(back)
<1>1. /\ Taken(old) \in Fields /\ Taken(old).linked = NoClass
      /\ Taken(old).base_class = old.base_class /\ Taken(old).bprio = old.bprio
      /\ Taken(old).state = old.state
  BY TakenFields DEF Settled
<1>2. /\ down \in Fields /\ down.linked = NoClass /\ down.sched_class = old.base_class
      /\ down.base_class = old.base_class /\ down.bprio = old.bprio
      /\ down.state = old.state \ {"BOOST"}
  <2>1. PICK o \in Fields : o = Taken(old)
    BY <1>1
  <2>. QED
    BY <1>1, <2>1 DEF Fields
<1>. HIDE DEF down
<1>3. /\ back \in Fields /\ back.linked = NoClass /\ back.sched_class = old.base_class
      /\ back.base_class = old.base_class /\ back.bprio = old.bprio
      /\ back.cprio = old.bprio
      /\ "READY" \in back.state <=> "READY" \in old.state
      /\ "BOOST" \notin back.state
      /\ "WEAK" \in back.state <=> old.base_class = "weak"
  <2>1. CASE old.base_class = "idle"
    BY <1>2, <2>1 DEF TrackBase, Fields, Settled
  <2>2. CASE old.base_class = "weak"
    BY <1>2, <2>2 DEF TrackBase, Fields
  <2>3. CASE old.base_class = "fifo"
    BY <1>2, <2>3 DEF TrackBase, Fields
  <2>. QED
    BY <2>1, <2>2, <2>3 DEF Settled, Classes
<1>. HIDE DEF back
<1>4. /\ new \in Fields /\ new.linked = NoClass /\ new.sched_class = old.base_class
      /\ new.base_class = old.base_class /\ new.bprio = old.bprio
      /\ new.cprio = old.bprio
      /\ new.wprio = evl_calc_weighted_prio(old.base_class, old.bprio)
      /\ new.state = back.state
  BY <1>3, WeightedFields DEF Settled
<1>. HIDE DEF new
<1>5. evl_calc_weighted_prio(old.base_class, old.bprio) \in Int /\ old.base_class \in Classes
  BY Weights3 DEF Fields, Settled
<1>6. EffectiveSettings(new)
  BY <1>3, <1>4, <1>5 DEF EffectiveSettings
<1>7. new.base_class = "idle" => new.bprio = EVL_IDLE_PRIO /\ "WEAK" \notin new.state
  BY <1>3, <1>4 DEF Settled
<1>8. /\ Relinked(old, new) \in Fields /\ Settled(Relinked(old, new))
      /\ Relinked(old, new).base_class = new.base_class
  BY <1>3, <1>4, <1>5, <1>6, <1>7, RelinkedSettled, RelinkedFields
<1>. QED
  BY <1>4, <1>8 DEF new, back, down

(* What a policy does, on a thread that may be new.                        *)
LEMMA PolicySettled ==
  ASSUME NEW old \in Fields, old = NewThread \/ Settled(old), NEW class \in Classes,
         NEW prio \in Int, class = "idle" => prio = EVL_IDLE_PRIO
  PROVE  LET set == evl_set_schedparam([Taken(old) EXCEPT !.base_class = class], prio)
             new == IF Denied([old EXCEPT !.base_class = class], prio) THEN set
                    ELSE Weighted([set EXCEPT !.sched_class = class])
         IN  /\ Relinked(old, new) \in Fields /\ Settled(Relinked(old, new))
             /\ Relinked(old, new).base_class = class
<1>. DEFINE based == [Taken(old) EXCEPT !.base_class = class]
            denied == Denied([old EXCEPT !.base_class = class], prio)
            set == evl_set_schedparam(based, prio)
            setc == [set EXCEPT !.sched_class = class]
            new == IF denied THEN set ELSE Weighted(setc)
<1>1. InRightQueue(old)
  BY DEF InRightQueue, NewThread, Settled
<1>2. /\ Taken(old) \in Fields /\ Taken(old).linked = NoClass
      /\ Taken(old).sched_class = old.sched_class /\ Taken(old).cprio = old.cprio
      /\ Taken(old).wprio = old.wprio /\ Taken(old).state = old.state
  BY <1>1, TakenFields
<1>3. /\ based \in Fields /\ based.linked = NoClass /\ based.base_class = class
      /\ based.sched_class = old.sched_class /\ based.cprio = old.cprio
      /\ based.wprio = old.wprio /\ based.state = old.state
  <2>1. PICK o \in Fields : o = Taken(old)
    BY <1>2
  <2>. QED
    BY <1>2, <2>1 DEF Fields
<1>. HIDE DEF based
<1>4. denied <=> Denied(based, prio)
  BY <1>3 DEF Denied, Fields
<1>5. /\ set \in Fields /\ set.linked = NoClass
      /\ set.base_class = class /\ set.sched_class = old.sched_class
      /\ set.wprio = old.wprio /\ set.bprio = prio
      /\ set.cprio = IF Denied(based, prio) THEN old.cprio ELSE prio
      /\ \A b \in {"BOOST", "READY"} : b \in set.state <=> b \in old.state
      /\ "BOOST" \notin old.state => ("WEAK" \in set.state <=> class = "weak")
      /\ class = "idle" => "WEAK" \notin set.state
  BY <1>3, SchedparamFields
<1>6. /\ evl_calc_weighted_prio(class, prio) \in Int /\ old.wprio \in Int
  BY Weights3 DEF Fields
<1>7. (denied <=> evl_calc_weighted_prio(class, prio) < old.wprio /\ "BOOST" \in old.state)
  BY <1>3, <1>4 DEF Denied
<1>. HIDE DEF denied, set
<1>8. /\ new \in Fields /\ new.linked = NoClass /\ new.base_class = class
      /\ new.sched_class \in Classes /\ EffectiveSettings(new)
      /\ new.bprio = prio /\ ("READY" \in new.state <=> "READY" \in old.state)
      /\ class = "idle" => "WEAK" \notin new.state
  <2>1. CASE denied
    <3>1. Settled(old)
      BY <1>7, <2>1 DEF NewThread
    <3>2. /\ new = set /\ set.cprio = old.cprio
      BY <1>4, <1>5, <2>1
    <3>3. /\ old.wprio = evl_calc_weighted_prio(old.sched_class, old.cprio)
          /\ old.sched_class \in Classes
      BY <3>1 DEF Settled, EffectiveSettings
    <3>4. EffectiveSettings(set)
      BY <1>5, <1>6, <1>7, <2>1, <3>2, <3>3 DEF EffectiveSettings
    <3>. QED
      BY <1>5, <3>2, <3>3, <3>4
  <2>2. CASE ~denied
    <3>1. /\ setc \in Fields /\ setc.linked = NoClass /\ setc.sched_class = class
          /\ setc.base_class = class /\ setc.bprio = prio /\ setc.cprio = prio
          /\ setc.state = set.state
      BY <1>4, <1>5, <2>2 DEF Fields
    <3>. HIDE DEF setc
    <3>2. PICK n : n = Weighted(setc)
      OBVIOUS
    <3>3. /\ n \in Fields /\ n.linked = NoClass /\ n.sched_class = class
          /\ n.base_class = class /\ n.bprio = prio /\ n.cprio = prio
          /\ n.wprio = evl_calc_weighted_prio(class, prio) /\ n.state = set.state
      BY <3>1, <3>2, WeightedFields
    <3>4. ("BOOST" \notin n.state => ("WEAK" \in n.state <=> class = "weak"))
      BY <1>5, <3>3
    <3>5. EffectiveSettings(n)
      BY <1>6, <3>3, <3>4 DEF EffectiveSettings
    <3>6. new = n
      BY <2>2, <3>2
    <3>. QED
      BY <1>5, <3>3, <3>5, <3>6
  <2>. QED
    BY <2>1, <2>2
<1>. HIDE DEF new
<1>9. /\ Relinked(old, new) \in Fields /\ Settled(Relinked(old, new))
      /\ Relinked(old, new).base_class = new.base_class
  BY <1>8, RelinkedSettled, RelinkedFields
<1>. QED
  BY <1>8, <1>9 DEF new, setc, set, denied, based

LEMMA ClassInitIInv == ClassInit => ClassIInv
<1>. SUFFICES ASSUME ClassInit PROVE ClassIInv
  OBVIOUS
<1>1. NewThread \in Fields
  BY DEF NewThread, Fields, EVL_IDLE_PRIO
<1>2. \A c \in Classes : Based(c) = {}
  BY DEF ClassInit, Based, NewThread, Classes, NoClass
<1>3. \A c \in Classes : nthreads[c] = Cardinality(Based(c))
  BY <1>2, FS_EmptySet DEF ClassInit
<1>. QED
  BY <1>1, <1>3 DEF ClassInit, ClassIInv

LEMMA PolicyKeeps ==
  ASSUME ClassIInv, NEW t \in Threads, NEW class \in Classes, NEW prio \in Prios,
         evl_set_thread_policy(t, class, prio)
  PROVE  ClassIInv'
<1>. DEFINE old == thread[t]
            set == evl_set_schedparam([Taken(old) EXCEPT !.base_class = class], prio)
            new == IF Denied([old EXCEPT !.base_class = class], prio) THEN set
                   ELSE Weighted([set EXCEPT !.sched_class = class])
            declared == evl_declare_thread(class, old)
            dropped == IF Alive(t) /\ old.base_class # class
                       THEN [declared EXCEPT ![old.base_class] = @ - 1] ELSE declared
<1>1. /\ thread' = [thread EXCEPT ![t] = Relinked(old, new)]
      /\ nthreads' = dropped
  BY DEF evl_set_thread_policy, Taken
<1>2. prio \in Int /\ (class = "idle" => prio = EVL_IDLE_PRIO)
  <2>1. prio \in Int
    BY ClassesAssumption DEF Prios, EVL_IDLE_PRIO
  <2>2. evl_check_schedparams(class, t, prio)
    BY DEF evl_set_thread_policy
  <2>. QED
    BY <2>1, <2>2 DEF evl_check_schedparams
<1>3. old \in Fields /\ (old = NewThread \/ Settled(old))
  BY DEF ClassIInv
<1>4. /\ Relinked(old, new) \in Fields /\ Settled(Relinked(old, new))
      /\ Relinked(old, new).base_class = class
  BY <1>2, <1>3, PolicySettled
<1>. HIDE DEF new
<1>5. PICK n \in Fields : n = Relinked(old, new)
  BY <1>4
<1>6. /\ old.base_class \in Classes \cup {NoClass}
      /\ Alive(t) <=> old.base_class # NoClass
      /\ NoClass \notin Classes
  BY <1>3 DEF Fields, Alive, Classes, NoClass
<1>7. /\ nthreads' \in [Classes -> Int]
      /\ \A c \in Classes : nthreads'[c] = nthreads[c] + Change(old, n, c)
  <2>1. nthreads \in [Classes -> Int] /\ n.base_class = class
    BY <1>4, <1>5 DEF ClassIInv
  <2>2. CASE old.base_class = class
    BY <1>1, <1>6, <2>1, <2>2 DEF evl_declare_thread, Change
  <2>3. CASE old.base_class # class /\ old.base_class = NoClass
    BY <1>1, <1>6, <2>1, <2>3 DEF evl_declare_thread, Change
  <2>4. CASE old.base_class # class /\ old.base_class # NoClass
    BY <1>1, <1>6, <2>1, <2>4 DEF evl_declare_thread, Change
  <2>. QED
    BY <2>2, <2>3, <2>4
<1>. QED
  BY <1>1, <1>4, <1>5, <1>7, OneMember

LEMMA BoostKeeps ==
  ASSUME ClassIInv, NEW t \in Threads, NEW class \in Classes, NEW prio \in Int, Alive(t),
         evl_calc_weighted_prio(class, prio) > thread[t].wprio,
         LET up == [Taken(thread[t]) EXCEPT !.state = @ \cup {"BOOST"}, !.sched_class = class]
             new == Weighted([up EXCEPT !.cprio = prio])
         IN  thread' = [thread EXCEPT ![t] = Relinked(thread[t], new)],
         nthreads' = nthreads
  PROVE  ClassIInv'
<1>. DEFINE up == [Taken(thread[t]) EXCEPT !.state = @ \cup {"BOOST"}, !.sched_class = class]
            new == Weighted([up EXCEPT !.cprio = prio])
<1>1. thread[t] \in Fields /\ Settled(thread[t])
  BY AliveSettled
<1>2. /\ Relinked(thread[t], new) \in Fields /\ Settled(Relinked(thread[t], new))
      /\ Relinked(thread[t], new).base_class = thread[t].base_class
  BY <1>1, BoostedSettled
<1>3. thread' = [thread EXCEPT ![t] = Relinked(thread[t], new)]
  OBVIOUS
<1>. HIDE DEF new
<1>. QED
  BY <1>2, <1>3, SameBase

LEMMA ClassNextIInv == ClassIInv /\ [ClassNext]_classVars => ClassIInv'
<1>. SUFFICES ASSUME ClassIInv, [ClassNext]_classVars PROVE ClassIInv'
  OBVIOUS
<1>1. ASSUME NEW t \in Threads, NEW class \in Classes, NEW prio \in Prios,
             evl_set_thread_policy(t, class, prio)
      PROVE  ClassIInv'
  BY <1>1, PolicyKeeps
<1>2. ASSUME NEW t \in Threads, NEW u \in Threads, TrackOwner(t, u)
      PROVE  ClassIInv'
  <2>1. thread[u] \in Fields /\ Settled(thread[u])
    BY <1>2, AliveSettled DEF TrackOwner
  <2>2. PICK class \in Classes, prio \in Int :
          class = thread[u].sched_class /\ prio = thread[u].cprio
    BY <2>1 DEF Fields, Settled
  <2>3. evl_calc_weighted_prio(class, prio) > thread[t].wprio
    BY <1>2, <2>1, <2>2 DEF TrackOwner, Settled, EffectiveSettings
  <2>4. LET up == [Taken(thread[t]) EXCEPT !.state = @ \cup {"BOOST"}, !.sched_class = class]
            new == Weighted([up EXCEPT !.cprio = prio])
        IN  thread' = [thread EXCEPT ![t] = Relinked(thread[t], new)]
    BY <1>2, <2>2 DEF TrackOwner, evl_track_priority, TrackPrio, Taken
  <2>. QED
    BY <1>2, <2>3, <2>4, BoostKeeps DEF TrackOwner
<1>3. ASSUME NEW t \in Threads, NEW prio \in EVL_CORE_MIN_PRIO .. EVL_CORE_MAX_PRIO,
             evl_ceil_priority(t, prio)
      PROVE  ClassIInv'
  <2>1. "fifo" \in Classes /\ prio \in Int
    BY ClassesAssumption DEF Classes
  <2>2. LET up == [Taken(thread[t]) EXCEPT !.state = @ \cup {"BOOST"}, !.sched_class = "fifo"]
            new == Weighted([up EXCEPT !.cprio = prio])
        IN  thread' = [thread EXCEPT ![t] = Relinked(thread[t], new)]
    BY <1>3 DEF evl_ceil_priority, evl_track_priority, Taken
  <2>. QED
    BY <1>3, <2>1, <2>2, BoostKeeps DEF evl_ceil_priority
<1>4. ASSUME NEW t \in Threads, DropBoost(t)
      PROVE  ClassIInv'
  <2>. DEFINE down == [Taken(thread[t]) EXCEPT !.state = @ \ {"BOOST"},
                                               !.sched_class = Taken(thread[t]).base_class]
              new == Weighted(TrackBase(down))
  <2>1. thread[t] \in Fields /\ Settled(thread[t])
    BY <1>4, AliveSettled DEF DropBoost
  <2>2. /\ Relinked(thread[t], new) \in Fields /\ Settled(Relinked(thread[t], new))
        /\ Relinked(thread[t], new).base_class = thread[t].base_class
    BY <2>1, DroppedSettled
  <2>3. thread' = [thread EXCEPT ![t] = Relinked(thread[t], new)] /\ nthreads' = nthreads
    BY <1>4 DEF DropBoost, evl_track_priority, Taken
  <2>. HIDE DEF new
  <2>. QED
    BY <2>2, <2>3, SameBase
<1>5. ASSUME NEW t \in Threads, Release(t)
      PROVE  ClassIInv'
  <2>1. thread[t] \in Fields /\ Settled(thread[t])
    BY <1>5, AliveSettled DEF Release
  <2>2. PICK n : n = [evl_enqueue_thread(thread[t]) EXCEPT !.state = @ \cup {"READY"}]
    OBVIOUS
  <2>3. PICK o : o = thread[t]
    OBVIOUS
  <2>4. /\ n \in Fields /\ n.base_class = o.base_class /\ n.sched_class = o.sched_class
        /\ n.bprio = o.bprio /\ n.cprio = o.cprio /\ n.wprio = o.wprio
        /\ n.state = o.state \cup {"READY"}
        /\ n.linked = IF o.sched_class = "idle" THEN NoClass ELSE o.sched_class
    BY <2>1, <2>2, <2>3 DEF Fields, evl_enqueue_thread
  <2>5. Settled(n)
    BY <2>1, <2>3, <2>4 DEF Settled, EffectiveSettings, InRightQueue
  <2>6. thread' = [thread EXCEPT ![t] = n] /\ nthreads' = nthreads
    BY <1>5, <2>2 DEF Release, ClassIInv
  <2>. QED
    BY <2>3, <2>4, <2>5, <2>6, SameBase
<1>6. ASSUME NEW t \in Threads, Hold(t)
      PROVE  ClassIInv'
  <2>1. thread[t] \in Fields /\ Settled(thread[t])
    BY <1>6, AliveSettled DEF Hold
  <2>2. PICK n : n = [evl_dequeue_thread(thread[t]) EXCEPT !.state = @ \ {"READY"}]
    OBVIOUS
  <2>3. PICK o : o = thread[t]
    OBVIOUS
  <2>4. /\ n \in Fields /\ n.base_class = o.base_class /\ n.sched_class = o.sched_class
        /\ n.bprio = o.bprio /\ n.cprio = o.cprio /\ n.wprio = o.wprio
        /\ n.state = o.state \ {"READY"}
        /\ n.linked = IF o.linked = o.sched_class THEN NoClass ELSE o.linked
    BY <2>1, <2>2, <2>3 DEF Fields, evl_dequeue_thread
  <2>5. Settled(n)
    BY <2>1, <2>3, <2>4 DEF Settled, EffectiveSettings, InRightQueue
  <2>6. thread' = [thread EXCEPT ![t] = n] /\ nthreads' = nthreads
    BY <1>6, <2>2 DEF Hold, ClassIInv
  <2>. QED
    BY <2>3, <2>4, <2>5, <2>6, SameBase
<1>7. ASSUME NEW t \in Threads, evl_forget_thread(t)
      PROVE  ClassIInv'
  <2>1. NewThread \in Fields
    BY DEF NewThread, Fields, EVL_IDLE_PRIO
  <2>2. /\ thread[t].base_class \in Classes /\ NewThread.base_class \notin Classes
    BY <1>7, AliveSettled DEF evl_forget_thread, Settled, NewThread, Classes, NoClass
  <2>3. thread' = [thread EXCEPT ![t] = NewThread]
        /\ nthreads' = [nthreads EXCEPT ![thread[t].base_class] = @ - 1]
    BY <1>7 DEF evl_forget_thread
  <2>4. /\ nthreads' \in [Classes -> Int]
        /\ \A c \in Classes : nthreads'[c] = nthreads[c] + Change(thread[t], NewThread, c)
    BY <2>2, <2>3 DEF ClassIInv, Change
  <2>. QED
    BY <2>1, <2>3, <2>4, OneMember
<1>8. CASE UNCHANGED classVars
  BY <1>8 DEF classVars, ClassIInv, Based
<1>. QED
  BY <1>1, <1>2, <1>3, <1>4, <1>5, <1>6, <1>7, <1>8 DEF ClassNext

(* A thread is new or settled, and a class counts the threads based in it. *)
THEOREM ClassInvariant == ClassSpec => []ClassIInv
<1>. QED
  BY ClassInitIInv, ClassNextIInv, PTL DEF ClassSpec

(* For any set of threads and any priorities: policy changes, boosts and   *)
(* ceilings leave priorities, classes, queues and counts in agreement.     *)
THEOREM ClassesAgreeHolds == ClassSpec => []ClassesAgree
<1>1. ClassIInv => ClassesAgree
  BY DEF ClassIInv, ClassesAgree, Settled, Alive, Based, NewThread
<1>. QED
  BY <1>1, ClassInvariant, PTL
=============================================================================
