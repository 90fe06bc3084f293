-------------------------- MODULE CoreObjectsProof --------------------------
(***************************************************************************)
(* Proofs about sockets (EvlSocket), elements (EvlElement), flags          *)
(* (EvlFlag) and timers (EvlTimer), for any finite sets of users, any set  *)
(* of threads, and any timers, CPUs, intervals and gravity.                *)
(***************************************************************************)
EXTENDS EvlSocket, EvlElement, EvlFlag, EvlTimer, SequenceLemmas,
        FiniteSetTheorems, TLAPS

(***************************************************************************)
(* Sockets.  The memory committed counts the handlers that passed the test *)
(* and did not add to the count yet: each test leaves at most one packet   *)
(* for each handler above the limit.                                       *)
(***************************************************************************)
SocketTypeOK ==
  /\ rmem_count \in Int
  /\ input \in Nat
  /\ watchpoints \subseteq Watchers
  /\ deliver \in [Handlers -> {"idle", "charge", "queue", "check", "signal"}]
  /\ watch \in [Watchers -> {"idle", "test", "asleep", "ready", "uncharge"}]
  /\ notified \subseteq Watchers

Charged == Cardinality(Delivering("queue")) + input + Cardinality(Watching("uncharge"))

RmemCommitted ==
  /\ rmem_count = TrueSize * Charged
  /\ rmem_count + Cardinality(Delivering("charge")) * TrueSize
       < rmem_max + Cardinality(Handlers) * TrueSize

WatchersRegistered ==
  \A p \in Watchers : watch[p] \in {"test", "asleep"} => p \in watchpoints

SocketIInv == SocketTypeOK /\ RmemCommitted /\ WatchersRegistered /\ PollNotMissed

(* The actors at a step are finitely many. *)
LEMMA StepsFinite ==
  ASSUME NEW s
  PROVE  /\ IsFiniteSet(Delivering(s)) /\ Cardinality(Delivering(s)) \in Nat
         /\ Cardinality(Delivering(s)) <= Cardinality(Handlers)
         /\ Cardinality(Handlers) \in Nat
         /\ IsFiniteSet(Watching(s)) /\ Cardinality(Watching(s)) \in Nat
<1>1. Delivering(s) \subseteq Handlers /\ Watching(s) \subseteq Watchers
  BY DEF Delivering, Watching
<1>. QED
  BY <1>1, SocketAssumption, FS_Subset, FS_CardinalityType

LEMMA StepsFiniteNext ==
  ASSUME NEW s
  PROVE  /\ Cardinality(Delivering(s)') \in Nat
         /\ Cardinality(Delivering(s)') <= Cardinality(Handlers)
<1>1. Delivering(s)' \subseteq Handlers
  BY DEF Delivering
<1>. QED
  BY <1>1, SocketAssumption, FS_Subset, FS_CardinalityType

(* A handler that goes from one step to another is counted at the other. *)
LEMMA HandlerMoves ==
  ASSUME SocketTypeOK, NEW c \in Handlers, NEW a, NEW b, a # b,
         b \in {"idle", "charge", "queue", "check", "signal"},
         Delivers(c, a, b)
  PROVE  /\ Cardinality(Delivering(a))' = Cardinality(Delivering(a)) - 1
         /\ Cardinality(Delivering(b))' = Cardinality(Delivering(b)) + 1
         /\ \A s : s \notin {a, b} => Delivering(s)' = Delivering(s)
<1>1. /\ c \in Delivering(a) /\ c \notin Delivering(b)
      /\ Delivering(a)' = Delivering(a) \ {c}
      /\ Delivering(b)' = Delivering(b) \cup {c}
      /\ \A s : s \notin {a, b} => Delivering(s)' = Delivering(s)
  BY DEF SocketTypeOK, Delivers, Delivering
<1>2. IsFiniteSet(Delivering(a)) /\ IsFiniteSet(Delivering(b))
  BY StepsFinite
<1>3. Cardinality(Delivering(a) \ {c}) = Cardinality(Delivering(a)) - 1
  BY <1>1, <1>2, FS_RemoveElement
<1>4. Cardinality(Delivering(b) \cup {c}) = Cardinality(Delivering(b)) + 1
  BY <1>1, <1>2, FS_AddElement
<1>. QED
  BY <1>1, <1>3, <1>4, Zenon

LEMMA WatcherMoves ==
  ASSUME SocketTypeOK, NEW p \in Watchers, NEW a, NEW b, a # b,
         b \in {"idle", "test", "asleep", "ready", "uncharge"},
         Watches(p, a, b)
  PROVE  /\ Cardinality(Watching(a))' = Cardinality(Watching(a)) - 1
         /\ Cardinality(Watching(b))' = Cardinality(Watching(b)) + 1
         /\ \A s : s \notin {a, b} => Watching(s)' = Watching(s)
<1>1. /\ p \in Watching(a) /\ p \notin Watching(b)
      /\ Watching(a)' = Watching(a) \ {p}
      /\ Watching(b)' = Watching(b) \cup {p}
      /\ \A s : s \notin {a, b} => Watching(s)' = Watching(s)
  BY DEF SocketTypeOK, Watches, Watching
<1>2. IsFiniteSet(Watching(a)) /\ IsFiniteSet(Watching(b))
  BY StepsFinite
<1>3. Cardinality(Watching(a) \ {p}) = Cardinality(Watching(a)) - 1
  BY <1>1, <1>2, FS_RemoveElement
<1>4. Cardinality(Watching(b) \cup {p}) = Cardinality(Watching(b)) + 1
  BY <1>1, <1>2, FS_AddElement
<1>. QED
  BY <1>1, <1>3, <1>4, Zenon

LEMMA SocketInitIInv == SocketInit => SocketIInv
<1>. SUFFICES ASSUME SocketInit PROVE SocketIInv
  OBVIOUS
<1>1. SocketTypeOK /\ WatchersRegistered /\ PollNotMissed
  BY DEF SocketInit, SocketTypeOK, WatchersRegistered, PollNotMissed, Watching
<1>2. /\ Delivering("queue") = {} /\ Delivering("charge") = {}
      /\ Watching("uncharge") = {}
  BY DEF SocketInit, Delivering, Watching
<1>3. Charged = 0 /\ Cardinality(Delivering("charge")) = 0
  BY <1>2, FS_EmptySet DEF Charged, SocketInit
<1>4. Cardinality(Handlers) \in Nat /\ Cardinality(Handlers) # 0
  BY SocketAssumption, FS_CardinalityType, FS_EmptySet
<1>5. Cardinality(Handlers) * TrueSize > 0
  BY <1>4, SocketAssumption
<1>6. RmemCommitted
  BY <1>3, <1>5, SocketAssumption, <1>4 DEF RmemCommitted, SocketInit
<1>. QED
  BY <1>1, <1>6 DEF SocketIInv

LEMMA SocketNextType == SocketTypeOK /\ [SocketNext]_socketVars => SocketTypeOK'
<1>. SUFFICES ASSUME SocketTypeOK, [SocketNext]_socketVars PROVE SocketTypeOK'
  OBVIOUS
<1>. USE DEF SocketTypeOK, Delivers, Watches
<1>1. CASE UNCHANGED socketVars
  BY <1>1 DEF socketVars
<1>2. ASSUME NEW c \in Handlers,
             \/ TestRmem(c) \/ evl_charge_socket_rmem(c) \/ QueueInput(c)
             \/ evl_signal_poll_events(c) \/ __evl_signal_poll_events(c)
      PROVE  SocketTypeOK'
  <2>1. CASE TestRmem(c)
    BY <2>1 DEF TestRmem
  <2>2. CASE evl_charge_socket_rmem(c)
    BY <2>2, SocketAssumption DEF evl_charge_socket_rmem
  <2>3. CASE QueueInput(c)
    BY <2>3 DEF QueueInput
  <2>4. CASE evl_signal_poll_events(c)
    BY <2>4 DEF evl_signal_poll_events
  <2>5. CASE __evl_signal_poll_events(c)
    BY <2>5 DEF __evl_signal_poll_events
  <2>. QED
    BY <1>2, <2>1, <2>2, <2>3, <2>4, <2>5
<1>3. ASSUME NEW p \in Watchers,
             \/ evl_poll_watch(p) \/ TestInput(p) \/ Notified(p)
             \/ Receive(p) \/ evl_uncharge_socket_rmem(p)
      PROVE  SocketTypeOK'
  <2>1. CASE evl_poll_watch(p)
    BY <2>1 DEF evl_poll_watch
  <2>2. CASE TestInput(p)
    BY <2>2 DEF TestInput
  <2>3. CASE Notified(p)
    BY <2>3 DEF Notified
  <2>4. CASE Receive(p)
    BY <2>4 DEF Receive
  <2>5. CASE evl_uncharge_socket_rmem(p)
    BY <2>5, SocketAssumption DEF evl_uncharge_socket_rmem
  <2>. QED
    BY <1>3, <2>1, <2>2, <2>3, <2>4, <2>5
<1>. QED
  BY <1>1, <1>2, <1>3 DEF SocketNext

(* The step that registers no watcher late misses none. *)
LEMMA SocketNextPoll ==
  SocketTypeOK /\ WatchersRegistered /\ PollNotMissed /\ [SocketNext]_socketVars
    => WatchersRegistered' /\ PollNotMissed'
<1>. SUFFICES ASSUME SocketTypeOK, WatchersRegistered, PollNotMissed,
                     [SocketNext]_socketVars
              PROVE  WatchersRegistered' /\ PollNotMissed'
  OBVIOUS
<1>. USE DEF SocketTypeOK, WatchersRegistered, PollNotMissed, Delivering, Watching
<1>1. CASE UNCHANGED socketVars
  BY <1>1 DEF socketVars
<1>2. ASSUME NEW c \in Handlers,
             TestRmem(c) \/ evl_charge_socket_rmem(c) \/ QueueInput(c)
      PROVE  WatchersRegistered' /\ PollNotMissed'
  <2>1. CASE TestRmem(c)
    BY <2>1 DEF Delivers, TestRmem
  <2>2. CASE evl_charge_socket_rmem(c)
    BY <2>2 DEF Delivers, evl_charge_socket_rmem
  <2>3. CASE QueueInput(c)
    BY <2>3 DEF Delivers, QueueInput
  <2>. QED
    BY <1>2, <2>1, <2>2, <2>3
<1>3. ASSUME NEW c \in Handlers, evl_signal_poll_events(c)
      PROVE  WatchersRegistered' /\ PollNotMissed'
  BY <1>3 DEF Delivers, evl_signal_poll_events
<1>4. ASSUME NEW c \in Handlers, __evl_signal_poll_events(c)
      PROVE  WatchersRegistered' /\ PollNotMissed'
  BY <1>4 DEF Delivers, __evl_signal_poll_events
<1>5. ASSUME NEW p \in Watchers,
             \/ evl_poll_watch(p) \/ TestInput(p) \/ Notified(p)
             \/ Receive(p) \/ evl_uncharge_socket_rmem(p)
      PROVE  WatchersRegistered' /\ PollNotMissed'
  <2>1. CASE evl_poll_watch(p)
    BY <2>1 DEF Watches, evl_poll_watch
  <2>2. CASE TestInput(p)
    BY <2>2 DEF Watches, TestInput
  <2>3. CASE Notified(p)
    BY <2>3 DEF Watches, Notified
  <2>4. CASE Receive(p)
    BY <2>4 DEF Watches, Receive
  <2>5. CASE evl_uncharge_socket_rmem(p)
    BY <2>5 DEF Watches, evl_uncharge_socket_rmem
  <2>. QED
    BY <1>5, <2>1, <2>2, <2>3, <2>4, <2>5
<1>. QED
  BY <1>1, <1>2, <1>3, <1>4, <1>5 DEF SocketNext

(* The same products, one packet more or less. *)
LEMMA OnePacket ==
  ASSUME NEW n \in Int
  PROVE  /\ TrueSize * n \in Int /\ n * TrueSize = TrueSize * n
         /\ TrueSize * (n + 1) = TrueSize * n + TrueSize
         /\ TrueSize * (n - 1) = TrueSize * n - TrueSize
  BY SocketAssumption

(* More requests, more memory. *)
LEMMA Monotone ==
  ASSUME NEW m \in Int, NEW n \in Int, m <= n
  PROVE  m * TrueSize \in Int /\ n * TrueSize \in Int /\ m * TrueSize <= n * TrueSize
  BY SocketAssumption

LEMMA SocketNextRmem ==
  SocketTypeOK /\ RmemCommitted /\ [SocketNext]_socketVars => RmemCommitted'
<1>. SUFFICES ASSUME SocketTypeOK, RmemCommitted, [SocketNext]_socketVars
              PROVE  RmemCommitted'
  OBVIOUS
<1>. DEFINE Q == Cardinality(Delivering("queue"))
            K == Cardinality(Delivering("charge"))
            U == Cardinality(Watching("uncharge"))
            N == Cardinality(Handlers)
<1>a. Q \in Nat /\ K \in Nat /\ U \in Nat /\ N \in Nat /\ K' \in Nat /\ K' <= N
  BY StepsFinite, StepsFiniteNext
<1>b. Charged = Q + input + U /\ Charged' = Q' + input' + U'
  BY DEF Charged
<1>. HIDE DEF Q, K, U, N
<1>k. PICK k2 \in Nat : k2 = K' /\ k2 <= N
  BY <1>a
\* What remains to show of each step: d packets are charged.
<1>c. ASSUME NEW d \in {-1, 0, 1},
             rmem_count' = rmem_count + d * TrueSize, Charged' = Charged + d,
             \/ k2 + d <= K
             \/ d = 0 /\ rmem_count < rmem_max
      PROVE  RmemCommitted'
  <2>1. Charged \in Int /\ rmem_count \in Int
    BY <1>a, <1>b DEF SocketTypeOK
  <2>2. rmem_count = TrueSize * Charged /\ rmem_count + K * TrueSize < rmem_max + N * TrueSize
    BY DEF RmemCommitted, K, N
  <2>3. rmem_count' = TrueSize * (Charged + d)
    BY <1>c, <2>1, <2>2, OnePacket, SocketAssumption
  <2>4. k2 * TrueSize \in Int /\ K * TrueSize \in Int /\ N * TrueSize \in Int
    BY <1>a, <1>k, Monotone
  <2>5. rmem_count' + k2 * TrueSize < rmem_max + N * TrueSize
    <3>1. CASE d = 0 /\ rmem_count < rmem_max
      <4>1. k2 * TrueSize <= N * TrueSize
        BY <1>a, <1>k, Monotone
      <4>2. rmem_count' = rmem_count
        BY <1>c, <2>1, <3>1, SocketAssumption
      <4>. QED
        BY <4>1, <4>2, <3>1, <2>1, <2>4, SocketAssumption
    <3>2. CASE k2 + d <= K
      <4>0. k2 + d \in Int /\ K \in Int
        BY <1>a
      <4>1. (k2 + d) * TrueSize <= K * TrueSize
        BY <4>0, <3>2, Monotone, Zenon
      <4>2. (k2 + d) * TrueSize = k2 * TrueSize + d * TrueSize
        BY <1>k, <1>a, SocketAssumption
      <4>3. d * TrueSize \in Int
        BY SocketAssumption
      <4>. QED
        BY <1>c, <4>0, <4>1, <4>2, <4>3, <2>1, <2>2, <2>4, SocketAssumption
    <3>. QED
      BY <1>c, <3>1, <3>2
  <2>. QED
    BY <1>c, <1>k, <2>3, <2>5 DEF RmemCommitted, K, N
<1>d. ASSUME rmem_count' = rmem_count, Charged' = Charged,
             k2 <= K \/ rmem_count < rmem_max
      PROVE  RmemCommitted'
  <2>1. rmem_count' = rmem_count + 0 * TrueSize /\ Charged' = Charged + 0
    BY <1>d, <1>a, <1>b, SocketAssumption DEF SocketTypeOK
  <2>2. CASE k2 <= K
    <3>1. k2 + 0 = k2
      OBVIOUS
    <3>. QED
      BY <2>1, <2>2, <3>1, <1>c
  <2>3. CASE rmem_count < rmem_max
    BY <2>1, <2>3, <1>c
  <2>. QED
    BY <1>d, <2>2, <2>3
<1>1. CASE UNCHANGED socketVars
  <2>1. Charged' = Charged /\ K' = K
    BY <1>1 DEF socketVars, Charged, Delivering, Watching, K
  <2>. QED
    BY <1>1, <2>1, <1>a, <1>d, <1>k DEF socketVars
<1>2. ASSUME NEW c \in Handlers, TestRmem(c)
      PROVE  RmemCommitted'
  <2>1. Q' = Q /\ U' = U
    BY <1>2, HandlerMoves DEF TestRmem, Watching, Q, U
  <2>. QED
    BY <1>2, <2>1, <1>b, <1>d DEF TestRmem, MayCharge
<1>3. ASSUME NEW c \in Handlers, evl_charge_socket_rmem(c)
      PROVE  RmemCommitted'
  <2>1. Q' = Q + 1 /\ K' = K - 1 /\ U' = U
    BY <1>3, HandlerMoves DEF evl_charge_socket_rmem, Watching, Q, K, U
  <2>. QED
    BY <1>3, <2>1, <1>a, <1>b, <1>c, <1>k, SocketAssumption
    DEF evl_charge_socket_rmem, SocketTypeOK
<1>4. ASSUME NEW c \in Handlers, QueueInput(c)
      PROVE  RmemCommitted'
  <2>1. Q' = Q - 1 /\ K' = K /\ U' = U
    BY <1>4, HandlerMoves DEF QueueInput, Watching, Q, K, U
  <2>. QED
    BY <1>4, <2>1, <1>a, <1>b, <1>c, <1>k, SocketAssumption DEF QueueInput, SocketTypeOK
<1>5. ASSUME NEW c \in Handlers,
             evl_signal_poll_events(c) \/ __evl_signal_poll_events(c)
      PROVE  RmemCommitted'
  <2>1. Q' = Q /\ K' = K /\ U' = U
    BY <1>5 DEF SocketTypeOK, Delivers, evl_signal_poll_events,
       __evl_signal_poll_events, Delivering, Watching, Q, K, U
  <2>. QED
    BY <1>5, <2>1, <1>a, <1>b, <1>c, <1>k, SocketAssumption
    DEF evl_signal_poll_events, __evl_signal_poll_events, SocketTypeOK
<1>6. ASSUME NEW p \in Watchers, evl_poll_watch(p) \/ TestInput(p) \/ Notified(p)
      PROVE  RmemCommitted'
  <2>1. Q' = Q /\ K' = K /\ U' = U
    BY <1>6 DEF SocketTypeOK, Watches, evl_poll_watch, TestInput, Notified,
       Delivering, Watching, Q, K, U
  <2>. QED
    BY <1>6, <2>1, <1>a, <1>b, <1>c, <1>k, SocketAssumption
    DEF evl_poll_watch, TestInput, Notified, SocketTypeOK
<1>7. ASSUME NEW p \in Watchers, Receive(p)
      PROVE  RmemCommitted'
  <2>1. Q' = Q /\ K' = K
    BY <1>7 DEF Receive, Delivering, Q, K
  <2>2. CASE input = 0
    <3>1. U' = U
      BY <1>7, <2>2 DEF Receive, Watches, SocketTypeOK, Watching, U
    <3>. QED
      BY <1>7, <2>1, <2>2, <3>1, <1>a, <1>b, <1>c, <1>k, SocketAssumption
      DEF Receive, SocketTypeOK
  <2>3. CASE input # 0
    <3>1. U' = U + 1
      BY <1>7, <2>3, WatcherMoves DEF Receive, U
    <3>. QED
      BY <1>7, <2>1, <2>3, <3>1, <1>a, <1>b, <1>c, <1>k, SocketAssumption
      DEF Receive, SocketTypeOK
  <2>. QED
    BY <2>2, <2>3
<1>8. ASSUME NEW p \in Watchers, evl_uncharge_socket_rmem(p)
      PROVE  RmemCommitted'
  <2>1. U' = U - 1 /\ Q' = Q /\ K' = K
    BY <1>8, WatcherMoves DEF evl_uncharge_socket_rmem, Delivering, Q, K, U
  <2>. QED
    BY <1>8, <2>1, <1>a, <1>b, <1>c, <1>k, SocketAssumption
    DEF evl_uncharge_socket_rmem, SocketTypeOK
<1>. QED
  BY <1>1, <1>2, <1>3, <1>4, <1>5, <1>6, <1>7, <1>8 DEF SocketNext

THEOREM SocketInvariant == SocketSpec => []SocketIInv
<1>1. SocketIInv /\ [SocketNext]_socketVars => SocketIInv'
  BY SocketNextType, SocketNextPoll, SocketNextRmem DEF SocketIInv
<1>. QED
  BY SocketInitIInv, <1>1, PTL DEF SocketSpec

(* The receive memory of a socket is accounted for, and exceeds its limit  *)
(* by less than one packet for each CPU that delivers, for any number of   *)
(* CPUs.                                                                   *)
THEOREM SocketRmemBounded == SocketSpec => []RmemBounded
<1>1. SocketIInv => RmemBounded
  <2>. SUFFICES ASSUME SocketIInv PROVE RmemBounded
    OBVIOUS
  <2>1. Cardinality(Delivering("charge")) \in Nat /\ Cardinality(Handlers) \in Nat
    BY StepsFinite
  <2>2. Cardinality(Delivering("charge")) * TrueSize >= 0
    BY <2>1, SocketAssumption
  <2>. QED
    BY <2>1, <2>2, SocketAssumption
    DEF SocketIInv, SocketTypeOK, RmemCommitted, Charged, RmemBounded
<1>. QED
  BY SocketInvariant, <1>1, PTL

(* The test of the poll head without its lock misses no watcher. *)
THEOREM SocketPollNotMissed == SocketSpec => []PollNotMissed
<1>1. SocketIInv => PollNotMissed
  BY DEF SocketIInv
<1>. QED
  BY SocketInvariant, <1>1, PTL

-----------------------------------------------------------------------------
(***************************************************************************)
(* Elements.  Once the count is zero it stays so, and only the in-band     *)
(* kernel is left to cancel the work, then to remove the device.           *)
(***************************************************************************)
Requests == {"irq", "wq", "run"}

ElementTypeOK ==
  /\ safe \in BOOLEAN /\ drvdata \in BOOLEAN /\ indexed \in BOOLEAN /\ warned \in BOOLEAN
  /\ refs \in Int
  /\ fate \in {"live", "dying", "cancelled", "removed", "disposed"}
  /\ holders \subseteq Users /\ inSysfs \subseteq Users
  /\ stage \subseteq Requests /\ barrier \subseteq Requests /\ awaited \subseteq Requests
  /\ flusher \in {"idle", "flush", "flush_wq", "cancel", "cancel_wq"}

RefsCounted ==
  /\ refs = Cardinality(holders) + (IF safe THEN Cardinality(stage) ELSE 0)
  /\ fate = "live" <=> refs # 0

FlushOrdered ==
  /\ awaited \subseteq stage
  /\ flusher = "idle" => awaited = {}
  /\ flusher \in {"flush_wq", "cancel_wq"} => awaited \subseteq barrier

Teardown ==
  /\ flusher \in {"cancel", "cancel_wq"} => ~safe /\ fate = "dying"
  /\ flusher = "cancel_wq" => stage \subseteq {"run"} /\ barrier = stage
  /\ fate \in {"cancelled", "removed", "disposed"} => stage = {}
  /\ fate \in {"removed", "disposed"} => ~drvdata /\ inSysfs = {}

ElementIInv == ElementTypeOK /\ RefsCounted /\ FlushOrdered /\ Teardown

LEMMA HoldersFinite ==
  ASSUME ElementTypeOK
  PROVE  /\ IsFiniteSet(holders) /\ Cardinality(holders) \in Nat
         /\ Cardinality(holders) = 0 <=> holders = {}
         /\ IsFiniteSet(stage) /\ Cardinality(stage) \in Nat
         /\ Cardinality(stage) = 0 <=> stage = {}
<1>1. IsFiniteSet(Requests)
  <2>1. Requests = (({} \cup {"irq"}) \cup {"wq"}) \cup {"run"}
    BY DEF Requests
  <2>. QED
    BY <2>1, FS_EmptySet, FS_AddElement
<1>2. IsFiniteSet(holders) /\ IsFiniteSet(stage)
  BY <1>1, UsersAssumption, FS_Subset DEF ElementTypeOK
<1>. QED
  BY <1>2, FS_CardinalityType, FS_EmptySet

(* Without a reference left nobody holds one, and no safe work is about. *)
LEMMA NoneLeft ==
  ASSUME ElementTypeOK, RefsCounted, refs = 0
  PROVE  holders = {} /\ (safe => stage = {})
<1>1. Cardinality(holders) \in Nat /\ Cardinality(stage) \in Nat
  BY HoldersFinite
<1>2. CASE safe
  BY <1>1, <1>2, HoldersFinite DEF RefsCounted
<1>3. CASE ~safe
  BY <1>1, <1>3, HoldersFinite DEF RefsCounted
<1>. QED
  BY <1>2, <1>3

(* Two requests that meet become one. *)
LEMMA AdvanceCount ==
  ASSUME NEW S, IsFiniteSet(S), NEW a, NEW b, a # b
  PROVE  Cardinality(Advance(S, a, b)) =
           IF a \in S /\ b \in S THEN Cardinality(S) - 1 ELSE Cardinality(S)
<1>1. CASE a \notin S
  BY <1>1 DEF Advance
<1>2. CASE a \in S
  <2>1. IsFiniteSet(S \ {a}) /\ Cardinality(S \ {a}) = Cardinality(S) - 1
    BY <1>2, FS_RemoveElement
  <2>2. Cardinality((S \ {a}) \cup {b}) =
          IF b \in S \ {a} THEN Cardinality(S) - 1 ELSE Cardinality(S) - 1 + 1
    BY <2>1, FS_AddElement
  <2>3. Cardinality(S) \in Nat
    BY FS_CardinalityType
  <2>. QED
    BY <1>2, <2>2, <2>3 DEF Advance
<1>. QED
  BY <1>1, <1>2

LEMMA ElementInitIInv == ElementInit => ElementIInv
<1>. SUFFICES ASSUME ElementInit PROVE ElementIInv
  OBVIOUS
<1>1. Cardinality({Creator}) = 1 /\ Cardinality({}) = 0
  BY FS_Singleton, FS_EmptySet
<1>2. ElementTypeOK
  <2>1. /\ safe \in BOOLEAN /\ drvdata \in BOOLEAN
        /\ indexed \in BOOLEAN /\ warned \in BOOLEAN
    BY Zenon DEF ElementInit
  <2>2. holders \subseteq Users /\ inSysfs \subseteq Users
    BY UsersAssumption DEF ElementInit
  <2>. QED
    BY <2>1, <2>2 DEF ElementInit, ElementTypeOK
<1>3. RefsCounted
  BY <1>1 DEF ElementInit, RefsCounted
<1>4. FlushOrdered /\ Teardown
  BY DEF ElementInit, FlushOrdered, Teardown
<1>. QED
  BY <1>2, <1>3, <1>4 DEF ElementIInv

Getting(u) ==
  evl_get_element_by_fundle(u) \/ ReadDrvdata(u) \/ evl_get_element_by_dev(u)
    \/ Drop(u) \/ evl_call_inband(u)
InbandStep ==
  evl_hide_element \/ RemoveDevice \/ Dispose \/ __evl_do_irq_work \/ StartWork
    \/ __evl_do_work \/ BeginFlush \/ evl_flush_work \/ evl_cancel_work \/ EndFlush

LEMMA ElementNextType == ElementTypeOK /\ [ElementNext]_elemVars => ElementTypeOK'
<1>. SUFFICES ASSUME ElementTypeOK, [ElementNext]_elemVars PROVE ElementTypeOK'
  OBVIOUS
<1>. USE DEF ElementTypeOK, elemVars, elementVars, workVars, Requests
<1>1. CASE UNCHANGED elemVars
  BY <1>1
<1>2. ASSUME NEW u \in Users, Getting(u)
      PROVE  ElementTypeOK'
  <2>1. CASE evl_get_element_by_fundle(u)
    BY <2>1 DEF evl_get_element_by_fundle, __evl_get_element
  <2>2. CASE ReadDrvdata(u)
    BY <2>2 DEF ReadDrvdata
  <2>3. CASE evl_get_element_by_dev(u)
    <3>1. CASE refs # 0
      BY <2>3, <3>1 DEF evl_get_element_by_dev, __evl_get_element
    <3>2. CASE refs = 0
      BY <2>3, <3>2 DEF evl_get_element_by_dev
    <3>. QED
      BY <3>1, <3>2
  <2>4. CASE Drop(u)
    BY <2>4 DEF Drop, evl_put_element
  <2>5. CASE evl_call_inband(u)
    <3>1. CASE safe
      BY <2>5, <3>1 DEF evl_call_inband, __evl_get_element
    <3>2. CASE ~safe
      BY <2>5, <3>2 DEF evl_call_inband
    <3>. QED
      BY <3>1, <3>2
  <2>. QED
    BY <1>2, <2>1, <2>2, <2>3, <2>4, <2>5 DEF Getting
<1>3. CASE InbandStep
  <2>1. CASE evl_hide_element
    BY <2>1 DEF evl_hide_element
  <2>2. CASE RemoveDevice
    BY <2>2 DEF RemoveDevice
  <2>3. CASE Dispose
    BY <2>3 DEF Dispose
  <2>4. CASE __evl_do_irq_work
    BY <2>4 DEF __evl_do_irq_work, Moves, Advance, evl_put_element
  <2>5. CASE StartWork
    BY <2>5 DEF StartWork, Moves, Advance
  <2>6. CASE __evl_do_work
    BY <2>6 DEF __evl_do_work, evl_put_element
  <2>7. CASE BeginFlush
    BY <2>7 DEF BeginFlush
  <2>8. CASE evl_flush_work
    BY <2>8 DEF evl_flush_work
  <2>9. CASE evl_cancel_work
    BY <2>9 DEF evl_cancel_work
  <2>10. CASE EndFlush
    BY <2>10 DEF EndFlush
  <2>. QED
    BY <1>3, <2>1, <2>2, <2>3, <2>4, <2>5, <2>6, <2>7, <2>8, <2>9, <2>10 DEF InbandStep
<1>. QED
  BY <1>1, <1>2, <1>3 DEF ElementNext, Getting, InbandStep

(* A request that is over is no longer waited for, and one that is waited  *)
(* for is where the flush can see it.                                      *)
LEMMA ElementNextFlush ==
  ElementTypeOK /\ RefsCounted /\ FlushOrdered /\ Teardown /\ [ElementNext]_elemVars
    => FlushOrdered'
<1>. SUFFICES ASSUME ElementTypeOK, RefsCounted, FlushOrdered, Teardown,
                     [ElementNext]_elemVars
              PROVE  FlushOrdered'
  OBVIOUS
<1>. USE DEF ElementTypeOK, FlushOrdered, elemVars, elementVars, workVars
<1>1. CASE UNCHANGED <<stage, flusher, barrier, awaited>>
  BY <1>1
<1>2. ASSUME NEW u \in Users, evl_call_inband(u) PROVE FlushOrdered'
  BY <1>2 DEF evl_call_inband
<1>3. CASE __evl_do_irq_work
  BY <1>3 DEF __evl_do_irq_work, Moves, Advance
<1>4. CASE StartWork
  BY <1>4 DEF StartWork, Moves, Advance
<1>5. CASE __evl_do_work
  BY <1>5 DEF __evl_do_work
<1>6. CASE BeginFlush
  BY <1>6 DEF BeginFlush
<1>7. CASE evl_flush_work
  BY <1>7 DEF evl_flush_work, irq_work_sync
<1>8. CASE evl_cancel_work
  BY <1>8 DEF evl_cancel_work, irq_work_sync, Requests
<1>9. CASE EndFlush
  BY <1>9 DEF EndFlush
<1>10. ASSUME NEW u \in Users,
              \/ evl_get_element_by_fundle(u) \/ ReadDrvdata(u)
              \/ evl_get_element_by_dev(u) \/ Drop(u)
       PROVE  FlushOrdered'
  BY <1>1, <1>10 DEF evl_get_element_by_fundle, ReadDrvdata, evl_get_element_by_dev, Drop
<1>11. CASE evl_hide_element \/ RemoveDevice \/ Dispose
  BY <1>1, <1>11 DEF evl_hide_element, RemoveDevice, Dispose
<1>. QED
  BY <1>1, <1>2, <1>3, <1>4, <1>5, <1>6, <1>7, <1>8, <1>9, <1>10, <1>11 DEF ElementNext

LEMMA ElementNextRefs ==
  ElementTypeOK /\ RefsCounted /\ Teardown /\ [ElementNext]_elemVars => RefsCounted'
<1>. SUFFICES ASSUME ElementTypeOK, RefsCounted, Teardown, [ElementNext]_elemVars
              PROVE  RefsCounted'
  OBVIOUS
<1>. USE DEF elemVars, elementVars, workVars
<1>. DEFINE H == Cardinality(holders)
            S == Cardinality(stage)
<1>a. H \in Nat /\ S \in Nat /\ IsFiniteSet(holders) /\ IsFiniteSet(stage)
  BY HoldersFinite
<1>b. refs = H + (IF safe THEN S ELSE 0) /\ refs \in Int /\ (fate = "live" <=> refs # 0)
  BY DEF RefsCounted, ElementTypeOK
<1>c. holders # {} => refs # 0
  BY NoneLeft
<1>d. safe /\ stage # {} => refs # 0
  BY NoneLeft
<1>e. ASSUME refs' = H' + (IF safe' THEN S' ELSE 0),
             fate' = "live" <=> refs' # 0
      PROVE  RefsCounted'
  BY <1>e DEF RefsCounted
<1>. HIDE DEF H, S
\* A user more, a user less, a request more, a request less.
<1>f. ASSUME NEW u, u \notin holders, holders' = holders \cup {u} PROVE H' = H + 1
  BY <1>a, <1>f, FS_AddElement DEF H
<1>g. ASSUME NEW u, u \in holders, holders' = holders \ {u} PROVE H' = H - 1
  BY <1>a, <1>g, FS_RemoveElement DEF H
<1>h. ASSUME NEW r, r \notin stage, stage' = stage \cup {r} PROVE S' = S + 1
  BY <1>a, <1>h, FS_AddElement DEF S
<1>i. ASSUME NEW r, r \in stage, stage' = stage \ {r} PROVE S' = S - 1
  BY <1>a, <1>i, FS_RemoveElement DEF S
<1>j. (holders' = holders => H' = H) /\ (stage' = stage => S' = S)
  BY DEF H, S
<1>k. evl_put_element /\ refs # 0 => refs' = refs - 1 /\ (fate' = "live" <=> refs' # 0)
  BY <1>b DEF evl_put_element
<1>1. CASE UNCHANGED <<safe, refs, holders, stage, fate>>
  BY <1>1, <1>b, <1>e, <1>j
<1>2. ASSUME NEW u \in Users,
             evl_get_element_by_fundle(u) \/ evl_get_element_by_dev(u)
      PROVE  RefsCounted'
  <2>1. CASE refs = 0
    BY <2>1, <1>2, <1>1 DEF evl_get_element_by_fundle, evl_get_element_by_dev,
       __evl_get_element
  <2>2. CASE refs # 0
    <3>1. /\ u \notin holders /\ holders' = holders \cup {u} /\ refs' = refs + 1
          /\ UNCHANGED <<safe, fate, stage>>
      BY <1>2, <2>2 DEF evl_get_element_by_fundle, evl_get_element_by_dev,
         __evl_get_element, Outside
    <3>. QED
      BY <3>1, <2>2, <1>a, <1>b, <1>e, <1>f, <1>j
  <2>. QED
    BY <2>1, <2>2
<1>3. ASSUME NEW u \in Users, Drop(u) PROVE RefsCounted'
  <2>1. /\ u \in holders /\ holders' = holders \ {u} /\ evl_put_element
        /\ refs # 0 /\ UNCHANGED <<safe, stage>>
    BY <1>3, <1>c DEF Drop
  <2>. QED
    BY <2>1, <1>a, <1>b, <1>e, <1>g, <1>j, <1>k
<1>4. ASSUME NEW u \in Users, evl_call_inband(u) PROVE RefsCounted'
  <2>1. /\ "irq" \notin stage /\ stage' = stage \cup {"irq"}
        /\ safe => refs # 0 /\ refs' = refs + 1
        /\ ~safe => refs' = refs
        /\ UNCHANGED <<safe, holders, fate>>
    BY <1>4 DEF evl_call_inband, __evl_get_element
  <2>. QED
    BY <2>1, <1>a, <1>b, <1>e, <1>h, <1>j
<1>5. CASE __evl_do_irq_work
  <2>1. /\ "irq" \in stage /\ stage' = Advance(stage, "irq", "wq")
        /\ UNCHANGED <<safe, holders>>
    BY <1>5 DEF __evl_do_irq_work, Moves
  <2>2. S' = IF "wq" \in stage THEN S - 1 ELSE S
    BY <2>1, <1>a, AdvanceCount DEF S
  <2>3. CASE safe /\ "wq" \in stage
    <3>1. evl_put_element /\ refs # 0
      BY <1>5, <2>3, <1>d DEF __evl_do_irq_work
    <3>. QED
      BY <3>1, <2>1, <2>2, <2>3, <1>a, <1>b, <1>e, <1>j, <1>k
  <2>4. CASE ~(safe /\ "wq" \in stage)
    <3>1. UNCHANGED <<refs, fate>>
      BY <1>5, <2>4 DEF __evl_do_irq_work
    <3>. QED
      BY <3>1, <2>1, <2>2, <2>4, <1>a, <1>b, <1>e, <1>j
  <2>. QED
    BY <2>3, <2>4
<1>6. CASE StartWork
  <2>1. /\ "wq" \in stage /\ "run" \notin stage /\ stage' = Advance(stage, "wq", "run")
        /\ UNCHANGED <<safe, holders, refs, fate>>
    BY <1>6 DEF StartWork, Moves
  <2>2. S' = S
    BY <2>1, <1>a, AdvanceCount DEF S
  <2>. QED
    BY <2>1, <2>2, <1>b, <1>e, <1>j
<1>7. CASE __evl_do_work
  <2>1. /\ "run" \in stage /\ stage' = stage \ {"run"} /\ UNCHANGED <<safe, holders>>
        /\ IF safe THEN evl_put_element ELSE UNCHANGED <<refs, fate>>
    BY <1>7 DEF __evl_do_work
  <2>2. CASE safe
    BY <2>1, <2>2, <1>a, <1>b, <1>d, <1>e, <1>i, <1>j, <1>k
  <2>3. CASE ~safe
    BY <2>1, <2>3, <1>a, <1>b, <1>e, <1>i, <1>j
  <2>. QED
    BY <2>2, <2>3
<1>8. CASE RemoveDevice \/ EndFlush
  <2>1. UNCHANGED <<safe, refs, holders, stage>> /\ (fate = "live" <=> fate' = "live")
    BY <1>8 DEF RemoveDevice, EndFlush, Teardown
  <2>. QED
    BY <2>1, <1>b, <1>e, <1>j
<1>9. CASE Dispose
  <2>1. UNCHANGED <<safe, refs, holders, stage>> /\ (fate = "live" <=> fate' = "live")
    BY <1>9 DEF Dispose
  <2>. QED
    BY <2>1, <1>b, <1>e, <1>j
<1>10. CASE evl_cancel_work
  <2>1. ~safe /\ UNCHANGED <<safe, refs, holders, fate>>
    BY <1>10 DEF evl_cancel_work, Teardown
  <2>. QED
    BY <2>1, <1>a, <1>b, <1>e, <1>j
<1>11. CASE evl_hide_element \/ BeginFlush \/ evl_flush_work \/ \E u \in Users : ReadDrvdata(u)
  BY <1>1, <1>11 DEF evl_hide_element, BeginFlush, evl_flush_work, ReadDrvdata
<1>. QED
  BY <1>1, <1>2, <1>3, <1>4, <1>5, <1>6, <1>7, <1>8, <1>9, <1>10, <1>11 DEF ElementNext

(* Once the last reference is gone only the work that is not safe, the     *)
(* operations of sysfs and the in-band kernel are left.                    *)
LEMMA ElementNextTeardown ==
  ElementTypeOK /\ RefsCounted /\ FlushOrdered /\ Teardown /\ [ElementNext]_elemVars
    => Teardown'
<1>. SUFFICES ASSUME ElementTypeOK, RefsCounted, FlushOrdered, Teardown,
                     [ElementNext]_elemVars
              PROVE  Teardown'
  OBVIOUS
<1>. USE DEF ElementTypeOK, Teardown, elemVars, elementVars, workVars
<1>a. fate # "live" => refs = 0 /\ holders = {} /\ (safe => stage = {})
  BY NoneLeft DEF RefsCounted
<1>b. fate = "live" => flusher \notin {"cancel", "cancel_wq"}
  OBVIOUS
<1>1. CASE UNCHANGED elemVars
  BY <1>1
<1>2. ASSUME NEW u \in Users, Getting(u)
      PROVE  Teardown'
  <2>1. CASE evl_get_element_by_fundle(u)
    BY <2>1 DEF evl_get_element_by_fundle
  <2>2. CASE ReadDrvdata(u)
    BY <2>2 DEF ReadDrvdata
  <2>3. CASE evl_get_element_by_dev(u)
    BY <2>3 DEF evl_get_element_by_dev
  <2>4. CASE Drop(u)
    <3>1. fate = "live"
      BY <1>a, <2>4 DEF Drop
    <3>. QED
      BY <1>b, <2>4, <3>1 DEF Drop, evl_put_element
  <2>5. CASE evl_call_inband(u)
    <3>1. fate = "live"
      BY <1>a, <2>5 DEF evl_call_inband
    <3>. QED
      BY <1>b, <2>5, <3>1 DEF evl_call_inband
  <2>. QED
    BY <1>2, <2>1, <2>2, <2>3, <2>4, <2>5 DEF Getting
<1>3. CASE evl_hide_element
  BY <1>3 DEF evl_hide_element
<1>4. CASE RemoveDevice
  BY <1>4, <1>a DEF RemoveDevice
<1>5. CASE Dispose
  BY <1>5 DEF Dispose
<1>6. CASE __evl_do_irq_work
  <2>1. "irq" \in stage /\ flusher' = flusher /\ UNCHANGED <<drvdata, inSysfs, safe>>
    BY <1>6 DEF __evl_do_irq_work
  <2>2. flusher # "cancel_wq" /\ fate \in {"live", "dying"}
    BY <2>1
  <2>3. CASE fate = "live"
    BY <1>b, <1>6, <2>1, <2>3 DEF __evl_do_irq_work, evl_put_element
  <2>4. CASE fate = "dying"
    <3>1. ~safe
      BY <1>a, <2>1, <2>4
    <3>. QED
      BY <1>6, <2>1, <2>2, <2>4, <3>1 DEF __evl_do_irq_work
  <2>. QED
    BY <2>2, <2>3, <2>4
<1>7. CASE StartWork
  BY <1>7 DEF StartWork, Moves, Advance
<1>8. CASE __evl_do_work
  <2>1. /\ "run" \in stage /\ stage' = stage \ {"run"} /\ barrier' = barrier \ {"run"}
        /\ flusher' = flusher /\ UNCHANGED <<drvdata, inSysfs, safe>>
    BY <1>8 DEF __evl_do_work
  <2>2. fate \in {"live", "dying"}
    BY <2>1
  <2>3. CASE fate = "live"
    BY <1>b, <1>8, <2>1, <2>3 DEF __evl_do_work, evl_put_element
  <2>4. CASE fate = "dying"
    <3>1. ~safe
      BY <1>a, <2>1, <2>4
    <3>2. fate' = "dying"
      BY <1>8, <2>4, <3>1 DEF __evl_do_work
    <3>. QED
      BY <2>1, <2>4, <3>1, <3>2
  <2>. QED
    BY <2>2, <2>3, <2>4
<1>9. CASE BeginFlush
  BY <1>9 DEF BeginFlush
<1>10. CASE evl_flush_work
  BY <1>10 DEF evl_flush_work
<1>11. CASE evl_cancel_work
  BY <1>11 DEF evl_cancel_work, irq_work_sync, Requests
<1>12. CASE EndFlush
  BY <1>12 DEF EndFlush
<1>. QED
  BY <1>1, <1>2, <1>3, <1>4, <1>5, <1>6, <1>7, <1>8, <1>9, <1>10, <1>11, <1>12
  DEF ElementNext, Getting

(* ElementIInv is an inductive invariant of elements (evl/factory.h) and   *)
(* of their work (evl/work.h).                                             *)
THEOREM ElementInvariant == ElementSpec => []ElementIInv
<1>1. ElementInit => ElementIInv
  BY ElementInitIInv
<1>2. ElementIInv /\ [ElementNext]_elemVars => ElementIInv'
  BY ElementNextType, ElementNextRefs, ElementNextFlush, ElementNextTeardown DEF ElementIInv
<1>. QED
  BY <1>1, <1>2, PTL DEF ElementSpec

(* The element outlives its users, in sysfs or out of it, and its work     *)
(* (evl/factory.h, evl/work.h), for any number of users.                   *)
THEOREM ElementOutlivesUsers == ElementSpec => []OutlivesUsers
<1>1. ElementIInv => OutlivesUsers
  <2>. SUFFICES ASSUME ElementIInv PROVE OutlivesUsers
    OBVIOUS
  <2>1. fate = "disposed" => holders = {}
    BY NoneLeft DEF ElementIInv, RefsCounted
  <2>. QED
    BY <2>1 DEF ElementIInv, RefsCounted, Teardown, OutlivesUsers
<1>. QED
  BY <1>1, ElementInvariant, PTL

(* evl_flush_work() and evl_cancel_work() return once the requests made    *)
(* before the call are over.                                               *)
THEOREM ElementFlushWaits == ElementSpec => []FlushWaits
<1>1. ElementIInv => FlushWaits
  BY DEF ElementIInv, FlushOrdered, FlushWaits
<1>. QED
  BY <1>1, ElementInvariant, PTL

-----------------------------------------------------------------------------
(***************************************************************************)
(* Flags.  Their type, that no thread sleeps on a raised flag, and that    *)
(* they implement the safety part of FlagPromise; liveness is left to TLC. *)
(***************************************************************************)
(***************************************************************************)
(* A call in progress has no outcome, and only the timer of a thread wakes *)
(* it up for a timeout.                                                    *)
(***************************************************************************)
InCall ==
  /\ \A t \in wait_list \cup woken : ret[t] = "none"
  /\ \A t \in woken :
       info[t] = "EVL_T_TIMEO" => timeout[t] # "EVL_INFINITE"

IInv == TypeOK /\ NoSleepOnRaised /\ TimeoutsRespected /\ InCall

\* The initial states satisfy the invariant.
LEMMA InitIInv == Init => IInv
BY DEF Init, IInv, TypeOK, NoSleepOnRaised, TimeoutsRespected, Calling, InCall, Reasons, FlushReasons,
       Timeouts, Returns

\* What every wakeup does to the invariant.
LEMMA WakeUpStep ==
  ASSUME IInv, NEW who \in SUBSET wait_list, NEW reason \in Reasons,
         WakeUp(who, reason), UNCHANGED <<timeout, ret>>,
         reason = "EVL_T_TIMEO" => \A t \in who : timeout[t] = "finite",
         raised' \in BOOLEAN, raised' => raised \/ who = wait_list
  PROVE  IInv'
BY DEF IInv, TypeOK, NoSleepOnRaised, TimeoutsRespected, Calling, InCall, WakeUp

\* Every step preserves the invariant.
LEMMA NextIInv == IInv /\ [Next]_flagVars => IInv'
<1>. SUFFICES ASSUME IInv, [Next]_flagVars PROVE IInv'
  OBVIOUS
<1>1. ASSUME NEW t \in Threads, evl_wait_flag_timeout(t) PROVE IInv'
  <2>. USE DEF IInv, TypeOK
  <2>1. t \notin wait_list \cup woken /\ UNCHANGED <<woken, timeout>>
    BY <1>1 DEF evl_wait_flag_timeout, Calling
  <2>2. CASE /\ evl_read_flag /\ Return(t, "ok")
             /\ UNCHANGED <<wait_list, info>>
    BY <2>1, <2>2 DEF NoSleepOnRaised, TimeoutsRespected, Calling, InCall, evl_read_flag, Return, Returns
  <2>3. CASE /\ Return(t, "EAGAIN") /\ timeout[t] = "EVL_NONBLOCK"
             /\ UNCHANGED <<raised, wait_list, info>>
    BY <2>1, <2>3 DEF NoSleepOnRaised, TimeoutsRespected, Calling, InCall, Return, Returns
  <2>4. CASE /\ ~raised /\ timeout[t] # "EVL_NONBLOCK"
             /\ evl_add_wait_queue(t) /\ Return(t, "none")
             /\ UNCHANGED raised
    BY <2>1, <2>4 DEF NoSleepOnRaised, TimeoutsRespected, Calling, InCall, evl_add_wait_queue, Return,
                      Returns, Reasons, FlushReasons
  <2>. QED
    BY <1>1, <2>2, <2>3, <2>4 DEF evl_wait_flag_timeout
<1>2. ASSUME NEW t \in Threads, Recheck(t) PROVE IInv'
  <2>. USE DEF IInv, TypeOK
  <2>1. /\ t \in woken /\ t \notin wait_list
        /\ woken' = woken \ {t} /\ UNCHANGED timeout
    BY <1>2 DEF Recheck
  <2>2. ASSUME NEW value \in Returns, Return(t, value),
               value = "ETIMEDOUT" => timeout[t] # "EVL_INFINITE",
               value # "EAGAIN",
               UNCHANGED <<raised, wait_list, info>>
        PROVE  IInv'
    BY <2>1, <2>2 DEF NoSleepOnRaised, TimeoutsRespected, Calling, InCall, Return
  <2>3. ASSUME evl_read_flag, Return(t, "ok"), UNCHANGED <<wait_list, info>>
        PROVE  IInv'
    BY <2>1, <2>3 DEF NoSleepOnRaised, TimeoutsRespected, Calling, InCall, evl_read_flag, Return, Returns
  <2>4. ASSUME ~raised, evl_add_wait_queue(t), UNCHANGED <<raised, ret>>
        PROVE  IInv'
    BY <2>1, <2>4 DEF NoSleepOnRaised, TimeoutsRespected, Calling, InCall, evl_add_wait_queue, Reasons,
                      FlushReasons
  <2>5. ASSUME info[t] \in DOMAIN Errors
        PROVE  /\ Errors[info[t]] \in Returns \ {"EAGAIN"}
               /\ Errors[info[t]] = "ETIMEDOUT" => timeout[t] # "EVL_INFINITE"
    BY <2>1, <2>5 DEF Errors, Returns, InCall
  <2>6. "bcast" \in Returns
    BY DEF Returns
  <2>. QED
    BY <1>2, <2>2, <2>3, <2>4, <2>5, <2>6 DEF Recheck
<1>3. ASSUME NEW t \in Threads, TimeOut(t) PROVE IInv'
  BY <1>3, WakeUpStep
  DEF IInv, TypeOK, TimeOut, Reasons
<1>4. ASSUME NEW t \in Threads, Unblock(t) PROVE IInv'
  BY <1>4, WakeUpStep DEF IInv, TypeOK, Unblock, Reasons
<1>5. CASE evl_raise_flag
  BY <1>5, WakeUpStep
  DEF IInv, TypeOK, evl_raise_flag, evl_flush_wait_locked, Reasons, FlushReasons
<1>6. ASSUME NEW reason \in FlushReasons \ {"none"}, evl_flush_flag(reason)
      PROVE  IInv'
  BY <1>6, WakeUpStep
  DEF IInv, TypeOK, evl_flush_flag, evl_flush_wait_locked, Reasons, FlushReasons
<1>7. CASE evl_clear_flag
  BY <1>7 DEF IInv, TypeOK, NoSleepOnRaised, TimeoutsRespected, Calling, InCall, evl_clear_flag
<1>8. CASE UNCHANGED flagVars
  BY <1>8 DEF flagVars, IInv, TypeOK, NoSleepOnRaised, TimeoutsRespected, Calling, InCall
<1>. QED
  BY <1>1, <1>2, <1>3, <1>4, <1>5, <1>6, <1>7, <1>8 DEF Next

THEOREM FlagInvariant == Spec => []IInv
BY InitIInv, NextIInv, PTL DEF Spec

(* The type invariant of the flag. *)
THEOREM FlagTypeOK == Spec => []TypeOK
BY FlagInvariant, PTL DEF IInv

(* No thread sleeps on a raised flag, for any number of threads. *)
THEOREM FlagNoSleepOnRaised == Spec => []NoSleepOnRaised
BY FlagInvariant, PTL DEF IInv

(* Timeouts are reported to those who asked for one. *)
THEOREM FlagTimeouts == Spec => []TimeoutsRespected
BY FlagInvariant, PTL DEF IInv

\* What a wakeup is for the promise: nothing, but for a raise.
LEMMA WakeUpHidden ==
  ASSUME NEW who \in SUBSET wait_list, NEW reason, WakeUp(who, reason)
  PROVE  Calling' = Calling
BY DEF WakeUp, Calling

(* The flag implements its promise, step by step (safety part). *)
THEOREM FlagKeepsPromise == Spec => Promise!SafeSpec
<1>1. Init => Promise!Init
  BY DEF Init, Promise!Init, Calling
<1>2. IInv /\ [Next]_flagVars => [Promise!Next]_(Promise!promiseVars)
  <2>. SUFFICES ASSUME IInv, [Next]_flagVars
                PROVE  Promise!Next \/ UNCHANGED Promise!promiseVars
    OBVIOUS
  <2>. USE DEF Promise!Next, Promise!promiseVars, IInv, TypeOK
  <2>1. ASSUME NEW t \in Threads, evl_wait_flag_timeout(t)
        PROVE  Promise!Call(t) \/ Promise!Take(t) \/ Promise!Leave(t)
    <3>1. t \notin Calling /\ UNCHANGED woken
      BY <2>1 DEF evl_wait_flag_timeout
    <3>2. CASE evl_read_flag /\ Return(t, "ok") /\ UNCHANGED wait_list
      BY <3>1, <3>2 DEF evl_read_flag, Return, Calling, Promise!Take
    <3>3. CASE ~raised /\ Return(t, "EAGAIN") /\ UNCHANGED <<raised, wait_list>>
      BY <3>1, <3>3 DEF Return, Calling, Promise!Leave
    <3>4. CASE /\ evl_add_wait_queue(t) /\ Return(t, "none")
               /\ UNCHANGED raised
      BY <3>1, <3>4 DEF evl_add_wait_queue, Return, Calling, Promise!Call
    <3>. QED
      BY <2>1, <3>2, <3>3, <3>4 DEF evl_wait_flag_timeout
  <2>2. ASSUME NEW t \in Threads, Recheck(t)
        PROVE  \/ Promise!Take(t) \/ Promise!Leave(t)
               \/ UNCHANGED Promise!promiseVars
    <3>1. t \in woken /\ t \notin wait_list /\ woken' = woken \ {t}
      BY <2>2 DEF Recheck
    <3>2. ASSUME NEW value, value # "ok", Return(t, value),
                 UNCHANGED <<raised, wait_list>>
          PROVE  Promise!Leave(t)
      BY <3>1, <3>2 DEF Return, Calling, Promise!Leave
    <3>3. ASSUME evl_read_flag, Return(t, "ok"), UNCHANGED wait_list
          PROVE  Promise!Take(t)
      BY <3>1, <3>3 DEF evl_read_flag, Return, Calling, Promise!Take
    <3>4. ASSUME evl_add_wait_queue(t), UNCHANGED <<raised, ret>>
          PROVE  UNCHANGED Promise!promiseVars
      BY <3>1, <3>4 DEF evl_add_wait_queue, Calling
    <3>5. info[t] \in DOMAIN Errors => Errors[info[t]] # "ok"
      BY DEF Errors
    <3>. QED
      BY <2>2, <3>2, <3>3, <3>4, <3>5 DEF Recheck
  <2>3. ASSUME NEW t \in Threads, TimeOut(t) \/ Unblock(t)
        PROVE  UNCHANGED Promise!promiseVars
    BY <2>3, WakeUpHidden DEF TimeOut, Unblock
  <2>4. CASE evl_raise_flag
    <3>1. Calling' = Calling
      BY <2>4, WakeUpHidden DEF evl_raise_flag, evl_flush_wait_locked
    <3>. QED
      BY <2>4, <3>1 DEF evl_raise_flag, Promise!Raise
  <2>5. ASSUME NEW reason \in FlushReasons, evl_flush_flag(reason)
        PROVE  UNCHANGED Promise!promiseVars
    BY <2>5, WakeUpHidden DEF evl_flush_flag, evl_flush_wait_locked
  <2>6. CASE evl_clear_flag
    BY <2>6 DEF evl_clear_flag, Promise!Clear, Calling
  <2>7. CASE UNCHANGED flagVars
    BY <2>7 DEF flagVars, Calling
  <2>. QED
    BY <2>1, <2>2, <2>3, <2>4, <2>5, <2>6, <2>7 DEF Next
<1>. QED
  BY <1>1, <1>2, FlagInvariant, PTL DEF Spec, Promise!SafeSpec

-----------------------------------------------------------------------------
(***************************************************************************)
(* Timers.  The queue of a base is abstracted by the set of its timers and *)
(* their dates: its head is one of the first.                              *)
(***************************************************************************)
TimerBits == {"DEQUEUED", "KGRAVITY", "UGRAVITY", "FIRED", "PERIODIC", "RUNNING"}
RqBits == {"RQ_TIMER", "RQ_TPROXY", "RQ_IDLE"}
TQueue == [q : Seq(Timers), head : Timers \cup {None}]

TimerTypeOK ==
  /\ now \in 0 .. MaxDate
  /\ base \in [Cpus -> TQueue]
  /\ status \in [Timers -> SUBSET TimerBits]
  /\ rq \in [Timers -> Cpus]
  /\ date \in [Timers -> Int]
  /\ interval \in [Timers -> Nat]
  /\ start_date \in [Timers -> Nat]
  /\ periodic_ticks \in [Timers -> Nat]
  /\ firing \in [Cpus -> Timers \cup {None}]
  /\ rq_flags \in [Cpus -> SUBSET RqBits]
  /\ shot \in [Cpus -> Int]
  /\ timer_ipi \in [Cpus -> BOOLEAN]
  /\ inband_tick \in [Cpus -> BOOLEAN]

Running(t) ==
  /\ Queued(t) => evl_timer_is_running(t)
  /\ evl_timer_is_running(t) /\ ~Queued(t) =>
       "FIRED" \in status[t] /\ (Fires(t) \/ ~evl_timer_is_periodic(t))
  /\ evl_timer_is_periodic(t) => interval[t] > 0
  /\ Queued(t) => evl_get_timer_expiry(t) = start_date[t] + periodic_ticks[t] * interval[t]

\* The tick handler has its flag set as long as it runs and owes something.
TickFlagged(c) ==
  /\ firing[c] # None => Ticking(c)
  /\ inband_tick[c] => {"RQ_TIMER", "RQ_TPROXY"} \subseteq rq_flags[c]

\* A queue of these timers.
TqOK(tq, R, d) == tq \in TQueue /\ InOrder(tq, R, d)

\* Flags f, a shot at s and an IPI on its way or not do for these timers.
Timely(f, s, ipi, R, d) ==
  R # {} /\ "RQ_TIMER" \notin f /\ ~ipi =>
    /\ \A u \in R : s <= d[u]
    /\ "RQ_IDLE" \notin f

Placed(c) ==
  /\ TqOK(base[c], QueuedOn(c), date)
  /\ Timely(rq_flags[c], shot[c], timer_ipi[c], QueuedOn(c), date)

TimerIInv ==
  /\ TimerTypeOK
  /\ \A c \in Cpus : Placed(c) /\ TickFlagged(c)
  /\ \A t \in Timers : Running(t)

Dates == [Timers -> Int]
\* h is the first of these timers.
First(h, R, d) ==
  IF R = {} THEN h = None ELSE h \in R /\ \A u \in R : d[h] <= d[u]

\* A queue entry by entry.
Entries(q, h, R, d) ==
  /\ q \in Seq(Timers) /\ Len(q) \in Nat /\ h \in Timers \cup {None}
  /\ \A i \in 1 .. Len(q) : q[i] \in R
  /\ \A u \in R : \E i \in 1 .. Len(q) : q[i] = u
  /\ Distinct(q)
  /\ \A i, j \in 1 .. Len(q) : i < j => d[q[i]] <= d[q[j]]
  /\ scalable => h = IF Len(q) = 0 THEN None ELSE q[1]

LEMMA TqEntries ==
  ASSUME NEW R \in SUBSET Timers, NEW tq, NEW d \in Dates, TqOK(tq, R, d)
  PROVE  Entries(tq.q, tq.head, R, d) /\ DOMAIN tq.q = 1 .. Len(tq.q)
<1>1. tq.q \in Seq(Timers) /\ tq.head \in Timers \cup {None}
  BY DEF TqOK, TQueue
<1>2. Len(tq.q) \in Nat /\ DOMAIN tq.q = 1 .. Len(tq.q) /\ (tq.q = << >> <=> Len(tq.q) = 0)
  BY <1>1, LenProperties, EmptySeq
<1>3. tq.q # << >> => Head(tq.q) = tq.q[1]
  BY <1>1
<1>. QED
  BY <1>1, <1>2, <1>3 DEF TqOK, InOrder, Distinct, Entries

LEMMA TqIntro ==
  ASSUME NEW R \in SUBSET Timers, NEW q, NEW h, NEW d \in Dates, Entries(q, h, R, d)
  PROVE  TqOK([q |-> q, head |-> h], R, d)
<1>. USE DEF Entries
<1>1. DOMAIN q = 1 .. Len(q) /\ (q = << >> <=> Len(q) = 0)
  BY LenProperties, EmptySeq
<1>2. q # << >> => Head(q) = q[1]
  OBVIOUS
<1>. QED
  BY <1>1, <1>2 DEF TqOK, TQueue, InOrder, Distinct

LEMMA TqFirst ==
  ASSUME NEW R \in SUBSET Timers, NEW tq, NEW d \in Dates, TqOK(tq, R, d)
  PROVE  First(evl_get_tqueue_head(tq), R, d)
<1>. DEFINE q == tq.q
<1>1. Entries(q, tq.head, R, d)
  BY TqEntries
<1>. USE DEF Entries
<1>2. evl_get_tqueue_head(tq) = IF Len(q) = 0 THEN None ELSE q[1]
  BY <1>1, EmptySeq DEF evl_get_tqueue_head
<1>. HIDE DEF q
<1>3. Len(q) = 0 <=> R = {}
  BY <1>1
<1>4. ASSUME Len(q) # 0, NEW u \in R PROVE d[q[1]] <= d[u]
  <2>1. PICK i \in 1 .. Len(q) : q[i] = u
    BY <1>1
  <2>2. CASE i = 1
    BY <2>1, <2>2 DEF Dates
  <2>3. CASE i # 1
    BY <1>1, <2>1, <2>3
  <2>. QED
    BY <2>2, <2>3
<1>. QED
  BY <1>1, <1>2, <1>3, <1>4 DEF First

\* The dates of other timers do not matter.
LEMMA TqDates ==
  ASSUME NEW R \in SUBSET Timers, NEW tq, NEW d \in Dates, NEW e \in Dates, TqOK(tq, R, d),
         \A u \in R : e[u] = d[u]
  PROVE  TqOK(tq, R, e)
BY TqEntries DEF TqOK, InOrder

LEMMA TqDequeue ==
  ASSUME NEW R \in SUBSET Timers, NEW tq, NEW d \in Dates, TqOK(tq, R, d), NEW t \in R
  PROVE  TqOK(evl_dequeue_timer(t, tq), R \ {t}, d)
<1>. DEFINE q == tq.q
            r == RemoveFirst(q, t)
            h == IF t = tq.head THEN evl_get_tqueue_next(tq, t) ELSE tq.head
<1>1. Entries(q, tq.head, R, d) /\ DOMAIN q = 1 .. Len(q)
  BY TqEntries
<1>2. PICK k \in 1 .. Len(q) : q[k] = t
  BY <1>1 DEF Entries
<1>3. evl_dequeue_timer(t, tq) = [q |-> r, head |-> h]
  BY DEF evl_dequeue_timer, evl_remove_tnode
<1>. USE DEF Entries
<1>4. evl_get_tqueue_next(tq, t) = IF k = Len(q) THEN None ELSE q[k + 1]
  <2>1. Last(q) = t <=> k = Len(q)
    BY <1>1, <1>2 DEF Last, Distinct
  <2>2. (CHOOSE n \in DOMAIN q : q[n] = t) = k
    BY <1>1, <1>2 DEF Distinct
  <2>. DEFINE c == CHOOSE n \in DOMAIN q : q[n] = t
  <2>3. evl_get_tqueue_next(tq, t) = IF Last(q) = t THEN None ELSE q[1 + c]
    BY DEF evl_get_tqueue_next
  <2>4. c = k
    BY <2>2
  <2>. HIDE DEF c
  <2>5. 1 + c = k + 1
    BY <2>4
  <2>. QED
    BY ONLY <2>1, <2>3, <2>5
<1>5. r = RemoveAt(q, k)
  BY <1>1, <1>2, RemoveFirstAt
<1>. HIDE DEF q, r
<1>6. r \in Seq(Timers) /\ RemovalOf(r, q, k)
  BY <1>1, <1>5, RemoveAtProperties
<1>7. /\ Len(q) \in Nat /\ Len(r) \in Nat /\ Len(r) = Len(q) - 1
      /\ \A i \in 1 .. Len(r) : r[i] = IF i < k THEN q[i] ELSE q[i + 1]
  BY <1>1, <1>6 DEF RemovalOf
<1>8. \A i \in 1 .. Len(r) : r[i] \in R \ {t}
  BY <1>1, <1>2, <1>7 DEF Distinct
<1>9. ASSUME NEW u \in R \ {t} PROVE \E i \in 1 .. Len(r) : r[i] = u
  <2>1. PICK i \in 1 .. Len(q) : q[i] = u
    BY <1>1
  <2>2. CASE i < k
    <3>1. i \in 1 .. Len(r) /\ r[i] = q[i]
      BY <2>2, <1>7
    <3>. QED
      BY <2>1, <3>1
  <2>3. CASE k < i
    <3>1. i - 1 \in 1 .. Len(r) /\ ~(i - 1 < k) /\ (i - 1) + 1 = i
      BY <2>3, <1>7
    <3>2. r[i - 1] = q[i]
      BY <3>1, <1>7
    <3>. QED
      BY <2>1, <3>1, <3>2
  <2>4. i # k
    BY <2>1, <1>2
  <2>. QED
    BY <2>2, <2>3, <2>4
<1>10. ASSUME NEW i \in 1 .. Len(r), NEW j \in 1 .. Len(r), i < j
       PROVE  r[i] # r[j] /\ d[r[i]] <= d[r[j]]
  <2>. DEFINE a == IF i < k THEN i ELSE i + 1
              b == IF j < k THEN j ELSE j + 1
  <2>1. /\ a \in 1 .. Len(q) /\ b \in 1 .. Len(q) /\ a < b
        /\ r[i] = q[a] /\ r[j] = q[b]
    BY <1>7, <1>10
  <2>. HIDE DEF a, b
  <2>. QED
    BY <1>1, <2>1 DEF Distinct
<1>11. h \in Timers \cup {None}
  <2>1. k # Len(q) => q[k + 1] \in R
    <3>1. k # Len(q) => k + 1 \in 1 .. Len(q)
      BY <1>7
    <3>. QED
      BY <1>1, <3>1
  <2>. QED
    BY <1>1, <1>4, <2>1
<1>12. ASSUME scalable PROVE h = IF Len(r) = 0 THEN None ELSE r[1]
  <2>1. tq.head = q[1] /\ (t = tq.head <=> k = 1)
    BY <1>1, <1>2, <1>12 DEF Distinct
  <2>2. CASE k = 1
    BY <1>4, <1>7, <2>1, <2>2
  <2>3. CASE k # 1
    BY <1>7, <2>1, <2>3
  <2>. QED
    BY <2>2, <2>3
<1>. HIDE DEF h
<1>13. Distinct(r)
  BY <1>10 DEF Distinct
<1>14. Entries(r, h, R \ {t}, d)
  BY ONLY <1>6, <1>7, <1>8, <1>9, <1>10, <1>11, <1>12, <1>13 DEF Entries
<1>15. R \ {t} \in SUBSET Timers
  OBVIOUS
<1>. HIDE DEF Entries, TqOK
<1>16. TqOK([q |-> r, head |-> h], R \ {t}, d)
  BY <1>14, <1>15, TqIntro
<1>. QED
  BY ONLY <1>3, <1>16

LEMMA TqEnqueue ==
  ASSUME NEW R \in SUBSET Timers, NEW tq, NEW d \in Dates, TqOK(tq, R, d),
         NEW t \in Timers, t \notin R
  PROVE  TqOK(evl_enqueue_timer(t, tq, d), R \cup {t}, d)
<1>. DEFINE q == tq.q
            I == {k \in DOMAIN q : d[q[k]] <= d[t]}
<1>1. Entries(q, tq.head, R, d) /\ DOMAIN q = 1 .. Len(q)
  BY TqEntries
<1>. USE DEF Entries
<1>2. PICK n \in 0 .. Len(q) : \A i \in 1 .. Len(q) : d[q[i]] <= d[t] <=> i <= n
  <2>1. I \in SUBSET (1 .. Len(q)) /\ \A i \in 1 .. Len(q) : i \in I <=> d[q[i]] <= d[t]
    BY <1>1
  <2>2. \A i \in 1 .. Len(q) : d[q[i]] \in Int /\ d[t] \in Int
    BY <1>1 DEF Dates
  <2>3. \A i \in I, j \in 1 .. Len(q) : j < i => j \in I
    BY <1>1, <2>1, <2>2
  <2>. HIDE DEF I
  <2>4. \E h \in 0 .. Len(q) : \A i \in 1 .. Len(q) : i \in I <=> i <= h
    BY <1>1, <2>1, <2>3, PrefixEnds
  <2>. QED
    BY <2>1, <2>4
<1>3. Max({0} \cup I) = n
  <2>1. {0} \cup I = {k \in 0 .. Len(q) : k <= n}
    BY <1>1, <1>2
  <2>2. n \in {0} \cup I /\ \A y \in {0} \cup I : n >= y
    <3>1. Len(q) \in Nat
      BY <1>1
    <3>. QED
      BY ONLY <2>1, <3>1, n \in 0 .. Len(q)
  <2>3. ASSUME NEW x \in {0} \cup I, \A y \in {0} \cup I : x >= y PROVE x = n
    <3>1. Len(q) \in Nat
      BY <1>1
    <3>2. x \in {k \in 0 .. Len(q) : k <= n}
      BY ONLY <2>1, <2>3
    <3>3. x >= n
      BY ONLY <2>2, <2>3
    <3>. QED
      BY ONLY <3>1, <3>2, <3>3, n \in 0 .. Len(q)
  <2>. HIDE DEF I
  <2>. QED
    BY <2>2, <2>3 DEF Max
<1>. DEFINE r == InsertAt(q, n + 1, t)
            h == IF n = 0 THEN t ELSE tq.head
<1>4. evl_enqueue_timer(t, tq, d) = [q |-> r, head |-> h]
  BY <1>3 DEF evl_enqueue_timer, evl_insert_tnode
<1>. HIDE DEF q, I
<1>5. r \in Seq(Timers) /\ InsertionOf(r, q, n + 1, t)
  <2>1. n + 1 \in 1 .. Len(q) + 1
    BY <1>1
  <2>. QED
    BY <1>1, <2>1, InsertAtProperties
<1>. HIDE DEF r
<1>6. /\ Len(q) \in Nat /\ Len(r) \in Nat /\ Len(r) = Len(q) + 1
      /\ \A i \in 1 .. Len(r) :
           r[i] = IF i <= n THEN q[i] ELSE IF i = n + 1 THEN t ELSE q[i - 1]
  BY <1>1, <1>5 DEF InsertionOf
<1>7. \A i \in 1 .. Len(r) : r[i] \in R \cup {t}
  <2>1. \A i \in 1 .. Len(r) : /\ i <= n => i \in 1 .. Len(q)
                              /\ n + 1 < i => i - 1 \in 1 .. Len(q)
                              /\ (i <= n \/ i = n + 1 \/ n + 1 < i)
    BY <1>6
  <2>. QED
    BY <1>1, <1>6, <2>1
<1>8. ASSUME NEW u \in R \cup {t} PROVE \E i \in 1 .. Len(r) : r[i] = u
  <2>1. CASE u = t
    <3>1. n + 1 \in 1 .. Len(r) /\ r[n + 1] = t
      BY <1>6
    <3>. QED
      BY <2>1, <3>1
  <2>2. CASE u # t
    <3>1. PICK i \in 1 .. Len(q) : q[i] = u
      BY <1>1, <2>2
    <3>2. CASE i <= n
      <4>1. i \in 1 .. Len(r) /\ r[i] = q[i]
        BY <3>2, <1>6
      <4>. QED
        BY <3>1, <4>1
    <3>3. CASE n < i
      <4>1. i + 1 \in 1 .. Len(r) /\ ~(i + 1 <= n) /\ i + 1 # n + 1 /\ (i + 1) - 1 = i
        BY <3>3, <1>6
      <4>2. r[i + 1] = q[i]
        BY <4>1, <1>6
      <4>. QED
        BY <3>1, <4>1, <4>2
    <3>. QED
      BY <3>2, <3>3
  <2>. QED
    BY <2>1, <2>2
<1>9. ASSUME NEW i \in 1 .. Len(r), NEW j \in 1 .. Len(r), i < j
      PROVE  r[i] # r[j] /\ d[r[i]] <= d[r[j]]
  <2>1. \A m \in 1 .. Len(q) : q[m] # t /\ d[q[m]] \in Int /\ d[t] \in Int
    BY <1>1 DEF Dates
  <2>2. CASE i = n + 1
    <3>1. /\ r[i] = t /\ r[j] = q[j - 1]
          /\ j - 1 \in 1 .. Len(q) /\ ~(j - 1 <= n)
      BY <1>6, <1>9, <2>2
    <3>. QED
      BY <1>2, <2>1, <3>1
  <2>3. CASE j = n + 1
    <3>1. /\ r[j] = t /\ r[i] = q[i]
          /\ i \in 1 .. Len(q) /\ i <= n
      BY <1>6, <1>9, <2>3
    <3>. QED
      BY <1>2, <2>1, <3>1
  <2>4. CASE i # n + 1 /\ j # n + 1
    <3>. DEFINE a == IF i <= n THEN i ELSE i - 1
                b == IF j <= n THEN j ELSE j - 1
    <3>1. /\ a \in 1 .. Len(q) /\ b \in 1 .. Len(q) /\ a < b
          /\ r[i] = q[a] /\ r[j] = q[b]
      BY <1>6, <1>9, <2>4
    <3>. HIDE DEF a, b
    <3>. QED
      BY <1>1, <3>1 DEF Distinct
  <2>. QED
    BY <2>2, <2>3, <2>4
<1>10. h \in Timers \cup {None}
  BY <1>1
<1>11. ASSUME scalable PROVE h = IF Len(r) = 0 THEN None ELSE r[1]
  <2>1. 1 \in 1 .. Len(r) /\ (n # 0 => 1 <= n /\ Len(q) # 0) /\ (n = 0 => ~(1 <= n) /\ 1 = n + 1)
    BY <1>6
  <2>. QED
    BY <1>1, <1>6, <1>11, <2>1
<1>. HIDE DEF h
<1>12. Distinct(r)
  BY <1>9 DEF Distinct
<1>13. Entries(r, h, R \cup {t}, d)
  BY ONLY <1>5, <1>6, <1>7, <1>8, <1>9, <1>10, <1>11, <1>12 DEF Entries
<1>14. R \cup {t} \in SUBSET Timers
  OBVIOUS
<1>. HIDE DEF Entries, TqOK
<1>15. TqOK([q |-> r, head |-> h], R \cup {t}, d)
  BY <1>13, <1>14, TqIntro
<1>. QED
  BY ONLY <1>4, <1>15

-----------------------------------------------------------------------------
\* What programming the device of c with these flags leaves.
LocalShot(c, flags, R, d) ==
  /\ rq_flags' \in [Cpus -> SUBSET RqBits] /\ shot' \in [Cpus -> Int]
  /\ \A o \in Cpus \ {c} : rq_flags'[o] = rq_flags[o] /\ shot'[o] = shot[o]
  /\ \A b \in {"RQ_TIMER", "RQ_TPROXY"} : b \in rq_flags'[c] <=> b \in flags
  /\ \A ipi \in BOOLEAN : Timely(rq_flags'[c], shot'[c], ipi, R, d)

LEMMA ProgramLocal ==
  ASSUME TimerTypeOK, NEW c \in Cpus, NEW flags \in SUBSET RqBits,
         NEW R \in SUBSET Timers, NEW tq, NEW d \in Dates, TqOK(tq, R, d),
         evl_program_local_tick(c, flags, tq, d)
  PROVE  LocalShot(c, flags, R, d)
<1>1. First(evl_get_tqueue_head(tq), R, d)
  BY TqFirst
<1>2. evl_tqueue_is_empty(tq) <=> R = {}
  BY <1>1, TimerAssumption DEF First, evl_tqueue_is_empty
<1>3. rq_flags \in [Cpus -> SUBSET RqBits] /\ shot \in [Cpus -> Int]
  BY DEF TimerTypeOK
<1>4. CASE "RQ_TIMER" \in flags
  <2>1. rq_flags' = [rq_flags EXCEPT ![c] = flags] /\ shot' = shot
    BY <1>4 DEF evl_program_local_tick
  <2>. QED
    BY <1>3, <1>4, <2>1 DEF LocalShot, Timely
<1>5. CASE "RQ_TIMER" \notin flags /\ R = {}
  <2>1. rq_flags' = [rq_flags EXCEPT ![c] = flags \cup {"RQ_IDLE"}] /\ shot' = [shot EXCEPT ![c] = @]
    BY <1>2, <1>5 DEF evl_program_local_tick
  <2>. QED
    BY <1>3, <1>5, <2>1 DEF LocalShot, Timely, RqBits
<1>6. CASE "RQ_TIMER" \notin flags /\ R # {}
  <2>. DEFINE h == evl_get_tqueue_head(tq)
  <2>1. rq_flags' = [rq_flags EXCEPT ![c] = flags \ {"RQ_IDLE"}] /\ shot' = [shot EXCEPT ![c] = d[h]]
    BY <1>2, <1>6 DEF evl_program_local_tick
  <2>2. d[h] \in Int /\ \A u \in R : d[h] <= d[u]
    BY <1>1, <1>6 DEF First, Dates
  <2>. HIDE DEF h
  <2>3. /\ rq_flags' \in [Cpus -> SUBSET RqBits] /\ shot' \in [Cpus -> Int]
        /\ \A o \in Cpus \ {c} : rq_flags'[o] = rq_flags[o] /\ shot'[o] = shot[o]
        /\ rq_flags'[c] = flags \ {"RQ_IDLE"} /\ shot'[c] = d[h]
    BY <1>3, <2>1, <2>2
  <2>4. \A b \in {"RQ_TIMER", "RQ_TPROXY"} : b \in rq_flags'[c] <=> b \in flags
    BY <2>3
  <2>. QED
    BY <2>2, <2>3, <2>4 DEF LocalShot, Timely
<1>. QED
  BY <1>4, <1>5, <1>6

\* What the device of a CPU is left as when its queue holds the timers R.
DeviceFor(cpu, R, d) ==
  /\ rq_flags' \in [Cpus -> SUBSET RqBits] /\ shot' \in [Cpus -> Int]
  /\ timer_ipi' \in [Cpus -> BOOLEAN]
  /\ \A o \in Cpus \ {cpu} :
       rq_flags'[o] = rq_flags[o] /\ shot'[o] = shot[o] /\ timer_ipi'[o] = timer_ipi[o]
  /\ \A o \in Cpus, b \in {"RQ_TIMER", "RQ_TPROXY"} : b \in rq_flags'[o] <=> b \in rq_flags[o]
  /\ Timely(rq_flags'[cpu], shot'[cpu], timer_ipi'[cpu], R, d)

LEMMA DeviceUnchanged ==
  ASSUME TimerTypeOK, NEW cpu \in Cpus, NEW R, NEW d, UNCHANGED device,
         Timely(rq_flags[cpu], shot[cpu], timer_ipi[cpu], R, d)
  PROVE  DeviceFor(cpu, R, d)
BY DEF DeviceFor, TimerTypeOK, device

LEMMA DeviceLocal ==
  ASSUME TimerTypeOK, NEW c \in Cpus, NEW R \in SUBSET Timers, NEW tq, NEW d \in Dates,
         TqOK(tq, R, d), evl_program_local_tick(c, rq_flags[c], tq, d), UNCHANGED timer_ipi
  PROVE  DeviceFor(c, R, d)
<1>1. /\ rq_flags \in [Cpus -> SUBSET RqBits]
      /\ timer_ipi \in [Cpus -> BOOLEAN] /\ rq_flags[c] \in SUBSET RqBits
  BY DEF TimerTypeOK
<1>2. LocalShot(c, rq_flags[c], R, d)
  BY <1>1, ProgramLocal
<1>. QED
  BY <1>1, <1>2 DEF LocalShot, DeviceFor

LEMMA DeviceShot ==
  ASSUME TimerTypeOK, NEW c \in Cpus, NEW cpu \in Cpus, NEW t \in Timers,
         NEW R \in SUBSET Timers, NEW tq, NEW d \in Dates, TqOK(tq, R \cup {t}, d),
         Timely(rq_flags[cpu], shot[cpu], timer_ipi[cpu], R, d),
         ProgramShot(c, cpu, t, tq, d)
  PROVE  DeviceFor(cpu, R \cup {t}, d)
<1>. DEFINE h == evl_get_tqueue_head(tq)
<1>1. R \cup {t} \in SUBSET Timers
  OBVIOUS
<1>2. First(h, R \cup {t}, d)
  BY <1>1, TqFirst
<1>3. CASE h # t
  <2>1. h \in R /\ \A u \in R \cup {t} : d[h] <= d[u] /\ d[u] \in Int /\ d[h] \in Int
    BY <1>1, <1>2, <1>3 DEF First, Dates
  <2>2. shot[cpu] \in Int
    BY DEF TimerTypeOK
  <2>. HIDE DEF h
  <2>3. Timely(rq_flags[cpu], shot[cpu], timer_ipi[cpu], R \cup {t}, d)
    BY <2>1, <2>2 DEF Timely
  <2>4. UNCHANGED device
    BY <1>3 DEF ProgramShot, h
  <2>. QED
    BY <2>3, <2>4, DeviceUnchanged
<1>4. CASE h = t /\ cpu = c
  <2>1. evl_program_local_tick(c, rq_flags[c], tq, d) /\ UNCHANGED timer_ipi
    BY <1>4 DEF ProgramShot
  <2>. QED
    BY <1>1, <1>4, <2>1, DeviceLocal
<1>5. CASE h = t /\ cpu # c
  <2>1. timer_ipi' = [timer_ipi EXCEPT ![cpu] = TRUE] /\ UNCHANGED <<rq_flags, shot>>
    BY <1>5 DEF ProgramShot, evl_program_remote_tick
  <2>. QED
    BY <2>1 DEF DeviceFor, TimerTypeOK, Timely
<1>. QED
  BY <1>3, <1>4, <1>5

-----------------------------------------------------------------------------
\* What a step has to show of a CPU and of a timer.
LEMMA PlacedAfter ==
  ASSUME NEW c \in Cpus, NEW R, QueuedOn(c)' = R, scalable' = scalable,
         TqOK(base'[c], R, date'), Timely(rq_flags'[c], shot'[c], timer_ipi'[c], R, date')
  PROVE  Placed(c)'
BY DEF Placed, TqOK, InOrder, Timely

LEMMA PlacedKept ==
  ASSUME NEW c \in Cpus, Placed(c), QueuedOn(c)' = QueuedOn(c), scalable' = scalable,
         base'[c] = base[c], date \in Dates, date' \in Dates,
         \A u \in QueuedOn(c) : date'[u] = date[u],
         rq_flags'[c] = rq_flags[c], shot'[c] = shot[c], timer_ipi'[c] = timer_ipi[c]
  PROVE  Placed(c)'
<1>1. QueuedOn(c) \in SUBSET Timers
  BY DEF QueuedOn
<1>2. TqOK(base'[c], QueuedOn(c), date')
  BY <1>1, TqDates DEF Placed
<1>3. Timely(rq_flags'[c], shot'[c], timer_ipi'[c], QueuedOn(c), date')
  BY DEF Placed, Timely
<1>. QED
  BY <1>2, <1>3, PlacedAfter

LEMMA RunningKept ==
  ASSUME NEW t \in Timers, Running(t), status'[t] = status[t], date'[t] = date[t],
         interval'[t] = interval[t], start_date'[t] = start_date[t],
         periodic_ticks'[t] = periodic_ticks[t], Fires(t) => Fires(t)'
  PROVE  Running(t)'
BY DEF Running, Queued, evl_timer_is_running, evl_timer_is_periodic,
       evl_get_timer_expiry, evl_get_timer_gravity

LEMMA QueuedAfter ==
  ASSUME NEW t \in Timers, NEW c \in Cpus,
         \A u \in Timers \ {t} : status'[u] = status[u] /\ rq'[u] = rq[u]
  PROVE  QueuedOn(c)' = IF "DEQUEUED" \notin status'[t] /\ rq'[t] = c
                        THEN QueuedOn(c) \cup {t} ELSE QueuedOn(c) \ {t}
BY DEF QueuedOn, Queued

LEMMA QueuedTypes ==
  ASSUME TimerIInv, NEW c \in Cpus
  PROVE  /\ QueuedOn(c) \in SUBSET Timers
         /\ \A t \in Timers : t \in QueuedOn(c) <=> Queued(t) /\ rq[t] = c
         /\ date \in Dates
         /\ TqOK(base[c], QueuedOn(c), date)
         /\ Timely(rq_flags[c], shot[c], timer_ipi[c], QueuedOn(c), date)
BY DEF TimerIInv, TimerTypeOK, Placed, QueuedOn, Dates

LEMMA GravityType == ASSUME NEW t PROVE evl_get_timer_gravity(t) \in Nat
BY TimerAssumption DEF evl_get_timer_gravity

\* Fewer timers, with the same dates, are served as well.
LEMMA TimelyFewer ==
  ASSUME NEW f, NEW s, NEW ipi, NEW R, NEW d, NEW e, Timely(f, s, ipi, R, d),
         NEW S \in SUBSET R, \A u \in S : e[u] = d[u]
  PROVE  Timely(f, s, ipi, S, e)
BY DEF Timely

-----------------------------------------------------------------------------
LEMMA TimerInitIInv == ASSUME TimerInit PROVE TimerIInv
<1>. USE TimerAssumption DEF TimerInit
<1>1. TimerTypeOK
  <2>1. evl_init_tqueue \in TQueue
    BY EmptySeq DEF evl_init_tqueue, TQueue
  <2>2. \A t \in Timers : {"DEQUEUED"} \cup InitFlags[t] \in SUBSET TimerBits
    BY DEF TimerBits
  <2>3. Infinite \in Int /\ {"RQ_IDLE"} \in SUBSET RqBits /\ now \in 0 .. MaxDate
    BY DEF Infinite, RqBits
  <2>. QED
    BY <2>1, <2>2, <2>3 DEF TimerTypeOK
<1>2. ASSUME NEW c \in Cpus PROVE Placed(c)
  <2>1. QueuedOn(c) = {}
    BY DEF QueuedOn, Queued
  <2>2. base[c] \in TQueue /\ base[c].q = << >> /\ base[c].head = None
    BY <1>1 DEF TimerTypeOK, evl_init_tqueue
  <2>3. InOrder(base[c], {}, date)
    BY <2>2 DEF InOrder
  <2>. QED
    BY <2>1, <2>2, <2>3 DEF Placed, TqOK, Timely
<1>3. \A c \in Cpus : TickFlagged(c)
  BY DEF TickFlagged
<1>4. \A t \in Timers : Running(t)
  BY DEF Running, Queued, evl_timer_is_running, evl_timer_is_periodic
<1>. QED
  BY <1>1, <1>2, <1>3, <1>4 DEF TimerIInv

LEMMA StartTimerStep ==
  ASSUME TimerIInv, NEW c \in Cpus, NEW t \in Timers, NEW value \in Nat, NEW ival \in Nat,
         evl_start_timer(c, t, value, ival)
  PROVE  TimerIInv'
<1>. DEFINE r == rq[t]
            R == QueuedOn(r) \ {t}
            d == [date EXCEPT ![t] = value - evl_get_timer_gravity(t)]
            was == IF Queued(t) THEN evl_dequeue_timer(t, base[r]) ELSE base[r]
            tq == evl_enqueue_timer(t, was, d)
            s == (status[t] \ {"FIRED", "PERIODIC", "DEQUEUED"}) \cup {"RUNNING"}
                    \cup (IF ival # 0 THEN {"PERIODIC"} ELSE {})
<1>1. TimerTypeOK
  BY DEF TimerIInv
<1>2. /\ base' = [base EXCEPT ![r] = tq] /\ date' = d
      /\ status' = [status EXCEPT ![t] = s]
      /\ interval' = [interval EXCEPT ![t] = ival]
      /\ start_date' = [start_date EXCEPT ![t] = value]
      /\ periodic_ticks' = [periodic_ticks EXCEPT ![t] = 0]
      /\ ProgramShot(c, r, t, tq, d)
      /\ UNCHANGED <<now, scalable, rq, op, firing, inband_tick>>
  BY DEF evl_start_timer
<1>3. /\ r \in Cpus /\ d \in Dates /\ R \in SUBSET Timers /\ R \cup {t} \in SUBSET Timers
      /\ \A u \in Timers \ {t} : d[u] = date[u]
      /\ evl_get_timer_gravity(t) \in Nat /\ d[t] = value - evl_get_timer_gravity(t)
  <2>1. evl_get_timer_gravity(t) \in Nat
    BY GravityType
  <2>. QED
    BY <1>1, <2>1 DEF TimerTypeOK, Dates, QueuedOn
<1>4. /\ QueuedOn(r) \in SUBSET Timers
      /\ (t \in QueuedOn(r) <=> Queued(t))
      /\ date \in Dates
      /\ TqOK(base[r], QueuedOn(r), date)
      /\ Timely(rq_flags[r], shot[r], timer_ipi[r], QueuedOn(r), date)
  BY <1>3, QueuedTypes
<1>5. TqOK(was, R, date)
  <2>1. CASE Queued(t)
    BY <1>4, <2>1, TqDequeue
  <2>2. CASE ~Queued(t)
    <3>1. R = QueuedOn(r)
      BY <1>4, <2>2
    <3>. HIDE DEF R
    <3>. QED
      BY <1>4, <2>2, <3>1
  <2>. QED
    BY <2>1, <2>2
<1>6. t \notin R /\ \A u \in R : d[u] = date[u]
  BY <1>3
<1>7. Timely(rq_flags[r], shot[r], timer_ipi[r], R, d)
  BY <1>4, <1>6, TimelyFewer
<1>. HIDE DEF d, R, was
<1>8. TqOK(was, R, d)
  BY <1>3, <1>4, <1>5, <1>6, TqDates
<1>9. TqOK(tq, R \cup {t}, d)
  BY <1>3, <1>6, <1>8, TqEnqueue
<1>. HIDE DEF tq
<1>10. DeviceFor(r, R \cup {t}, d)
  BY <1>1, <1>2, <1>3, <1>7, <1>9, DeviceShot
<1>11. /\ status' \in [Timers -> SUBSET TimerBits]
       /\ \A u \in Timers \ {t} : status'[u] = status[u]
       /\ status'[t] = s
  BY <1>1, <1>2 DEF TimerTypeOK, TimerBits
<1>12. tq \in TQueue
  BY <1>9 DEF TqOK
<1>13. TimerTypeOK'
  BY <1>1, <1>2, <1>3, <1>10, <1>11, <1>12 DEF TimerTypeOK, DeviceFor, Dates
<1>14. ASSUME NEW o \in Cpus PROVE Placed(o)'
  <2>1. QueuedOn(o)' = IF "DEQUEUED" \notin status'[t] /\ rq'[t] = o
                       THEN QueuedOn(o) \cup {t} ELSE QueuedOn(o) \ {t}
    BY <1>2, <1>11, QueuedAfter
  <2>2. "DEQUEUED" \notin status'[t]
    BY <1>11
  <2>3. CASE o = r
    <3>1. QueuedOn(o)' = R \cup {t}
      BY <1>2, <2>1, <2>2, <2>3 DEF R
    <3>2. base'[o] = tq
      BY <1>1, <1>2, <2>3 DEF TimerTypeOK
    <3>3. Timely(rq_flags'[o], shot'[o], timer_ipi'[o], R \cup {t}, d)
      BY <1>10, <2>3 DEF DeviceFor
    <3>. QED
      BY <1>2, <1>9, <3>1, <3>2, <3>3, PlacedAfter
  <2>4. CASE o # r
    <3>1. t \notin QueuedOn(o) /\ date \in Dates /\ QueuedOn(o) \in SUBSET Timers
      BY <2>4, QueuedTypes
    <3>2. QueuedOn(o)' = QueuedOn(o)
      BY <1>2, <2>1, <2>4, <3>1
    <3>3. base'[o] = base[o] /\ rq_flags'[o] = rq_flags[o] /\ shot'[o] = shot[o]
          /\ timer_ipi'[o] = timer_ipi[o]
      BY <1>1, <1>2, <1>10, <2>4 DEF TimerTypeOK, DeviceFor
    <3>4. Placed(o)
      BY DEF TimerIInv
    <3>. QED
      BY <1>2, <1>3, <3>1, <3>2, <3>3, <3>4, PlacedKept
  <2>. QED
    BY <2>3, <2>4
<1>15. ASSUME NEW o \in Cpus PROVE TickFlagged(o)'
  BY <1>2, <1>10 DEF TimerIInv, TickFlagged, DeviceFor, Ticking
<1>16. ASSUME NEW u \in Timers PROVE Running(u)'
  <2>1. CASE u = t
    <3>1. /\ (evl_timer_is_running(t))' /\ Queued(t)'
          /\ ((evl_timer_is_periodic(t))' <=> ival # 0)
      BY <1>11 DEF evl_timer_is_running, Queued, evl_timer_is_periodic
    <3>2. (evl_get_timer_gravity(t))' = evl_get_timer_gravity(t)
      BY <1>11 DEF evl_get_timer_gravity
    <3>3. date'[t] = value - evl_get_timer_gravity(t)
      BY <1>2, <1>3
    <3>4. (evl_get_timer_expiry(t))' = value
      BY <1>3, <3>2, <3>3 DEF evl_get_timer_expiry
    <3>5. interval'[t] = ival /\ start_date'[t] = value /\ periodic_ticks'[t] = 0
      BY <1>1, <1>2 DEF TimerTypeOK
    <3>6. value = value + 0 * ival
      OBVIOUS
    <3>. QED
      BY <2>1, <3>1, <3>4, <3>5, <3>6 DEF Running
  <2>2. CASE u # t
    <3>1. date'[u] = date[u] /\ interval'[u] = interval[u] /\ start_date'[u] = start_date[u]
          /\ periodic_ticks'[u] = periodic_ticks[u] /\ status'[u] = status[u]
      BY <1>1, <1>2, <1>3, <1>11, <2>2 DEF TimerTypeOK
    <3>2. Running(u)
      BY DEF TimerIInv
    <3>3. Fires(u) => Fires(u)'
      BY <1>2 DEF Fires
    <3>. QED
      BY <3>1, <3>2, <3>3, RunningKept
  <2>. QED
    BY <2>1, <2>2
<1>. QED
  BY <1>13, <1>14, <1>15, <1>16 DEF TimerIInv

\* A step that leaves the timers and the devices alone.
LEMMA TimersUntouched ==
  ASSUME TimerIInv, now' \in 0 .. MaxDate,
         UNCHANGED <<scalable, base, status, rq, date, setting, firing, device, inband_tick>>
  PROVE  TimerIInv'
<1>. USE DEF setting, device
<1>1. TimerTypeOK'
  BY DEF TimerIInv, TimerTypeOK
<1>2. \A c \in Cpus : Placed(c)'
  BY DEF TimerIInv, Placed, TqOK, InOrder, Timely, QueuedOn, Queued
<1>3. \A c \in Cpus : TickFlagged(c)'
  BY DEF TimerIInv, TickFlagged, Ticking
<1>4. ASSUME NEW t \in Timers PROVE Running(t)'
  <2>1. Running(t) /\ (Fires(t) => Fires(t)')
    BY DEF TimerIInv, Fires
  <2>. QED
    BY <2>1, RunningKept
<1>. QED
  BY <1>1, <1>2, <1>3, <1>4 DEF TimerIInv

LEMMA StopTimerStep ==
  ASSUME TimerIInv, NEW c \in Cpus, NEW t \in Timers, __evl_stop_timer(c, t)
  PROVE  TimerIInv'
<1>. DEFINE r == rq[t]
            R == QueuedOn(r) \ {t}
            tq == evl_dequeue_timer(t, base[r])
            s == (status[t] \ {"FIRED", "RUNNING"}) \cup {"DEQUEUED"}
<1>1. TimerTypeOK
  BY DEF TimerIInv
<1>2. /\ status' = [status EXCEPT ![t] = s]
      /\ UNCHANGED <<now, scalable, rq, date, interval, start_date, periodic_ticks,
                     firing, inband_tick>>
  BY DEF __evl_stop_timer, setting
<1>3. r \in Cpus
  BY <1>1 DEF TimerTypeOK
<1>4. /\ QueuedOn(r) \in SUBSET Timers
      /\ (t \in QueuedOn(r) <=> Queued(t))
      /\ date \in Dates
      /\ TqOK(base[r], QueuedOn(r), date)
      /\ Timely(rq_flags[r], shot[r], timer_ipi[r], QueuedOn(r), date)
  BY <1>3, QueuedTypes
<1>5. R \in SUBSET Timers /\ Timely(rq_flags[r], shot[r], timer_ipi[r], R, date)
  BY <1>4, TimelyFewer
<1>6. /\ DeviceFor(r, R, date)
      /\ base' \in [Cpus -> TQueue]
      /\ \A o \in Cpus \ {r} : base'[o] = base[o]
      /\ TqOK(base'[r], R, date)
  <2>1. CASE Queued(t)
    <3>1. TqOK(tq, R, date)
      BY <1>4, <2>1, TqDequeue
    <3>2. base' = [base EXCEPT ![r] = tq]
      BY <2>1 DEF __evl_stop_timer
    <3>3. tq \in TQueue
      BY <3>1 DEF TqOK
    <3>4. DeviceFor(r, R, date)
      <4>. HIDE DEF tq, R
      <4>1. CASE r = c /\ evl_get_tqueue_head(base[c]) = t
        <5>1. evl_program_local_tick(c, rq_flags[c], tq, date) /\ UNCHANGED timer_ipi
          BY <2>1, <4>1 DEF __evl_stop_timer, tq
        <5>. QED
          BY <1>1, <1>4, <1>5, <3>1, <4>1, <5>1, DeviceLocal
      <4>2. CASE ~(r = c /\ evl_get_tqueue_head(base[c]) = t)
        <5>1. UNCHANGED device
          BY <2>1, <4>2 DEF __evl_stop_timer
        <5>. QED
          BY <1>1, <1>3, <1>5, <5>1, DeviceUnchanged
      <4>. QED
        BY <4>1, <4>2
    <3>. HIDE DEF tq, R
    <3>. QED
      BY <1>1, <1>3, <3>1, <3>2, <3>3, <3>4 DEF TimerTypeOK
  <2>2. CASE ~Queued(t)
    <3>1. UNCHANGED <<base, device>>
      BY <2>2 DEF __evl_stop_timer
    <3>2. R = QueuedOn(r)
      BY <1>4, <2>2
    <3>. HIDE DEF R
    <3>. QED
      BY <1>1, <1>3, <1>4, <1>5, <3>1, <3>2, DeviceUnchanged DEF TimerTypeOK
  <2>. QED
    BY <2>1, <2>2
<1>7. /\ status' \in [Timers -> SUBSET TimerBits]
      /\ \A u \in Timers \ {t} : status'[u] = status[u]
      /\ status'[t] = s
  BY <1>1, <1>2 DEF TimerTypeOK, TimerBits
<1>. HIDE DEF R, tq
<1>8. TimerTypeOK'
  BY <1>1, <1>2, <1>6, <1>7 DEF TimerTypeOK, DeviceFor
<1>9. ASSUME NEW o \in Cpus PROVE Placed(o)'
  <2>1. QueuedOn(o)' = QueuedOn(o) \ {t}
    <3>1. "DEQUEUED" \in status'[t]
      BY <1>7
    <3>. QED
      BY <1>2, <1>7, <3>1, QueuedAfter
  <2>2. CASE o = r
    <3>1. Timely(rq_flags'[o], shot'[o], timer_ipi'[o], R, date)
      BY <1>6, <2>2 DEF DeviceFor
    <3>2. QueuedOn(o)' = R
      BY <2>1, <2>2 DEF R
    <3>. QED
      BY <1>2, <1>6, <2>2, <3>1, <3>2, PlacedAfter
  <2>3. CASE o # r
    <3>1. t \notin QueuedOn(o) /\ QueuedOn(o) \in SUBSET Timers
      BY <2>3, QueuedTypes
    <3>2. QueuedOn(o)' = QueuedOn(o)
      BY <2>1, <3>1
    <3>3. base'[o] = base[o] /\ rq_flags'[o] = rq_flags[o] /\ shot'[o] = shot[o]
          /\ timer_ipi'[o] = timer_ipi[o]
      BY <1>6, <2>3 DEF DeviceFor
    <3>4. Placed(o)
      BY DEF TimerIInv
    <3>. QED
      BY <1>2, <1>4, <3>2, <3>3, <3>4, PlacedKept
  <2>. QED
    BY <2>2, <2>3
<1>10. ASSUME NEW o \in Cpus PROVE TickFlagged(o)'
  BY <1>2, <1>6 DEF TimerIInv, TickFlagged, DeviceFor, Ticking
<1>11. ASSUME NEW u \in Timers PROVE Running(u)'
  <2>1. Running(u) /\ (Fires(u) => Fires(u)')
    BY <1>2 DEF TimerIInv, Fires
  <2>2. CASE u = t
    BY <1>2, <1>7, <2>1, <2>2 DEF Running, Queued, evl_timer_is_running, evl_timer_is_periodic
  <2>3. CASE u # t
    BY <1>2, <1>7, <2>1, <2>3, RunningKept
  <2>. QED
    BY <2>2, <2>3
<1>. QED
  BY <1>8, <1>9, <1>10, <1>11 DEF TimerIInv

LEMMA MoveTimerStep ==
  ASSUME TimerIInv, NEW c \in Cpus, NEW t \in Timers, NEW cpu \in Cpus,
         evl_move_timer(c, t, cpu)
  PROVE  TimerIInv'
<1>. DEFINE r == rq[t]
            R == QueuedOn(cpu)
            from == evl_dequeue_timer(t, base[r])
            tq == evl_enqueue_timer(t, base[cpu], date)
<1>1. TimerTypeOK
  BY DEF TimerIInv
<1>2. /\ rq' = [rq EXCEPT ![t] = cpu]
      /\ UNCHANGED <<now, scalable, status, date, interval, start_date, periodic_ticks,
                     firing, inband_tick>>
  BY DEF evl_move_timer, setting
<1>3. r \in Cpus /\ rq' \in [Timers -> Cpus] /\ rq'[t] = cpu
      /\ \A u \in Timers \ {t} : rq'[u] = rq[u]
  BY <1>1, <1>2 DEF TimerTypeOK
<1>4. ASSUME NEW o \in Cpus
      PROVE  /\ QueuedOn(o) \in SUBSET Timers
             /\ (t \in QueuedOn(o) <=> Queued(t) /\ r = o)
             /\ date \in Dates
             /\ TqOK(base[o], QueuedOn(o), date)
             /\ Timely(rq_flags[o], shot[o], timer_ipi[o], QueuedOn(o), date)
             /\ Placed(o)
             /\ QueuedOn(o)' = IF Queued(t) /\ o = cpu
                               THEN QueuedOn(o) \cup {t} ELSE QueuedOn(o) \ {t}
  <2>1. QueuedOn(o)' = IF "DEQUEUED" \notin status'[t] /\ rq'[t] = o
                       THEN QueuedOn(o) \cup {t} ELSE QueuedOn(o) \ {t}
    BY <1>2, <1>3, QueuedAfter
  <2>2. Placed(o)
    BY DEF TimerIInv
  <2>. QED
    BY <1>2, <1>3, <2>1, <2>2, QueuedTypes DEF Queued
<1>5. ASSUME NEW u \in Timers PROVE Running(u)'
  <2>1. Running(u) /\ (Fires(u) => Fires(u)')
    BY <1>2 DEF TimerIInv, Fires
  <2>. QED
    BY <1>2, <2>1, RunningKept
<1>6. CASE Queued(t) /\ r # cpu
  <2>1. /\ base' = [base EXCEPT ![cpu] = tq, ![r] = evl_dequeue_timer(t, @)]
        /\ ProgramShot(c, cpu, t, tq, date)
    BY <1>6 DEF evl_move_timer
  <2>2. t \notin R /\ t \in QueuedOn(r)
    BY <1>3, <1>4, <1>6
  <2>3. TqOK(from, QueuedOn(r) \ {t}, date)
    BY <1>3, <1>4, <2>2, TqDequeue
  <2>4. TqOK(tq, R \cup {t}, date)
    BY <1>4, <2>2, TqEnqueue
  <2>5. DeviceFor(cpu, R \cup {t}, date)
    <3>. HIDE DEF tq
    <3>. QED
      BY <1>1, <1>4, <2>1, <2>4, DeviceShot
  <2>6. from \in TQueue /\ tq \in TQueue
    BY <2>3, <2>4 DEF TqOK
  <2>. HIDE DEF tq
  <2>7. /\ base' \in [Cpus -> TQueue]
        /\ base'[r] = from /\ base'[cpu] = tq
        /\ \A o \in Cpus \ {r, cpu} : base'[o] = base[o]
    <3>1. base' = [[base EXCEPT ![cpu] = tq] EXCEPT ![r] = from]
      BY <1>1, <1>3, <1>6, <2>1 DEF TimerTypeOK
    <3>. HIDE DEF from
    <3>. QED
      BY <1>1, <1>3, <1>6, <2>6, <3>1 DEF TimerTypeOK
  <2>. HIDE DEF from, R
  <2>8. TimerTypeOK'
    BY <1>1, <1>2, <1>3, <2>5, <2>7 DEF TimerTypeOK, DeviceFor
  <2>9. ASSUME NEW o \in Cpus PROVE Placed(o)'
    <3>1. CASE o = cpu
      <4>1. QueuedOn(o)' = R \cup {t}
        BY <1>4, <1>6, <3>1 DEF R
      <4>2. Timely(rq_flags'[o], shot'[o], timer_ipi'[o], R \cup {t}, date)
        BY <2>5, <3>1 DEF DeviceFor
      <4>. QED
        BY <1>2, <2>4, <2>7, <3>1, <4>1, <4>2, PlacedAfter
    <3>2. CASE o = r
      <4>1. QueuedOn(o)' = QueuedOn(o) \ {t}
        BY <1>4, <1>6, <3>2
      <4>2. /\ rq_flags'[o] = rq_flags[o] /\ shot'[o] = shot[o]
            /\ timer_ipi'[o] = timer_ipi[o]
        BY <1>6, <2>5, <3>2 DEF DeviceFor
      <4>3. Timely(rq_flags'[o], shot'[o], timer_ipi'[o], QueuedOn(o) \ {t}, date)
        BY <1>4, <4>2, TimelyFewer
      <4>. QED
        BY <1>2, <2>3, <2>7, <3>2, <4>1, <4>3, PlacedAfter
    <3>3. CASE o # cpu /\ o # r
      <4>1. QueuedOn(o)' = QueuedOn(o)
        BY <1>4, <3>3
      <4>2. /\ rq_flags'[o] = rq_flags[o] /\ shot'[o] = shot[o]
            /\ timer_ipi'[o] = timer_ipi[o]
        BY <2>5, <3>3 DEF DeviceFor
      <4>. QED
        BY <1>2, <1>4, <2>7, <3>3, <4>1, <4>2, PlacedKept
    <3>. QED
      BY <3>1, <3>2, <3>3
  <2>10. ASSUME NEW o \in Cpus PROVE TickFlagged(o)'
    BY <1>2, <2>5 DEF TimerIInv, TickFlagged, DeviceFor, Ticking
  <2>. QED
    BY <1>5, <2>8, <2>9, <2>10 DEF TimerIInv
<1>7. CASE ~(Queued(t) /\ r # cpu)
  <2>1. UNCHANGED <<base, rq_flags, shot, timer_ipi>>
    BY <1>7 DEF evl_move_timer, device
  <2>2. TimerTypeOK'
    BY <1>1, <1>2, <1>3, <2>1 DEF TimerTypeOK
  <2>3. ASSUME NEW o \in Cpus PROVE Placed(o)'
    <3>1. QueuedOn(o)' = QueuedOn(o)
      <4>1. CASE Queued(t) /\ o = cpu
        <5>1. t \in QueuedOn(o) /\ QueuedOn(o)' = QueuedOn(o) \cup {t}
          BY <1>4, <1>7, <4>1
        <5>. QED
          BY <5>1
      <4>2. CASE ~(Queued(t) /\ o = cpu)
        <5>1. t \notin QueuedOn(o) /\ QueuedOn(o)' = QueuedOn(o) \ {t}
          BY <1>4, <1>7, <4>2
        <5>. QED
          BY <5>1
      <4>. QED
        BY <4>1, <4>2
    <3>. QED
      BY <1>2, <1>4, <2>1, <3>1, PlacedKept
  <2>4. ASSUME NEW o \in Cpus PROVE TickFlagged(o)'
    BY <1>2, <2>1 DEF TimerIInv, TickFlagged, Ticking
  <2>. QED
    BY <1>5, <2>2, <2>3, <2>4 DEF TimerIInv
<1>. QED
  BY <1>6, <1>7

-----------------------------------------------------------------------------
LEMMA CoreTickStep ==
  ASSUME TimerIInv, NEW c \in Cpus, evl_core_tick(c)
  PROVE  TimerIInv'
<1>1. /\ ~Ticking(c)
      /\ shot' = [shot EXCEPT ![c] = Infinite]
      /\ rq_flags' = [rq_flags EXCEPT ![c] = @ \cup {"RQ_TIMER"}]
      /\ UNCHANGED <<now, scalable, base, status, rq, date, interval, start_date,
                     periodic_ticks, firing, timer_ipi, inband_tick>>
  BY DEF evl_core_tick, setting
<1>2. Infinite \in Int
  BY TimerAssumption DEF Infinite
<1>3. /\ rq_flags' \in [Cpus -> SUBSET RqBits] /\ shot' \in [Cpus -> Int]
      /\ \A o \in Cpus \ {c} : rq_flags'[o] = rq_flags[o] /\ shot'[o] = shot[o]
      /\ rq_flags'[c] = rq_flags[c] \cup {"RQ_TIMER"}
  BY <1>1, <1>2 DEF TimerIInv, TimerTypeOK, RqBits
<1>4. TimerTypeOK'
  BY <1>1, <1>3 DEF TimerIInv, TimerTypeOK
<1>5. ASSUME NEW o \in Cpus PROVE Placed(o)'
  <2>1. QueuedOn(o)' = QueuedOn(o)
    BY <1>1 DEF QueuedOn, Queued
  <2>2. TqOK(base[o], QueuedOn(o), date)
    BY QueuedTypes
  <2>3. Timely(rq_flags'[o], shot'[o], timer_ipi'[o], QueuedOn(o), date)
    BY <1>1, <1>3, QueuedTypes DEF Timely
  <2>. QED
    BY <1>1, <2>1, <2>2, <2>3, PlacedAfter
<1>6. ASSUME NEW o \in Cpus PROVE TickFlagged(o)'
  <2>1. TickFlagged(o)
    BY DEF TimerIInv
  <2>. QED
    BY <1>1, <1>3, <2>1 DEF TickFlagged, Ticking
<1>7. ASSUME NEW u \in Timers PROVE Running(u)'
  <2>1. Running(u) /\ (Fires(u) => Fires(u)')
    BY <1>1 DEF TimerIInv, Fires
  <2>. QED
    BY <1>1, <2>1, RunningKept
<1>. QED
  BY <1>4, <1>5, <1>6, <1>7 DEF TimerIInv

\* A step that does nothing but program the device of c, with these flags.
LEMMA ProgramStep ==
  ASSUME TimerIInv, NEW c \in Cpus, NEW flags \in SUBSET RqBits,
         evl_program_local_tick(c, flags, base[c], date),
         timer_ipi' \in [Cpus -> BOOLEAN], inband_tick' \in [Cpus -> BOOLEAN],
         \A o \in Cpus \ {c} : timer_ipi'[o] = timer_ipi[o] /\ inband_tick'[o] = inband_tick[o],
         firing[c] # None => "RQ_TIMER" \in flags,
         inband_tick'[c] => {"RQ_TIMER", "RQ_TPROXY"} \subseteq flags,
         UNCHANGED <<now, scalable, base, status, rq, date, setting, firing>>
  PROVE  TimerIInv'
<1>. USE DEF setting
<1>1. LocalShot(c, flags, QueuedOn(c), date)
  BY QueuedTypes, ProgramLocal DEF TimerIInv
<1>2. TimerTypeOK'
  BY <1>1 DEF TimerIInv, TimerTypeOK, LocalShot
<1>3. ASSUME NEW o \in Cpus PROVE Placed(o)'
  <2>1. QueuedOn(o)' = QueuedOn(o)
    BY DEF QueuedOn, Queued
  <2>2. TqOK(base[o], QueuedOn(o), date)
    BY QueuedTypes
  <2>3. Timely(rq_flags'[o], shot'[o], timer_ipi'[o], QueuedOn(o), date)
    <3>1. CASE o = c
      BY <1>1, <3>1 DEF LocalShot
    <3>2. CASE o # c
      <4>1. rq_flags'[o] = rq_flags[o] /\ shot'[o] = shot[o] /\ timer_ipi'[o] = timer_ipi[o]
        BY <1>1, <3>2 DEF LocalShot
      <4>. QED
        BY <4>1, QueuedTypes
    <3>. QED
      BY <3>1, <3>2
  <2>. QED
    BY <2>1, <2>2, <2>3, PlacedAfter
<1>4. ASSUME NEW o \in Cpus PROVE TickFlagged(o)'
  <2>1. TickFlagged(o)
    BY DEF TimerIInv
  <2>2. CASE o = c
    BY <1>1, <2>2 DEF TickFlagged, Ticking, LocalShot
  <2>3. CASE o # c
    BY <1>1, <2>1, <2>3 DEF TickFlagged, Ticking, LocalShot
  <2>. QED
    BY <2>2, <2>3
<1>5. ASSUME NEW u \in Timers PROVE Running(u)'
  <2>1. Running(u) /\ (Fires(u) => Fires(u)')
    BY DEF TimerIInv, Fires
  <2>. QED
    BY <2>1, RunningKept
<1>. QED
  BY <1>2, <1>3, <1>4, <1>5 DEF TimerIInv

LEMMA TimerIpiStep ==
  ASSUME TimerIInv, NEW c \in Cpus, TimerIpi(c)
  PROVE  TimerIInv'
<1>1. /\ evl_program_local_tick(c, rq_flags[c], base[c], date)
      /\ timer_ipi' = [timer_ipi EXCEPT ![c] = FALSE]
      /\ UNCHANGED <<now, scalable, base, status, rq, date, setting, firing, inband_tick>>
  BY DEF TimerIpi
<1>2. TickFlagged(c) /\ TimerTypeOK
  BY DEF TimerIInv
<1>3. /\ rq_flags[c] \in SUBSET RqBits
      /\ timer_ipi' \in [Cpus -> BOOLEAN] /\ inband_tick' \in [Cpus -> BOOLEAN]
      /\ \A o \in Cpus \ {c} : timer_ipi'[o] = timer_ipi[o] /\ inband_tick'[o] = inband_tick[o]
  BY <1>1, <1>2 DEF TimerTypeOK
<1>4. /\ firing[c] # None => "RQ_TIMER" \in rq_flags[c]
      /\ inband_tick'[c] => {"RQ_TIMER", "RQ_TPROXY"} \subseteq rq_flags[c]
  BY <1>1, <1>2 DEF TickFlagged, Ticking
<1>. QED
  BY <1>1, <1>3, <1>4, ProgramStep

LEMMA TickDoneStep ==
  ASSUME TimerIInv, NEW c \in Cpus, TickDone(c)
  PROVE  TimerIInv'
<1>. DEFINE flags == rq_flags[c] \ {"RQ_TIMER", "RQ_TPROXY"}
<1>1. /\ firing[c] = None
      /\ evl_program_local_tick(c, flags, base[c], date)
      /\ IF "RQ_TPROXY" \in rq_flags[c] THEN inband_tick' = [inband_tick EXCEPT ![c] = FALSE]
         ELSE UNCHANGED inband_tick
      /\ UNCHANGED <<now, scalable, base, status, rq, date, setting, firing, timer_ipi>>
  BY DEF TickDone, evl_notify_proxy_tick
<1>2. TickFlagged(c) /\ TimerTypeOK
  BY DEF TimerIInv
<1>3. /\ flags \in SUBSET RqBits
      /\ timer_ipi' \in [Cpus -> BOOLEAN] /\ inband_tick' \in [Cpus -> BOOLEAN]
      /\ \A o \in Cpus \ {c} : timer_ipi'[o] = timer_ipi[o] /\ inband_tick'[o] = inband_tick[o]
  BY <1>1, <1>2 DEF TimerTypeOK
<1>4. ~inband_tick'[c]
  BY <1>1, <1>2 DEF TickFlagged, TimerTypeOK
<1>. HIDE DEF flags
<1>. QED
  BY <1>1, <1>3, <1>4, ProgramStep

LEMMA ExpireStep ==
  ASSUME TimerIInv, NEW c \in Cpus, NEW t, t = evl_get_tqueue_head(base[c]), Expire(c)
  PROVE  TimerIInv'
<1>. DEFINE R == QueuedOn(c) \ {t}
            tq == evl_dequeue_timer(t, base[c])
<1>1. TimerTypeOK
  BY DEF TimerIInv
<1>2. /\ Ticking(c) /\ firing[c] = None /\ Due(c)
      /\ base' = [base EXCEPT ![c] = tq]
      /\ status' = [status EXCEPT ![t] = @ \cup {"DEQUEUED", "FIRED"}]
      /\ firing' = [firing EXCEPT ![c] = t]
      /\ IF t \in InbandTimers
         THEN /\ rq_flags' = [rq_flags EXCEPT ![c] = @ \cup {"RQ_TPROXY"}]
              /\ inband_tick' = [inband_tick EXCEPT ![c] = TRUE]
         ELSE UNCHANGED <<rq_flags, inband_tick>>
      /\ UNCHANGED <<now, scalable, rq, date, interval, start_date, periodic_ticks,
                     shot, timer_ipi>>
  BY DEF Expire, setting
<1>3. /\ QueuedOn(c) \in SUBSET Timers
      /\ \A u \in Timers : u \in QueuedOn(c) <=> Queued(u) /\ rq[u] = c
      /\ date \in Dates
      /\ TqOK(base[c], QueuedOn(c), date)
  BY QueuedTypes
<1>4. t \in QueuedOn(c)
  <2>1. First(t, QueuedOn(c), date)
    BY <1>3, TqFirst
  <2>2. t # None
    BY <1>2 DEF Due, evl_tqueue_is_empty
  <2>. QED
    BY <2>1, <2>2 DEF First
<1>5. t \in Timers /\ Queued(t) /\ rq[t] = c
  BY <1>3, <1>4
<1>6. TqOK(tq, R, date)
  BY <1>3, <1>4, TqDequeue
<1>7. tq \in TQueue
  BY <1>6 DEF TqOK
<1>. HIDE DEF tq
<1>8. /\ rq_flags' \in [Cpus -> SUBSET RqBits] /\ inband_tick' \in [Cpus -> BOOLEAN]
      /\ \A o \in Cpus \ {c} : rq_flags'[o] = rq_flags[o] /\ inband_tick'[o] = inband_tick[o]
      /\ rq_flags[c] \subseteq rq_flags'[c]
      /\ inband_tick'[c] => inband_tick[c] \/ "RQ_TPROXY" \in rq_flags'[c]
  <2>1. CASE t \in InbandTimers
    <3>1. /\ rq_flags' = [rq_flags EXCEPT ![c] = rq_flags[c] \cup {"RQ_TPROXY"}]
          /\ inband_tick' = [inband_tick EXCEPT ![c] = TRUE]
      BY <1>2, <2>1
    <3>2. /\ rq_flags \in [Cpus -> SUBSET RqBits] /\ inband_tick \in [Cpus -> BOOLEAN]
          /\ rq_flags[c] \cup {"RQ_TPROXY"} \in SUBSET RqBits
      BY <1>1 DEF TimerTypeOK, RqBits
    <3>3. /\ rq_flags' \in [Cpus -> SUBSET RqBits]
          /\ \A o \in Cpus \ {c} : rq_flags'[o] = rq_flags[o]
          /\ rq_flags'[c] = rq_flags[c] \cup {"RQ_TPROXY"}
      BY ONLY <3>1, <3>2, c \in Cpus
    <3>4. /\ inband_tick' \in [Cpus -> BOOLEAN]
          /\ \A o \in Cpus \ {c} : inband_tick'[o] = inband_tick[o]
      BY ONLY <3>1, <3>2, c \in Cpus
    <3>. QED
      BY <3>3, <3>4
  <2>2. CASE t \notin InbandTimers
    BY <1>1, <1>2, <2>2 DEF TimerTypeOK
  <2>. QED
    BY <2>1, <2>2
<1>9. /\ status' \in [Timers -> SUBSET TimerBits]
      /\ \A u \in Timers \ {t} : status'[u] = status[u]
      /\ status'[t] = status[t] \cup {"DEQUEUED", "FIRED"}
  BY <1>1, <1>2, <1>5 DEF TimerTypeOK, TimerBits
<1>10. TimerTypeOK'
  BY <1>1, <1>2, <1>5, <1>7, <1>8, <1>9 DEF TimerTypeOK
<1>11. ASSUME NEW o \in Cpus PROVE Placed(o)'
  <2>1. QueuedOn(o)' = QueuedOn(o) \ {t}
    <3>1. "DEQUEUED" \in status'[t]
      BY <1>9
    <3>. QED
      BY <1>2, <1>5, <1>9, <3>1, QueuedAfter
  <2>2. CASE o = c
    <3>1. base'[o] = tq
      BY <1>1, <1>2, <2>2 DEF TimerTypeOK
    <3>2. "RQ_TIMER" \in rq_flags'[o]
      BY <1>2, <1>8, <2>2 DEF Ticking
    <3>3. Timely(rq_flags'[o], shot'[o], timer_ipi'[o], R, date)
      BY <3>2 DEF Timely
    <3>. QED
      BY <1>2, <1>6, <2>1, <2>2, <3>1, <3>3, PlacedAfter
  <2>3. CASE o # c
    <3>1. t \notin QueuedOn(o)
      BY <1>5, <2>3, QueuedTypes
    <3>2. QueuedOn(o)' = QueuedOn(o)
      BY <2>1, <3>1
    <3>3. base'[o] = base[o] /\ rq_flags'[o] = rq_flags[o] /\ Placed(o)
      BY <1>1, <1>2, <1>8, <2>3 DEF TimerTypeOK, TimerIInv
    <3>. QED
      BY <1>2, <1>3, <3>2, <3>3, PlacedKept
  <2>. QED
    BY <2>2, <2>3
<1>12. ASSUME NEW o \in Cpus PROVE TickFlagged(o)'
  <2>1. TickFlagged(o)
    BY DEF TimerIInv
  <2>2. CASE o = c
    BY <1>2, <1>8, <2>1, <2>2 DEF TickFlagged, Ticking
  <2>3. CASE o # c
    BY <1>1, <1>2, <1>8, <2>1, <2>3 DEF TickFlagged, Ticking, TimerTypeOK
  <2>. QED
    BY <2>2, <2>3
<1>13. ASSUME NEW u \in Timers PROVE Running(u)'
  <2>1. Running(u)
    BY DEF TimerIInv
  <2>2. CASE u = t
    <3>1. Fires(t)'
      BY <1>1, <1>2, <1>5 DEF Fires, TimerTypeOK
    <3>2. interval'[t] = interval[t] /\ status'[t] = status[t] \cup {"DEQUEUED", "FIRED"}
      BY <1>2, <1>9
    <3>. QED
      BY <2>1, <2>2, <3>1, <3>2
      DEF Running, Queued, evl_timer_is_running, evl_timer_is_periodic
  <2>3. CASE u # t
    <3>1. Fires(u) => Fires(u)'
      BY <1>1, <1>2, TimerAssumption DEF Fires, TimerTypeOK
    <3>. QED
      BY <1>2, <1>9, <2>1, <2>3, <3>1, RunningKept
  <2>. QED
    BY <2>2, <2>3
<1>. QED
  BY <1>10, <1>11, <1>12, <1>13 DEF TimerIInv

-----------------------------------------------------------------------------
LEMMA ProductGrows == ASSUME NEW a \in Nat, NEW b \in Nat, b > 0 PROVE a * b >= a
<1>1. b - 1 \in Nat /\ a * (b - 1) >= 0
  OBVIOUS
<1>2. a * b = a * (b - 1) + a
  OBVIOUS
<1>3. a * b \in Int /\ a * (b - 1) \in Int
  OBVIOUS
<1>. QED
  BY ONLY <1>1, <1>2, <1>3, a \in Nat

\* The grid of a periodic timer reaches past the clock.
LEMMA NextTickFound ==
  ASSUME TimerTypeOK, NEW t \in Timers, interval[t] > 0
  PROVE  NextTick(t) \in Nat /\ TickDate(t, NextTick(t)) >= now
<1>. DEFINE p == periodic_ticks[t]
            g == evl_get_timer_gravity(t)
            last == p + MaxDate + g + 1
            Found(n) == /\ TickDate(t, n) >= now
                        /\ \A m \in p + 1 .. n - 1 : TickDate(t, m) < now
            T == {n \in Nat : n >= p + 1 /\ TickDate(t, n) >= now}
<1>1. /\ p \in Nat /\ g \in Nat /\ MaxDate \in Nat /\ now \in Nat /\ now <= MaxDate
      /\ start_date[t] \in Nat /\ interval[t] \in Nat
  BY GravityType, TimerAssumption DEF TimerTypeOK
<1>2. \A n \in Nat : TickDate(t, n) = start_date[t] + n * interval[t] - g
  BY DEF TickDate
<1>. HIDE DEF p, g
<1>3. last \in Nat /\ last >= p + 1 /\ last - g >= now
  BY <1>1
<1>. HIDE DEF last
<1>4. \A n \in Nat : TickDate(t, n) \in Int
  <2>1. ASSUME NEW n \in Nat PROVE n * interval[t] \in Int
    BY <1>1
  <2>. QED
    BY <1>1, <1>2, <2>1
<1>5. TickDate(t, last) >= now
  <2>1. last * interval[t] >= last /\ last * interval[t] \in Int
    BY <1>1, <1>3, ProductGrows
  <2>2. TickDate(t, last) = start_date[t] + last * interval[t] - g
    BY <1>2, <1>3
  <2>. QED
    BY <1>1, <1>3, <2>1, <2>2
<1>6. last \in T /\ T \in SUBSET Nat
  BY <1>3, <1>5
<1>7. PICK n \in T : \A y \in T : n <= y
  <2>. HIDE DEF T
  <2>. QED
    BY <1>6, NatMin
<1>8. n \in p + 1 .. last
  BY <1>1, <1>3, <1>6, <1>7
<1>9. Found(n)
  <2>1. ASSUME NEW m \in p + 1 .. n - 1 PROVE TickDate(t, m) < now
    <3>1. m \in Nat /\ m >= p + 1 /\ m < n
      BY <1>1, <1>8
    <3>2. m \notin T
      BY <1>7, <3>1
    <3>. QED
      BY <1>1, <1>4, <3>1, <3>2
  <2>. QED
    BY <1>7, <2>1
<1>10. NextTick(t) = CHOOSE k \in p + 1 .. last : Found(k)
  BY DEF NextTick, p, g, last
<1>11. NextTick(t) \in p + 1 .. last /\ Found(NextTick(t))
  <2>. HIDE DEF Found
  <2>. QED
    BY <1>8, <1>9, <1>10
<1>. QED
  BY <1>1, <1>3, <1>11

LEMMA HandlerDoneStep ==
  ASSUME TimerIInv, NEW c \in Cpus, NEW t, t = firing[c], HandlerDone(c)
  PROVE  TimerIInv'
<1>. DEFINE ticks == NextTick(t)
            d == [date EXCEPT ![t] = TickDate(t, ticks)]
            r == rq[t]
            R == QueuedOn(r)
            tq == evl_enqueue_timer(t, base[r], d)
<1>1. TimerTypeOK
  BY DEF TimerIInv
<1>2. /\ t \in Timers
      /\ firing' = [firing EXCEPT ![c] = None]
      /\ UNCHANGED <<now, scalable, rq, interval, start_date, inband_tick>>
  BY <1>1 DEF HandlerDone, TimerTypeOK
<1>3. ASSUME NEW u \in Timers \ {t}
      PROVE  Fires(u) => Fires(u)'
  BY <1>1, <1>2 DEF Fires, TimerTypeOK
<1>4. ASSUME NEW o \in Cpus PROVE firing'[o] # None => firing[o] # None
  BY <1>1, <1>2 DEF TimerTypeOK
<1>5. firing' \in [Cpus -> Timers \cup {None}] /\ r \in Cpus
  BY <1>1, <1>2 DEF TimerTypeOK
<1>6. CASE NeedsEnqueuing(t)
  <2>1. /\ periodic_ticks' = [periodic_ticks EXCEPT ![t] = ticks]
        /\ date' = d
        /\ base' = [base EXCEPT ![r] = tq]
        /\ status' = [status EXCEPT ![t] = @ \ {"DEQUEUED"}]
        /\ IF r = c THEN UNCHANGED device ELSE ProgramShot(c, r, t, tq, d)
    BY <1>6 DEF HandlerDone, evl_timer_on_rq
  <2>2. ~Queued(t) /\ evl_timer_is_running(t) /\ evl_timer_is_periodic(t) /\ interval[t] > 0
    BY <1>2, <1>6 DEF NeedsEnqueuing, TimerIInv, Running
  <2>3. ticks \in Nat
    BY <1>1, <1>2, <2>2, NextTickFound
  <2>. HIDE DEF ticks
  <2>4. /\ evl_get_timer_gravity(t) \in Nat
        /\ ticks * interval[t] \in Int
        /\ TickDate(t, ticks) = start_date[t] + ticks * interval[t] - evl_get_timer_gravity(t)
        /\ start_date[t] \in Int
    BY <1>1, <1>2, <2>3, GravityType DEF TickDate, TimerTypeOK
  <2>5. TickDate(t, ticks) \in Int
    BY <2>4
  <2>6. /\ d \in Dates /\ d[t] = TickDate(t, ticks)
        /\ \A u \in Timers \ {t} : d[u] = date[u]
    BY <1>1, <1>2, <2>5 DEF TimerTypeOK, Dates
  <2>7. /\ R \in SUBSET Timers /\ t \notin R /\ date \in Dates
        /\ TqOK(base[r], R, date)
        /\ Timely(rq_flags[r], shot[r], timer_ipi[r], R, date)
    BY <1>2, <1>5, <2>2, QueuedTypes
  <2>. HIDE DEF d, R
  <2>8. \A u \in R : d[u] = date[u]
    BY <2>6, <2>7
  <2>9. TqOK(base[r], R, d) /\ Timely(rq_flags[r], shot[r], timer_ipi[r], R, d)
    BY <2>6, <2>7, <2>8, TqDates, TimelyFewer
  <2>10. TqOK(tq, R \cup {t}, d)
    BY <1>2, <2>6, <2>7, <2>9, TqEnqueue
  <2>. HIDE DEF tq
  <2>11. DeviceFor(r, R \cup {t}, d)
    <3>1. CASE r = c
      <4>1. "RQ_TIMER" \in rq_flags[r]
        BY <3>1 DEF HandlerDone, TimerIInv, TickFlagged, Ticking
      <4>2. Timely(rq_flags[r], shot[r], timer_ipi[r], R \cup {t}, d)
        BY <4>1 DEF Timely
      <4>. QED
        BY <1>1, <1>5, <2>1, <3>1, <4>2, DeviceUnchanged
    <3>2. CASE r # c
      BY <1>1, <1>2, <1>5, <2>1, <2>6, <2>7, <2>9, <2>10, <3>2, DeviceShot
    <3>. QED
      BY <3>1, <3>2
  <2>12. /\ status' \in [Timers -> SUBSET TimerBits]
         /\ \A u \in Timers \ {t} : status'[u] = status[u]
         /\ status'[t] = status[t] \ {"DEQUEUED"}
    BY <1>1, <1>2, <2>1 DEF TimerTypeOK
  <2>13. /\ base' \in [Cpus -> TQueue] /\ base'[r] = tq
         /\ \A o \in Cpus \ {r} : base'[o] = base[o]
    <3>1. tq \in TQueue
      BY <2>10 DEF TqOK
    <3>. QED
      BY <1>1, <1>5, <2>1, <3>1 DEF TimerTypeOK
  <2>14. TimerTypeOK'
    BY <1>1, <1>2, <1>5, <2>1, <2>3, <2>6, <2>11, <2>12, <2>13
    DEF TimerTypeOK, DeviceFor, Dates
  <2>15. ASSUME NEW o \in Cpus PROVE Placed(o)'
    <3>1. QueuedOn(o)' = IF rq'[t] = o THEN QueuedOn(o) \cup {t} ELSE QueuedOn(o) \ {t}
      <4>1. "DEQUEUED" \notin status'[t]
        BY <2>12
      <4>. QED
        BY <1>2, <2>12, <4>1, QueuedAfter
    <3>2. CASE o = r
      <4>1. QueuedOn(o)' = R \cup {t}
        BY <1>2, <3>1, <3>2 DEF R
      <4>2. Timely(rq_flags'[o], shot'[o], timer_ipi'[o], R \cup {t}, d)
        BY <2>11, <3>2 DEF DeviceFor
      <4>. QED
        BY <1>2, <2>1, <2>10, <2>13, <3>2, <4>1, <4>2, PlacedAfter
    <3>3. CASE o # r
      <4>1. t \notin QueuedOn(o) /\ QueuedOn(o) \in SUBSET Timers
        BY <1>2, <3>3, QueuedTypes
      <4>2. QueuedOn(o)' = QueuedOn(o)
        BY <1>2, <3>1, <3>3, <4>1
      <4>3. /\ base'[o] = base[o] /\ rq_flags'[o] = rq_flags[o] /\ shot'[o] = shot[o]
            /\ timer_ipi'[o] = timer_ipi[o] /\ Placed(o)
        BY <2>11, <2>13, <3>3 DEF DeviceFor, TimerIInv
      <4>4. \A u \in QueuedOn(o) : d[u] = date[u]
        BY <2>6, <4>1
      <4>. QED
        BY <1>2, <2>1, <2>6, <2>7, <4>2, <4>3, <4>4, PlacedKept
    <3>. QED
      BY <3>2, <3>3
  <2>16. ASSUME NEW o \in Cpus PROVE TickFlagged(o)'
    <3>1. TickFlagged(o)
      BY DEF TimerIInv
    <3>. QED
      BY <1>2, <1>4, <2>11, <3>1 DEF TickFlagged, DeviceFor, Ticking
  <2>17. ASSUME NEW u \in Timers PROVE Running(u)'
    <3>1. Running(u)
      BY DEF TimerIInv
    <3>2. CASE u = t
      <4>1. /\ (evl_timer_is_running(t))' /\ Queued(t)' /\ (evl_timer_is_periodic(t))'
        BY <2>2, <2>12 DEF evl_timer_is_running, Queued, evl_timer_is_periodic
      <4>2. (evl_get_timer_gravity(t))' = evl_get_timer_gravity(t)
        BY <2>12 DEF evl_get_timer_gravity
      <4>3. /\ interval'[t] = interval[t] /\ start_date'[t] = start_date[t]
            /\ periodic_ticks'[t] = ticks /\ date'[t] = TickDate(t, ticks)
        BY <1>1, <1>2, <2>1, <2>6 DEF TimerTypeOK
      <4>4. (evl_get_timer_expiry(t))' = start_date[t] + ticks * interval[t]
        <5>1. (evl_get_timer_expiry(t))' = TickDate(t, ticks) + evl_get_timer_gravity(t)
          BY <4>2, <4>3 DEF evl_get_timer_expiry
        <5>. QED
          BY <2>4, <5>1
      <4>. QED
        BY <2>2, <3>2, <4>1, <4>3, <4>4 DEF Running
    <3>3. CASE u # t
      <4>1. /\ date'[u] = date[u] /\ interval'[u] = interval[u] /\ start_date'[u] = start_date[u]
            /\ periodic_ticks'[u] = periodic_ticks[u] /\ status'[u] = status[u]
        BY <1>1, <1>2, <2>1, <2>6, <2>12, <3>3 DEF TimerTypeOK
      <4>. QED
        BY <1>3, <3>1, <3>3, <4>1, RunningKept
    <3>. QED
      BY <3>2, <3>3
  <2>. QED
    BY <2>14, <2>15, <2>16, <2>17 DEF TimerIInv
<1>7. CASE ~NeedsEnqueuing(t)
  <2>1. UNCHANGED <<periodic_ticks, date, base, status, rq_flags, shot, timer_ipi>>
    BY <1>7 DEF HandlerDone, device
  <2>2. TimerTypeOK'
    BY <1>1, <1>2, <1>5, <2>1 DEF TimerTypeOK
  <2>3. ASSUME NEW o \in Cpus PROVE Placed(o)'
    BY <1>2, <2>1 DEF TimerIInv, Placed, TqOK, InOrder, Timely, QueuedOn, Queued
  <2>4. ASSUME NEW o \in Cpus PROVE TickFlagged(o)'
    <3>1. TickFlagged(o)
      BY DEF TimerIInv
    <3>. QED
      BY <1>2, <1>4, <2>1, <3>1 DEF TickFlagged, Ticking
  <2>5. ASSUME NEW u \in Timers PROVE Running(u)'
    <3>1. Running(u)
      BY DEF TimerIInv
    <3>2. CASE u = t
      <4>1. ~Queued(t) /\ evl_timer_is_running(t) => ~evl_timer_is_periodic(t)
        BY <1>7 DEF NeedsEnqueuing
      <4>2. status'[t] = status[t] /\ interval'[t] = interval[t]
        BY <1>2, <2>1
      <4>3. (evl_get_timer_expiry(t))' = evl_get_timer_expiry(t)
        BY <2>1 DEF evl_get_timer_expiry, evl_get_timer_gravity
      <4>4. start_date'[t] = start_date[t] /\ periodic_ticks'[t] = periodic_ticks[t]
        BY <1>2, <2>1
      <4>. QED
        BY <3>1, <3>2, <4>1, <4>2, <4>3, <4>4
        DEF Running, Queued, evl_timer_is_running, evl_timer_is_periodic
    <3>3. CASE u # t
      BY <1>2, <1>3, <2>1, <3>1, <3>3, RunningKept
    <3>. QED
      BY <3>2, <3>3
  <2>. QED
    BY <2>2, <2>3, <2>4, <2>5 DEF TimerIInv
<1>. QED
  BY <1>6, <1>7

-----------------------------------------------------------------------------
LEMMA TimerStep == ASSUME TimerIInv, [TimerNext]_timerVars PROVE TimerIInv'
<1>1. now \in 0 .. MaxDate /\ MaxDate \in Nat
  BY TimerAssumption DEF TimerIInv, TimerTypeOK
<1>2. ASSUME NEW c \in Cpus, Tick(c) PROVE TimerIInv'
  <2>1. CASE evl_core_tick(c)
    BY <2>1, CoreTickStep
  <2>2. CASE TimerIpi(c)
    BY <2>2, TimerIpiStep
  <2>3. CASE Expire(c)
    BY <2>3, ExpireStep
  <2>4. CASE HandlerDone(c)
    BY <2>4, HandlerDoneStep
  <2>5. CASE TickDone(c)
    BY <2>5, TickDoneStep
  <2>. QED
    BY <1>2, <2>1, <2>2, <2>3, <2>4, <2>5 DEF Tick
<1>3. ASSUME NEW c \in Cpus, NEW t \in Timers, ThreadOp(c, t) PROVE TimerIInv'
  <2>1. ASSUME NEW value \in now .. MaxDate,
               NEW ival \in IF t \in InbandTimers THEN {0} ELSE Intervals,
               evl_start_timer(c, t, value, ival)
        PROVE  TimerIInv'
    <3>1. value \in Nat /\ ival \in Nat
      BY <1>1, TimerAssumption
    <3>. QED
      BY <2>1, <3>1, StartTimerStep
  <2>2. CASE evl_stop_timer(c, t)
    BY <1>1, <2>2, TimersUntouched DEF evl_stop_timer
  <2>3. CASE __evl_stop_timer(c, t)
    BY <2>3, StopTimerStep
  <2>4. ASSUME NEW cpu \in Cpus, evl_prepare_timed_wait(c, t, cpu) PROVE TimerIInv'
    BY <1>1, <2>4, TimersUntouched DEF evl_prepare_timed_wait
  <2>5. ASSUME NEW cpu \in Cpus, evl_move_timer(c, t, cpu) PROVE TimerIInv'
    BY <2>5, MoveTimerStep
  <2>. QED
    BY <1>3, <2>1, <2>2, <2>3, <2>4, <2>5 DEF ThreadOp
<1>4. CASE Elapse
  <2>1. now' \in 0 .. MaxDate
    BY <1>1, <1>4 DEF Elapse
  <2>. QED
    BY <1>4, <2>1, TimersUntouched DEF Elapse
<1>5. CASE UNCHANGED timerVars
  BY <1>1, <1>5, TimersUntouched DEF timerVars
<1>6. \A u \in Clients : u[1] \in Cpus /\ u[2] \in Timers
  BY TimerAssumption
<1>. QED
  BY <1>2, <1>3, <1>4, <1>5, <1>6 DEF TimerNext

\* What the invariant says of the queues, the devices and the grid.
LEMMA TimerPromises ==
  ASSUME TimerIInv PROVE TimersAccountedFor /\ NoLateShot /\ TicksOnGrid
<1>1. TimersAccountedFor
  BY DEF TimerIInv, Placed, TqOK, Running, TimersAccountedFor
<1>2. ASSUME NEW c \in Cpus, ~evl_tqueue_is_empty(base[c]), ~Ticking(c), ~timer_ipi[c]
      PROVE  /\ shot[c] <= date[evl_get_tqueue_head(base[c])]
             /\ "RQ_IDLE" \notin rq_flags[c]
  <2>1. First(evl_get_tqueue_head(base[c]), QueuedOn(c), date)
    BY QueuedTypes, TqFirst
  <2>2. evl_get_tqueue_head(base[c]) \in QueuedOn(c)
    BY <1>2, <2>1 DEF First, evl_tqueue_is_empty
  <2>. QED
    BY <1>2, <2>2, QueuedTypes DEF Timely, Ticking
<1>3. TicksOnGrid
  BY DEF TimerIInv, Running, TickFlagged, Ticking, TicksOnGrid
<1>. QED
  BY <1>1, <1>2, <1>3 DEF NoLateShot

(***************************************************************************)
(* Every timer is where its status says, in a queue sorted by date; the    *)
(* flag of the tick handler is set as long as it runs or owes the in-band  *)
(* kernel a tick; and each device serves the queue of its CPU.             *)
(***************************************************************************)
THEOREM TimerInvariant == TimerSpec => []TimerIInv
<1>. QED
  BY TimerInitIInv, TimerStep, PTL DEF TimerSpec

(***************************************************************************)
(* Whatever starts, stops and moves a timer while it fires, its status,    *)
(* its runqueue and the queues of the bases agree, and none that runs is   *)
(* lost.                                                                   *)
(***************************************************************************)
THEOREM TimersAccountedForHolds == TimerSpec => []TimersAccountedFor
<1>. QED
  BY TimerInvariant, TimerPromises, PTL

(***************************************************************************)
(* No clock device out of the tick handler is set later than the first     *)
(* timer of its CPU, unless a timer IPI is about to set it right.          *)
(***************************************************************************)
THEOREM NoLateShotHolds == TimerSpec => []NoLateShot
<1>. QED
  BY TimerInvariant, TimerPromises, PTL

(***************************************************************************)
(* A periodic timer keeps to its grid for any interval and gravity, and no *)
(* in-band tick is forgotten by the tick handler.                          *)
(***************************************************************************)
THEOREM TicksOnGridHolds == TimerSpec => []TicksOnGrid
<1>. QED
  BY TimerInvariant, TimerPromises, PTL
=============================================================================
