------------------------------- MODULE SchedFifo -------------------------------
(***************************************************************************)
(* The SCHED_FIFO class on one runqueue (evl/sched/fifo.h) and the queue   *)
(* of runnable threads underneath (evl/sched/queue.h), in either of its    *)
(* two builds, as the core drives them through evl_enqueue_thread(),       *)
(* evl_requeue_thread() and evl_dequeue_thread() (evl/sched.h) with        *)
(* rq->lock held: each action below is one such section.                   *)
(*                                                                         *)
(* The functions of the core which hold those sections are not in this     *)
(* tree; they are modelled from the comments of evl/sched.h on what each   *)
(* call is for (external in the map).                                      *)
(***************************************************************************)
EXTENDS Integers, Sequences, FiniteSets

CONSTANTS Threads,       \* the threads of the class
          Users,         \* those with EVL_T_USER
          Root,          \* rq->root_thread, of the idle class
          MAX_RT_PRIO    \* 100 in the kernel

ASSUME FifoAssumption ==
  /\ MAX_RT_PRIO \in Nat \ {0, 1}
  /\ IsFiniteSet(Threads)
  /\ Users \subseteq Threads
  /\ Root \notin Threads

EVL_CORE_MIN_PRIO == 0
EVL_CORE_MAX_PRIO == MAX_RT_PRIO + 1
EVL_CORE_NR_PRIO  == EVL_CORE_MAX_PRIO - EVL_CORE_MIN_PRIO + 1
EVL_FIFO_MIN_PRIO == 1
EVL_FIFO_MAX_PRIO == MAX_RT_PRIO - 1
EVL_IDLE_PRIO     == -1

VARIABLES
  scalable,   \* CONFIG_EVL_SCHED_SCALABLE, fixed by the build
  runnable,   \* rq->fifo.runnable
  bprio,      \* the base priority of each thread
  cprio,      \* its current one
  boost,      \* the threads with EVL_T_BOOST
  blocked,    \* the threads with one of EVL_THREAD_BLOCK_BITS
  ready,      \* the threads with EVL_T_READY: linked to the runqueue
  curr,       \* rq->curr
  resched     \* RQ_SCHED

fifoVars == <<scalable, runnable, bprio, cprio, boost, blocked, ready, curr,
              resched>>

Linear == INSTANCE LinearSchedq
Mlq    == INSTANCE MlqSchedq WITH EVL_MLQ_LEVELS <- EVL_CORE_NR_PRIO

\* The queue as the build has it.
evl_init_schedq ==
  IF scalable THEN Mlq!evl_init_schedq ELSE Linear!evl_init_schedq
evl_add_schedq(q, t, prio) ==
  IF scalable THEN Mlq!evl_add_schedq(q, t, prio)
  ELSE Linear!evl_add_schedq(q, t, prio)
evl_add_schedq_tail(q, t, prio) ==
  IF scalable THEN Mlq!evl_add_schedq_tail(q, t, prio)
  ELSE Linear!evl_add_schedq_tail(q, t, prio)
evl_del_schedq(q, t, prio) ==
  IF scalable THEN Mlq!evl_del_schedq(q, t, prio)
  ELSE Linear!evl_del_schedq(q, t, prio)
schedq_empty(q) ==
  IF scalable THEN Mlq!schedq_empty(q) ELSE Linear!schedq_empty(q)
evl_get_schedq(q) ==
  IF scalable THEN Mlq!evl_get_schedq(q) ELSE Linear!evl_get_schedq(q)

CorePrios == EVL_CORE_MIN_PRIO .. EVL_CORE_MAX_PRIO

\* What a caller may ask for: one step past each end, to be refused.
AskedPrios == EVL_CORE_MIN_PRIO - 1 .. EVL_CORE_MAX_PRIO + 1

\* __evl_chk_fifo_schedparam().
__evl_chk_fifo_schedparam(t, prio) ==
  IF t \in Users THEN prio \in EVL_FIFO_MIN_PRIO .. EVL_FIFO_MAX_PRIO
  ELSE prio \in EVL_CORE_MIN_PRIO .. EVL_CORE_MAX_PRIO

Init ==
  /\ scalable \in BOOLEAN
  /\ runnable = evl_init_schedq
  /\ bprio \in [Threads -> CorePrios]
  /\ \A t \in Threads : __evl_chk_fifo_schedparam(t, bprio[t])
  /\ cprio = bprio
  /\ boost = {}
  /\ blocked = Threads
  /\ ready = {}
  /\ curr = Root
  /\ resched = FALSE

------------------------------------------------------------------------------
\* A thread gets ready: end of its priority group (evl_enqueue_thread()).
Release(t) ==
  /\ t \in blocked
  /\ blocked' = blocked \ {t}
  /\ ready' = ready \cup {t}
  /\ runnable' = evl_add_schedq_tail(runnable, t, cprio)
  /\ resched' = TRUE
  /\ UNCHANGED <<scalable, bprio, cprio, boost, curr>>

\* A thread is held: out of the queue if it is there (evl_dequeue_thread()).
Hold(t) ==
  /\ t \notin blocked
  /\ blocked' = blocked \cup {t}
  /\ ready' = ready \ {t}
  /\ runnable' = IF t \in ready THEN evl_del_schedq(runnable, t, cprio)
                 ELSE runnable
  /\ resched' = TRUE
  /\ UNCHANGED <<scalable, bprio, cprio, boost, curr>>

\* Mutant of evl_sched_yield: a linked thread is linked again.
evl_sched_yield_Twice ==
  /\ curr # Root
  /\ curr \notin blocked
  /\ ready' = ready \cup {curr}
  /\ runnable' = evl_add_schedq_tail(runnable, curr, cprio)
  /\ resched' = TRUE
  /\ UNCHANGED <<scalable, bprio, cprio, boost, blocked, curr>>

(***************************************************************************)
(* The current thread yields, or its round-robin slot is over: it moves to *)
(* the end of its group.  evl_sched_yield() refuses a blocked thread; the  *)
(* core links a thread once only.                                          *)
(***************************************************************************)
evl_sched_yield ==
  /\ curr # Root
  /\ curr \notin blocked
  /\ ready' = ready \cup {curr}
  /\ runnable' =
       evl_add_schedq_tail(IF curr \in ready
                           THEN evl_del_schedq(runnable, curr, cprio)
                           ELSE runnable, curr, cprio)
  /\ resched' = TRUE
  /\ UNCHANGED <<scalable, bprio, cprio, boost, blocked, curr>>

(***************************************************************************)
(* The core picks a thread: the current one, if it did not block and is    *)
(* not linked yet, goes back at the head of its group                      *)
(* (evl_requeue_thread()), then the queue gives the next thread; the root  *)
(* thread runs when it is empty.                                           *)
(***************************************************************************)
Pick ==
  LET preempted == curr \notin blocked \cup ready \cup {Root}
      q == IF preempted THEN evl_add_schedq(runnable, curr, cprio) ELSE runnable
      linked == IF preempted THEN ready \cup {curr} ELSE ready
  IN  /\ resched
      /\ resched' = FALSE
      /\ IF schedq_empty(q)
         THEN curr' = Root /\ runnable' = q /\ ready' = linked
         ELSE /\ curr' = evl_get_schedq(q).thread
              /\ runnable' = evl_get_schedq(q).queue
              /\ ready' = linked \ {evl_get_schedq(q).thread}
      /\ UNCHANGED <<scalable, bprio, cprio, boost, blocked>>

------------------------------------------------------------------------------
(***************************************************************************)
(* The queue of a thread whose priority changes: it leaves its place under *)
(* the old priority before the change (the bitmap of the multi-level queue *)
(* depends on it) and comes back under the new one.                        *)
(***************************************************************************)
MovedToTail(t) ==
  IF t \in ready
  THEN evl_add_schedq_tail(evl_del_schedq(runnable, t, cprio), t, cprio')
  ELSE runnable

MovedToHead(t) ==
  IF t \in ready
  THEN evl_add_schedq(evl_del_schedq(runnable, t, cprio), t, cprio')
  ELSE runnable

(***************************************************************************)
(* evl_set_effective_thread_priority(), external: the base priority        *)
(* changes, the current one too unless that would lower a boosted thread.  *)
(***************************************************************************)
evl_set_effective_thread_priority(t, prio) ==
  /\ bprio' = [bprio EXCEPT ![t] = prio]
  /\ cprio' = IF t \in boost /\ prio < cprio[t] THEN cprio
              ELSE [cprio EXCEPT ![t] = prio]

\* A change of base parameters, refused with -EINVAL out of range.
evl_set_schedparam(t, prio) ==
  /\ __evl_chk_fifo_schedparam(t, prio)
  /\ evl_set_effective_thread_priority(t, prio)
  /\ runnable' = MovedToTail(t)
  /\ resched' = TRUE
  /\ UNCHANGED <<scalable, boost, blocked, ready, curr>>

(***************************************************************************)
(* A boost raises a thread to the priority of a waiter or to a ceiling,    *)
(* whichever class of thread asked for it (evl_track_priority() and        *)
(* evl_ceil_priority(): no check of the range).                            *)
(***************************************************************************)
evl_track_priority(t, u) ==
  /\ cprio[u] > cprio[t]
  /\ boost' = boost \cup {t}
  /\ cprio' = [cprio EXCEPT ![t] = cprio[u]]
  /\ runnable' = MovedToTail(t) \/ runnable' = MovedToHead(t)
  /\ resched' = TRUE
  /\ UNCHANGED <<scalable, bprio, blocked, ready, curr>>

\* Mutant of evl_untrack_priority: the scheduler is not told.
evl_untrack_priority_Silent(t) ==
  /\ t \in boost
  /\ boost' = boost \ {t}
  /\ cprio' = [cprio EXCEPT ![t] = bprio[t]]
  /\ runnable' = MovedToTail(t)
  /\ UNCHANGED <<scalable, bprio, blocked, ready, curr, resched>>

\* The boost ends: back to the base priority.
evl_untrack_priority(t) ==
  /\ t \in boost
  /\ boost' = boost \ {t}
  /\ cprio' = [cprio EXCEPT ![t] = bprio[t]]
  /\ runnable' = MovedToTail(t) \/ runnable' = MovedToHead(t)
  /\ resched' = TRUE
  /\ UNCHANGED <<scalable, bprio, blocked, ready, curr>>

Next ==
  \/ \E t \in Threads :
        \/ Release(t)
        \/ Hold(t)
        \/ \E prio \in AskedPrios : evl_set_schedparam(t, prio)
        \/ \E u \in Threads : evl_track_priority(t, u)
        \/ evl_untrack_priority(t)
  \/ evl_sched_yield
  \/ Pick

Spec == Init /\ [][Next]_fifoVars

------------------------------------------------------------------------------
\* The threads linked to the runqueue at a priority, in order.
Line(p) ==
  IF scalable THEN runnable.heads[Mlq!get_qindex(p)]
  ELSE Linear!group(runnable, p, cprio)

\* Where a thread is linked: the priority and the place in line.
Places(t) ==
  UNION {{<<p, i>> : i \in {j \in DOMAIN Line(p) : Line(p)[j] = t}} : p \in CorePrios}

(* The fields of the multi-level queue agree (evl/sched/queue.h): the bit  *)
(* of a level is set when and only when a thread is linked there, and the  *)
(* count is the number of linked threads.  A stale bit makes the core      *)
(* dereference an empty list, a missing one starves a level.               *)
MlqCoherent ==
  scalable =>
    /\ runnable.prio_map = {i \in Mlq!Index : runnable.heads[i] # <<>>}
    /\ runnable.elems = Cardinality(ready)

(* A runnable thread is either on the CPU or linked to the runqueue, once, *)
(* at its current priority, whatever changes of priority took place while  *)
(* it was linked.                                                          *)
RunnableLinkedOnce ==
  /\ \A t \in Threads \ blocked : t = curr \/ t \in ready
  /\ \A t \in ready : \E i \in DOMAIN Line(cprio[t]) : Places(t) = {<<cprio[t], i>>}
  /\ \A t \in Threads \ ready : Places(t) = {}

(* When no request to reschedule is pending, no linked thread outranks the *)
(* current one, and no thread is linked while the root thread runs.        *)
BestRuns ==
  ~resched =>
    \A t \in ready : curr # Root /\ cprio[t] <= cprio[curr]

\* Both queues implement the policy of SCHED_FIFO.
Policy ==
  INSTANCE FifoPolicy
    WITH Prios <- CorePrios,
         Nobody <- Root,
         line <- [p \in CorePrios |-> Line(p)],
         prio <- cprio,
         running <- curr,
         able <- curr \notin blocked

(* The linear list and the multi-level queue both serve each priority in   *)
(* turn and the highest first; a preempted thread keeps its turn.          *)
ImplementsFifo == Policy!Spec
==============================================================================
