---------------------------- MODULE SchedClasses ----------------------------
(***************************************************************************)
(* Scheduling classes and priorities (evl/sched.h, evl/sched/idle.h,       *)
(* fifo.h, weak.h): what the core calls in a class to change the policy of *)
(* a thread, to boost it and to drop the boost, and what becomes of its    *)
(* two classes, its three priorities and its place in a queue.             *)
(*                                                                         *)
(* A thread is pinned, its lock and the one of its runqueue held, in each  *)
(* of these steps.  The callers, and the functions of the weak class, are  *)
(* not in the tree.                                                        *)
(***************************************************************************)
EXTENDS Integers, FiniteSets

CONSTANTS
  Threads,
  UserThreads,
  EVL_CORE_MIN_PRIO, EVL_CORE_MAX_PRIO,
  EVL_FIFO_MIN_PRIO, EVL_FIFO_MAX_PRIO,
  EVL_WEAK_MIN_PRIO, EVL_WEAK_MAX_PRIO,
  EVL_CLASS_WEIGHT_FACTOR

ASSUME ClassesAssumption ==
  /\ IsFiniteSet(Threads)
  /\ UserThreads \subseteq Threads
  /\ EVL_CORE_MIN_PRIO \in Nat /\ EVL_CORE_MAX_PRIO \in Nat
  /\ EVL_FIFO_MIN_PRIO \in Nat /\ EVL_FIFO_MAX_PRIO \in Nat
  /\ EVL_WEAK_MIN_PRIO \in Nat /\ EVL_WEAK_MAX_PRIO \in Nat
  /\ EVL_CORE_MIN_PRIO <= EVL_FIFO_MIN_PRIO
  /\ EVL_FIFO_MAX_PRIO <= EVL_CORE_MAX_PRIO
  /\ EVL_CLASS_WEIGHT_FACTOR \in Nat
  /\ EVL_CORE_MAX_PRIO + 1 < EVL_CLASS_WEIGHT_FACTOR
  /\ EVL_WEAK_MAX_PRIO + 1 < EVL_CLASS_WEIGHT_FACTOR

VARIABLES
  thread,    \* the scheduling fields of each thread
  nthreads   \* of each class

classVars == <<thread, nthreads>>

EVL_IDLE_PRIO == -1
Classes == {"idle", "weak", "fifo"}
NoClass == "none"

EVL_CLASS_WEIGHT(n) == n * EVL_CLASS_WEIGHT_FACTOR
weight(class) ==
  CASE class = "idle" -> EVL_CLASS_WEIGHT(0)
    [] class = "weak" -> EVL_CLASS_WEIGHT(1)
    [] class = "fifo" -> EVL_CLASS_WEIGHT(2)

Prios == {EVL_IDLE_PRIO} \cup 0 .. EVL_CLASS_WEIGHT_FACTOR - 1

\* linked: the class whose queue the thread is in.
NewThread == [base_class |-> NoClass, sched_class |-> NoClass,
              bprio |-> EVL_IDLE_PRIO, cprio |-> EVL_IDLE_PRIO,
              wprio |-> EVL_IDLE_PRIO, state |-> {}, linked |-> NoClass]

ClassInit ==
  /\ thread = [t \in Threads |-> NewThread]
  /\ nthreads = [c \in Classes |-> 0]

-----------------------------------------------------------------------------
\* Each operator below maps the fields of a thread to their new values.

evl_calc_weighted_prio(class, prio) == prio + weight(class)

evl_enqueue_thread(th) ==
  [th EXCEPT !.linked = IF th.sched_class = "idle" THEN NoClass ELSE th.sched_class]

\* Only the queue of the effective class gives the thread up.
evl_dequeue_thread(th) ==
  [th EXCEPT !.linked = IF @ = th.sched_class THEN NoClass ELSE @]

evl_check_schedparams(class, t, prio) ==
  CASE class = "fifo" /\ t \in UserThreads -> prio \in EVL_FIFO_MIN_PRIO .. EVL_FIFO_MAX_PRIO
    [] class = "fifo" /\ t \notin UserThreads -> prio \in EVL_CORE_MIN_PRIO .. EVL_CORE_MAX_PRIO
    [] class = "weak" -> prio \in EVL_WEAK_MIN_PRIO .. EVL_WEAK_MAX_PRIO
    [] class = "idle" -> prio = EVL_IDLE_PRIO

\* A boost is not contradicted: only the base priority changes then.
Denied(th, prio) ==
  /\ evl_calc_weighted_prio(th.base_class, prio) < th.wprio
  /\ "BOOST" \in th.state

evl_set_effective_thread_priority(th, prio) ==
  [th EXCEPT !.bprio = prio, !.cprio = IF Denied(th, prio) THEN @ ELSE prio]

__evl_set_idle_schedparam(th, prio) ==
  evl_set_effective_thread_priority([th EXCEPT !.state = @ \ {"WEAK"}], prio)

__evl_set_fifo_schedparam(th, prio) ==
  [evl_set_effective_thread_priority(th, prio) EXCEPT
     !.state = IF "BOOST" \in @ THEN @ ELSE @ \ {"WEAK"}]

SetWeakParam(th, prio) ==
  [evl_set_effective_thread_priority(th, prio) EXCEPT
     !.state = IF "BOOST" \in @ THEN @ ELSE @ \cup {"WEAK"}]

evl_set_schedparam(th, prio) ==
  CASE th.base_class = "idle" -> __evl_set_idle_schedparam(th, prio)
    [] th.base_class = "weak" -> SetWeakParam(th, prio)
    [] th.base_class = "fifo" -> __evl_set_fifo_schedparam(th, prio)

\* sched_trackprio() with a priority, which the idle class does not support.
TrackPrio(th, prio) == [th EXCEPT !.cprio = prio]

\* sched_trackprio() without one: the boost is over.
TrackBase(th) ==
  CASE th.sched_class = "idle" -> [th EXCEPT !.cprio = EVL_IDLE_PRIO]
    [] th.sched_class = "weak" -> [th EXCEPT !.cprio = th.bprio, !.state = @ \cup {"WEAK"}]
    [] th.sched_class = "fifo" -> [th EXCEPT !.cprio = th.bprio, !.state = @ \ {"WEAK"}]

Weighted(th) == [th EXCEPT !.wprio = evl_calc_weighted_prio(th.sched_class, th.cprio)]

\* Mutant of evl_track_priority(): the weighted priority is left alone.
evl_track_priority_NoWeight(th) == th

\* evl_track_priority() and evl_ceil_priority(), once the class did its part.
evl_track_priority(th) == Weighted(th)

\* Out of the queue under the old settings, back under the new ones.
Relinked(old, new) ==
  IF "READY" \in old.state THEN evl_enqueue_thread(new) ELSE new

-----------------------------------------------------------------------------
Alive(t) == thread[t].base_class # NoClass

evl_declare_thread(class, th) ==
  IF class # th.base_class THEN [nthreads EXCEPT ![class] = @ + 1] ELSE nthreads

(***************************************************************************)
(* evl_set_thread_policy_locked(), for a new thread too.  Declaring the    *)
(* thread to its new class comes first: it may fail, and then nothing      *)
(* changes.                                                                *)
(***************************************************************************)
evl_set_thread_policy(t, class, prio) ==
  /\ evl_check_schedparams(class, t, prio)
  /\ LET old == thread[t]
         declared == evl_declare_thread(class, old)
         out == IF "READY" \in old.state THEN evl_dequeue_thread(old) ELSE old
         set == evl_set_schedparam([out EXCEPT !.base_class = class], prio)
         new == IF Denied([old EXCEPT !.base_class = class], prio) THEN set
                ELSE Weighted([set EXCEPT !.sched_class = class])
     IN /\ thread' = [thread EXCEPT ![t] = Relinked(old, new)]
        /\ nthreads' = IF Alive(t) /\ old.base_class # class
                       THEN [declared EXCEPT ![old.base_class] = @ - 1]
                       ELSE declared

\* A thread boosts the owner of a mutex it waits for, if that is less urgent.
TrackOwner(t, u) ==
  /\ Alive(t) /\ Alive(u)
  /\ thread[u].wprio > thread[t].wprio
  /\ LET old == thread[t]
         out == IF "READY" \in old.state THEN evl_dequeue_thread(old) ELSE old
         up == [out EXCEPT !.state = @ \cup {"BOOST"},
                           !.sched_class = thread[u].sched_class]
         new == evl_track_priority(TrackPrio(up, thread[u].cprio))
     IN thread' = [thread EXCEPT ![t] = Relinked(old, new)]
  /\ UNCHANGED nthreads

\* The ceiling of a mutex the thread took, in the FIFO class.
evl_ceil_priority(t, prio) ==
  /\ Alive(t)
  /\ evl_calc_weighted_prio("fifo", prio) > thread[t].wprio
  /\ LET old == thread[t]
         out == IF "READY" \in old.state THEN evl_dequeue_thread(old) ELSE old
         up == [out EXCEPT !.state = @ \cup {"BOOST"}, !.sched_class = "fifo"]
         new == evl_track_priority([up EXCEPT !.cprio = prio])
     IN thread' = [thread EXCEPT ![t] = Relinked(old, new)]
  /\ UNCHANGED nthreads

DropBoost(t) ==
  /\ Alive(t)
  /\ "BOOST" \in thread[t].state
  /\ LET old == thread[t]
         out == IF "READY" \in old.state THEN evl_dequeue_thread(old) ELSE old
         down == [out EXCEPT !.state = @ \ {"BOOST"}, !.sched_class = out.base_class]
         new == evl_track_priority(TrackBase(down))
     IN thread' = [thread EXCEPT ![t] = Relinked(old, new)]
  /\ UNCHANGED nthreads

Release(t) ==
  /\ Alive(t)
  /\ "READY" \notin thread[t].state
  /\ thread' = [thread EXCEPT ![t] =
                  [evl_enqueue_thread(thread[t]) EXCEPT !.state = @ \cup {"READY"}]]
  /\ UNCHANGED nthreads

Hold(t) ==
  /\ Alive(t)
  /\ "READY" \in thread[t].state
  /\ thread' = [thread EXCEPT ![t] =
                  [evl_dequeue_thread(thread[t]) EXCEPT !.state = @ \ {"READY"}]]
  /\ UNCHANGED nthreads

\* A thread that is not boosted nor ready any more exits.
evl_forget_thread(t) ==
  /\ Alive(t)
  /\ thread[t].state \cap {"READY", "BOOST"} = {}
  /\ nthreads' = [nthreads EXCEPT ![thread[t].base_class] = @ - 1]
  /\ thread' = [thread EXCEPT ![t] = NewThread]

ClassNext ==
  \/ \E t \in Threads, class \in Classes, prio \in Prios :
       evl_set_thread_policy(t, class, prio)
  \/ \E t, u \in Threads : TrackOwner(t, u)
  \/ \E t \in Threads, prio \in EVL_CORE_MIN_PRIO .. EVL_CORE_MAX_PRIO :
       evl_ceil_priority(t, prio)
  \/ \E t \in Threads :
       DropBoost(t) \/ Release(t) \/ Hold(t) \/ evl_forget_thread(t)

ClassSpec == ClassInit /\ [][ClassNext]_classVars

-----------------------------------------------------------------------------
\* Effective settings are never below the base ones, and equal to them
\* without a boost.
EffectiveSettings(th) ==
  /\ th.wprio = evl_calc_weighted_prio(th.sched_class, th.cprio)
  /\ th.wprio >= evl_calc_weighted_prio(th.base_class, th.bprio)
  /\ "BOOST" \notin th.state =>
       /\ th.sched_class = th.base_class
       /\ th.cprio = th.bprio
       /\ "WEAK" \in th.state <=> th.base_class = "weak"

\* A ready thread is in the queue of its effective class, others in none.
InRightQueue(th) ==
  th.linked = IF "READY" \in th.state /\ th.sched_class # "idle"
              THEN th.sched_class ELSE NoClass

(***************************************************************************)
(* Whatever policy changes, boosts and ceilings overlap: the three         *)
(* priorities of a thread agree with its two classes, it is in the queue   *)
(* it will be looked for, and a class counts the threads based in it.      *)
(***************************************************************************)
ClassesAgree ==
  /\ \A t \in Threads : Alive(t) =>
       EffectiveSettings(thread[t]) /\ InRightQueue(thread[t])
  /\ \A c \in Classes :
       nthreads[c] = Cardinality({t \in Threads : thread[t].base_class = c})
=============================================================================
