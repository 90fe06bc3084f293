----------------------------- MODULE EvlSpinlock ------------------------------
(***************************************************************************)
(* evl_spinlock_t (evl/lock.h) on top of the rescheduling machinery: a     *)
(* hard spinlock whose holder has EVL preemption disabled, so that the     *)
(* core does not replace it while it holds the lock.  A lock or unlock     *)
(* macro is two steps, the preemption count and the raw lock, in the order *)
(* of the macro.                                                           *)
(***************************************************************************)
EXTENDS EvlResched, FiniteSets

CONSTANTS Locks,      \* the locks, numbered in the order they nest
          TryLocks    \* whether the threads use evl_spin_trylock()

ASSUME LocksAssumption == Locks \subseteq Nat /\ TryLocks \in BOOLEAN

VARIABLES
  holder,     \* the CPUs whose thread holds the raw lock
  spinning,   \* the lock a CPU spins on, preemption already disabled
  leaving,    \* the raw lock is released, evl_enable_preempt() is to come
  saved       \* the locks of a CPU whose release unmasks hard irqs

lockVars == <<holder, spinning, leaving, saved>>
allVars  == <<vars, lockVars>>

Held(c) == {l \in Locks : c \in holder[l]}

InitL ==
  /\ Init
  /\ holder = [l \in Locks |-> {}]
  /\ spinning = [c \in CPUs |-> {}]
  /\ leaving = [c \in CPUs |-> FALSE]
  /\ saved = [c \in CPUs |-> {}]

------------------------------------------------------------------------------
\* The thread of c is at a point of its code where it may use its locks.
Free(c) ==
  /\ Threaded(c)
  /\ pc[c] = "run"
  /\ spinning[c] = {}
  /\ ~leaving[c]

\* Locks nest in one order, to a bounded depth.
MayLock(c, l) ==
  /\ Free(c)
  /\ \A k \in Held(c) : k < l
  /\ preempt_count[c] < MaxNest

\* What no operation on a lock touches, but evl_enable_preempt() for pc.
KeepResched ==
  UNCHANGED <<flags, local_flags, resched_cpus, ipi, outranked, curr,
              this_rq, irq>>

\* Mutant of evl_spin_lock(): preemption stays enabled.
evl_spin_lock_Preemptible(c, l, mask) ==
  /\ MayLock(c, l)
  /\ spinning' = [spinning EXCEPT ![c] = {l}]
  /\ UNCHANGED <<holder, leaving, saved, pc, hard_off, preempt_count>>
  /\ KeepResched

(***************************************************************************)
(* evl_spin_lock() (mask false), evl_spin_lock_irq() and                   *)
(* evl_spin_lock_irqsave() (mask true): preemption is disabled first.      *)
(***************************************************************************)
evl_spin_lock(c, l, mask) ==
  /\ MayLock(c, l)
  /\ __evl_disable_preempt(c)
  /\ spinning' = [spinning EXCEPT ![c] = {l}]
  /\ hard_off' = [hard_off EXCEPT ![c] = @ \/ mask]
  /\ saved' = [saved EXCEPT ![c] = IF mask /\ ~hard_off[c] THEN @ \cup {l} ELSE @]
  /\ UNCHANGED <<holder, leaving, pc>>
  /\ KeepResched

\* raw_spin_lock() gets the lock at last.
RawLock(c, l) ==
  /\ Threaded(c)
  /\ l \in spinning[c]
  /\ holder[l] = {}
  /\ holder' = [holder EXCEPT ![l] = {c}]
  /\ spinning' = [spinning EXCEPT ![c] = {}]
  /\ UNCHANGED <<vars, leaving, saved>>

\* Mutant of evl_spin_trylock(): the answer of the raw lock is ignored.
evl_spin_trylock_Ignored(c, l) ==
  /\ TryLocks
  /\ MayLock(c, l)
  /\ __evl_disable_preempt(c)
  /\ holder' = [holder EXCEPT ![l] = @ \cup {c}]
  /\ UNCHANGED <<spinning, leaving, saved, pc, hard_off>>
  /\ KeepResched

(***************************************************************************)
(* evl_spin_trylock(): preemption is disabled, then raw_spin_trylock() may *)
(* fail.  The macro does nothing else in that case.                        *)
(***************************************************************************)
evl_spin_trylock(c, l) ==
  /\ TryLocks
  /\ MayLock(c, l)
  /\ __evl_disable_preempt(c)
  /\ holder' = IF holder[l] = {} THEN [holder EXCEPT ![l] = {c}] ELSE holder
  /\ UNCHANGED <<spinning, leaving, saved, pc, hard_off>>
  /\ KeepResched

(***************************************************************************)
(* raw_spin_unlock(), raw_spin_unlock_irq() or raw_spin_unlock_irqrestore()*)
(* of the innermost lock.                                                  *)
(***************************************************************************)
RawUnlock(c, l) ==
  /\ Free(c)
  /\ l \in Held(c)
  /\ \A k \in Held(c) : k <= l
  /\ holder' = [holder EXCEPT ![l] = {}]
  /\ leaving' = [leaving EXCEPT ![c] = TRUE]
  /\ hard_off' = [hard_off EXCEPT ![c] = @ /\ l \notin saved[c]]
  /\ saved' = [saved EXCEPT ![c] = @ \ {l}]
  /\ UNCHANGED <<spinning, preempt_count, pc>>
  /\ KeepResched

\* The evl_enable_preempt() which ends every unlock macro.
EnablePreempt(c) ==
  /\ Threaded(c)
  /\ leaving[c]
  /\ leaving' = [leaving EXCEPT ![c] = FALSE]
  /\ __evl_enable_preempt(c)
  /\ UNCHANGED <<holder, spinning, saved, hard_off>>
  /\ KeepResched

LockStep(c) ==
  \/ \E l \in Locks :
        \/ \E mask \in BOOLEAN : evl_spin_lock(c, l, mask)
        \/ RawLock(c, l)
        \/ evl_spin_trylock(c, l)
        \/ RawUnlock(c, l)
  \/ EnablePreempt(c)

(***************************************************************************)
(* The rest of the system: wakeups, rescheduling and interrupts.  A thread *)
(* in the middle of a lock operation is only interrupted, and threads mask *)
(* interrupts by the _irq forms of the locks alone.                        *)
(***************************************************************************)
OtherStep(c) ==
  /\ \/ /\ pc[c] # "run" \/ (spinning[c] = {} /\ ~leaving[c])
        /\ \/ \E d \in CPUs : Wakeup(c, d)
           \/ Relinquish(c)
           \/ RunSchedule(c)
     \/ \E d \in CPUs : IrqWakeup(c, d)
     \/ TakeIrq(c)
     \/ TakeIpi(c)
     \/ LeaveIrq(c)
  /\ UNCHANGED lockVars

NextL == \E c \in CPUs : LockStep(c) \/ OtherStep(c)

(***************************************************************************)
(* As for EvlResched; the holder of a lock releases it and finishes the    *)
(* macro, and a spinner gets a lock it keeps seeing free.  Under contention*)
(* that is not enough to get the lock ever (it may be free only while the  *)
(* spinner is interrupted): the queue of the raw lock is outside this code.*)
(***************************************************************************)
LockFairness(c) ==
  /\ WF_allVars(LeaveIrq(c) /\ UNCHANGED lockVars)
  /\ SF_allVars(RunSchedule(c) /\ UNCHANGED lockVars)
  /\ SF_allVars(TakeIpi(c) /\ UNCHANGED lockVars)
  /\ SF_allVars(EnablePreempt(c))
  /\ \A l \in Locks : SF_allVars(RawLock(c, l)) /\ SF_allVars(RawUnlock(c, l))

SpecL == InitL /\ [][NextL]_allVars /\ \A c \in CPUs : LockFairness(c)

------------------------------------------------------------------------------
(* The thread which holds an evl_spinlock_t is not replaced on its CPU,    *)
(* whatever interrupts and wakeups take place: a CPU that spins on the     *)
(* lock never waits for a thread which is not running.                     *)
HolderKeepsCpu ==
  [][\A c \in CPUs : outranked[c] /\ ~outranked'[c] => Held(c) = {}]_allVars

(* At most one CPU is inside the section of a lock, and nobody spins on a  *)
(* lock it holds.                                                          *)
Exclusion ==
  \A l \in Locks :
    /\ Cardinality(holder[l]) <= 1
    /\ \A c \in holder[l] : l \notin spinning[c]

(* "The EVL preemption count ... allows evl_spinlock_t locks to be nested  *)
(* safely" (evl/lock.h): the count of a thread is the number of locks it   *)
(* holds, spins on or is about to be done with, and it is zero, leaving    *)
(* the thread preemptible, when there are none.                            *)
CountIsNesting ==
  \A c \in CPUs :
    preempt_count[c] = Cardinality(Held(c)) + Cardinality(spinning[c])
                       + (IF leaving[c] THEN 1 ELSE 0)

(* A request raised while a lock is held is honoured once it is released.  *)
ReschedAfterUnlock == \A c \in CPUs : outranked[c] ~> ~outranked[c]
==============================================================================
