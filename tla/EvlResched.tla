------------------------------ MODULE EvlResched ------------------------------
(***************************************************************************)
(* How the EVL core makes sure that a CPU reschedules when it has to       *)
(* (evl/sched.h, evl/irq.h): the RQ_SCHED bit of the shared and of the     *)
(* CPU-local runqueue flags, the mask of CPUs owed a resched IPI, the      *)
(* RQ_IRQ bit of an interrupt in progress and the preemption count.        *)
(*                                                                         *)
(* A CPU runs a thread, out-of-band ("oob") or the in-band kernel          *)
(* ("root", the placeholder rq->root_thread), and at most one interrupt on *)
(* top of it.  Sections covered by rq->lock with hard irqs off are atomic; *)
(* what evl_schedule() reads without a lock is a step of its own, between  *)
(* which interrupts and in-band migration take place.                      *)
(***************************************************************************)
EXTENDS Integers

CONSTANTS CPUs,      \* evl_oob_cpus
          MaxNest    \* bound on the nesting of evl_disable_preempt()

ASSUME NestAssumption == MaxNest \in Nat

VARIABLES
  flags,          \* RQ_SCHED in rq->flags, written under rq->lock
  local_flags,    \* rq->local_flags, written by the owner CPU only
  resched_cpus,   \* rq->resched_cpus, written by the owner CPU only
  ipi,            \* a RESCHEDULE_OOB_IPI is on its way to the CPU
  outranked,      \* a runnable thread should replace rq->curr
  curr,           \* rq->curr: the root thread or an out-of-band thread
  pc,             \* what the current thread is doing
  this_rq,        \* the runqueue pointer evl_schedule() has fetched
  irq,            \* the interrupt on top of the thread, if any
  hard_off,       \* the thread masked interrupts in the CPU
  preempt_count   \* dovetail_current_state()->preempt_count

vars == <<flags, local_flags, resched_cpus, ipi, outranked, curr, pc,
          this_rq, irq, hard_off, preempt_count>>

Stage == {"root", "oob"}

LocalBits == {"RQ_SCHED", "RQ_IRQ"}

(***************************************************************************)
(* "sched": evl_schedule() is to be called, "test": it has fetched this_rq *)
(* and not read the flags yet, "enter": it calls __evl_schedule().         *)
(***************************************************************************)
ThreadPc == {"run", "sched", "test", "enter"}

(***************************************************************************)
(* "handler": between evl_enter_irq() and evl_exit_irq(), "exit": the      *)
(* evl_schedule() of evl_exit_irq(), "tail": on the way back to the thread *)
(***************************************************************************)
IrqPc == {"none", "handler", "exit", "tail"}

evl_need_resched(c) == flags[c]

\* Mutant of SchedRequested: the local flags are not part of the test.
SchedRequested_SharedOnly(r) == flags[r]

\* The test of evl_schedule(), and the one of evl_exit_irq() before it.
SchedRequested(r) == flags[r] \/ "RQ_SCHED" \in local_flags[r]
MustSchedule(r)   == SchedRequested(r) /\ "RQ_IRQ" \notin local_flags[r]

evl_in_irq(c)    == "RQ_IRQ" \in local_flags[c]
evl_is_inband(c) == curr[c] = "root"
evl_cannot_block(c) == evl_in_irq(c) \/ evl_is_inband(c)

Threaded(c) == irq[c] = "none"       \* c executes its thread

Init ==
  /\ flags = [c \in CPUs |-> FALSE]
  /\ local_flags = [c \in CPUs |-> {}]
  /\ resched_cpus = [c \in CPUs |-> {}]
  /\ ipi = [c \in CPUs |-> FALSE]
  /\ outranked = [c \in CPUs |-> FALSE]
  /\ curr = [c \in CPUs |-> "root"]
  /\ pc = [c \in CPUs |-> "run"]
  /\ this_rq = [c \in CPUs |-> c]
  /\ irq = [c \in CPUs |-> "none"]
  /\ hard_off = [c \in CPUs |-> FALSE]
  /\ preempt_count = [c \in CPUs |-> 0]

------------------------------------------------------------------------------
\* Raising a request.

\* Mutant of evl_set_resched(): no trace of the request on the local CPU.
evl_set_resched_SharedOnly(c, d) ==
  /\ flags' = [flags EXCEPT ![d] = TRUE]
  /\ UNCHANGED <<local_flags, resched_cpus>>

\* Mutant of evl_set_resched(): the local RQ_SCHED bit is forgotten.
evl_set_resched_NoLocal(c, d) ==
  /\ flags' = [flags EXCEPT ![d] = TRUE]
  /\ resched_cpus' = IF c = d \/ evl_need_resched(d) THEN resched_cpus
                     ELSE [resched_cpus EXCEPT ![c] = @ \cup {d}]
  /\ UNCHANGED local_flags

\* evl_set_resched(d's rq) executed on c, with d's rq->lock held.
evl_set_resched(c, d) ==
  IF c = d
  THEN /\ flags' = [flags EXCEPT ![c] = TRUE]
       /\ UNCHANGED <<local_flags, resched_cpus>>
  ELSE IF ~evl_need_resched(d)
  THEN /\ flags' = [flags EXCEPT ![d] = TRUE]
       /\ local_flags' = [local_flags EXCEPT ![c] = @ \cup {"RQ_SCHED"}]
       /\ resched_cpus' = [resched_cpus EXCEPT ![c] = @ \cup {d}]
  ELSE UNCHANGED <<flags, local_flags, resched_cpus>>

(***************************************************************************)
(* A thread is made runnable on d from c: it joins d's runqueue and d's    *)
(* rq is marked, in one section under d's rq->lock.  "beats" tells whether *)
(* the newcomer outranks the current thread of d.                          *)
(***************************************************************************)
Readied(c, d, beats) ==
  /\ outranked' = [outranked EXCEPT ![d] = @ \/ beats]
  /\ evl_set_resched(c, d)
  /\ UNCHANGED <<ipi, curr, this_rq, irq, hard_off, preempt_count>>

\* A thread wakes another one up, and evl_schedule() is still to come.
Wakeup(c, d) ==
  /\ Threaded(c)
  /\ pc[c] \in {"run", "sched"}
  /\ pc' = [pc EXCEPT ![c] = "sched"]
  /\ \E beats \in BOOLEAN : Readied(c, d, beats)

\* An interrupt handler does.
IrqWakeup(c, d) ==
  /\ irq[c] = "handler"
  /\ \E beats \in BOOLEAN : Readied(c, d, beats)
  /\ UNCHANGED pc

(***************************************************************************)
(* The current thread gives the CPU up: it blocks (barred by               *)
(* evl_cannot_block()) or yields (evl_sched_yield(), which does nothing    *)
(* while preemption is disabled), then reschedules.                        *)
(***************************************************************************)
Relinquish(c) ==
  /\ Threaded(c)
  /\ pc[c] = "run"
  /\ ~evl_cannot_block(c)
  /\ preempt_count[c] = 0
  /\ pc' = [pc EXCEPT ![c] = "sched"]
  /\ Readied(c, c, TRUE)

------------------------------------------------------------------------------
\* Rescheduling.

(***************************************************************************)
(* Any thread may come to CPU c, having been suspended anywhere in its     *)
(* code.  An in-band task may also come from another CPU, with the pointer *)
(* it fetched there.                                                       *)
(***************************************************************************)
Resume(c, stage) ==
  /\ \E p \in ThreadPc, r \in CPUs :
        /\ r # c => stage = "root" /\ p = "test"
        /\ pc' = [pc EXCEPT ![c] = p]
        /\ this_rq' = [this_rq EXCEPT ![c] = r]
  /\ irq' = [irq EXCEPT ![c] = "none"]
  /\ hard_off' = [hard_off EXCEPT ![c] = FALSE]

(***************************************************************************)
(* __evl_schedule(), external to this tree, as evl_set_resched() and       *)
(* evl_schedule() rely on it: with hard irqs off and this_rq->lock held it *)
(* sends the IPIs owed (test_resched()), then honours RQ_SCHED by picking  *)
(* a thread, unless preemption is disabled, in which case the request is   *)
(* kept for later.  "back" is what the CPU does if it keeps its thread.    *)
(***************************************************************************)
SendIpis(c) ==
  /\ ipi' = [d \in CPUs |-> ipi[d] \/ d \in resched_cpus[c]]
  /\ resched_cpus' = [resched_cpus EXCEPT ![c] = {}]
  /\ local_flags' = IF resched_cpus[c] = {} THEN local_flags
                    ELSE [local_flags EXCEPT ![c] = @ \ {"RQ_SCHED"}]

SwitchThread(c) ==
  /\ flags[c] /\ preempt_count[c] = 0 /\ outranked[c]
  /\ flags' = [flags EXCEPT ![c] = FALSE]
  /\ outranked' = [outranked EXCEPT ![c] = FALSE]
  /\ \E stage \in Stage :
        /\ curr[c] = "root" => stage = "oob"
        /\ curr' = [curr EXCEPT ![c] = stage]
        /\ Resume(c, stage)

KeepThread(c, back) ==
  /\ ~(flags[c] /\ preempt_count[c] = 0 /\ outranked[c])
  /\ flags' = [flags EXCEPT ![c] = @ /\ preempt_count[c] > 0]
  /\ UNCHANGED <<outranked, curr>>
  /\ back

__evl_schedule(c, back) ==
  /\ SendIpis(c)
  /\ SwitchThread(c) \/ KeepThread(c, back)
  /\ UNCHANGED preempt_count

ThreadGoesTo(c, p) ==
  /\ pc' = [pc EXCEPT ![c] = p]
  /\ this_rq' = [this_rq EXCEPT ![c] = c]
  /\ UNCHANGED <<irq, hard_off>>

IrqGoesTo(c, p) ==
  /\ irq' = [irq EXCEPT ![c] = p]
  /\ UNCHANGED <<pc, this_rq, hard_off>>

\* A thread calls evl_schedule() whether or not something is pending.
CallSchedule(c) ==
  /\ Threaded(c)
  /\ pc[c] = "run"
  /\ ThreadGoesTo(c, "sched")
  /\ UNCHANGED <<flags, local_flags, resched_cpus, ipi, outranked, curr,
                 preempt_count>>

\* this_rq = this_evl_rq().
FetchRq(c) ==
  /\ Threaded(c)
  /\ pc[c] = "sched"
  /\ ThreadGoesTo(c, "test")
  /\ UNCHANGED <<flags, local_flags, resched_cpus, ipi, outranked, curr,
                 preempt_count>>

\* The lockless test of evl_schedule(), on the runqueue it fetched.
TestRq(c) ==
  /\ Threaded(c)
  /\ pc[c] = "test"
  /\ ThreadGoesTo(c, IF MustSchedule(this_rq[c]) THEN "enter" ELSE "run")
  /\ UNCHANGED <<flags, local_flags, resched_cpus, ipi, outranked, curr,
                 preempt_count>>

\* __evl_schedule(), called directly or escalated by run_oob_call().
EnterSchedule(c) ==
  /\ Threaded(c)
  /\ pc[c] = "enter"
  /\ __evl_schedule(c, ThreadGoesTo(c, "run"))

------------------------------------------------------------------------------
\* The preemption count and the hard interrupt mask of a thread.

__evl_disable_preempt(c) ==
  preempt_count' = [preempt_count EXCEPT ![c] = @ + 1]

\* Mutant of __evl_enable_preempt(): no call to evl_schedule().
__evl_enable_preempt_NoSched(c) ==
  /\ preempt_count' = [preempt_count EXCEPT ![c] = @ - 1]
  /\ UNCHANGED pc

\* The last evl_enable_preempt() calls evl_schedule().
__evl_enable_preempt(c) ==
  /\ preempt_count' = [preempt_count EXCEPT ![c] = @ - 1]
  /\ pc' = [pc EXCEPT ![c] = IF preempt_count[c] = 1 THEN "sched" ELSE @]

evl_disable_preempt(c) ==
  /\ Threaded(c)
  /\ pc[c] = "run"
  /\ preempt_count[c] < MaxNest
  /\ __evl_disable_preempt(c)
  /\ UNCHANGED <<flags, local_flags, resched_cpus, ipi, outranked, curr, pc,
                 this_rq, irq, hard_off>>

evl_enable_preempt(c) ==
  /\ Threaded(c)
  /\ pc[c] = "run"
  /\ preempt_count[c] > 0
  /\ __evl_enable_preempt(c)
  /\ UNCHANGED <<flags, local_flags, resched_cpus, ipi, outranked, curr,
                 this_rq, irq, hard_off>>

SetHardIrqs(c, off) ==
  /\ Threaded(c)
  /\ pc[c] = "run"
  /\ hard_off[c] = ~off
  /\ hard_off' = [hard_off EXCEPT ![c] = off]
  /\ UNCHANGED <<flags, local_flags, resched_cpus, ipi, outranked, curr, pc,
                 this_rq, irq, preempt_count>>

HardIrqsOff(c) == SetHardIrqs(c, TRUE)
HardIrqsOn(c)  == SetHardIrqs(c, FALSE)

------------------------------------------------------------------------------
\* Interrupts.

\* Mutant of evl_enter_irq(): the interrupt leaves no mark.
evl_enter_irq_NoMark(c) == UNCHANGED local_flags

evl_enter_irq(c) ==
  local_flags' = [local_flags EXCEPT ![c] = @ \cup {"RQ_IRQ"}]

TakeInterrupt(c) ==
  /\ Threaded(c)
  /\ ~hard_off[c]
  /\ evl_enter_irq(c)
  /\ IrqGoesTo(c, "handler")
  /\ UNCHANGED <<flags, resched_cpus, outranked, curr, preempt_count>>

\* A device or timer interrupt.
TakeIrq(c) == TakeInterrupt(c) /\ UNCHANGED ipi

\* The resched IPI: its handler does nothing, evl_exit_irq() does the job.
TakeIpi(c) ==
  /\ ipi[c]
  /\ ipi' = [ipi EXCEPT ![c] = FALSE]
  /\ TakeInterrupt(c)

(***************************************************************************)
(* A handler which calls evl_schedule() (evl_raise_flag(), for instance):  *)
(* RQ_IRQ is meant to make it return at once.                              *)
(***************************************************************************)
IrqSchedule(c) ==
  /\ irq[c] = "handler"
  /\ IF MustSchedule(c)
     THEN __evl_schedule(c, IrqGoesTo(c, "handler"))
     ELSE UNCHANGED vars

\* evl_exit_irq() up to its test of the flags.
evl_exit_irq(c) ==
  /\ irq[c] = "handler"
  /\ local_flags' = [local_flags EXCEPT ![c] = @ \ {"RQ_IRQ"}]
  /\ IrqGoesTo(c, IF SchedRequested(c) THEN "exit" ELSE "tail")
  /\ UNCHANGED <<flags, resched_cpus, ipi, outranked, curr, preempt_count>>

\* The evl_schedule() of evl_exit_irq(), hard irqs still off.
ExitSchedule(c) ==
  /\ irq[c] = "exit"
  /\ __evl_schedule(c, IrqGoesTo(c, "tail"))

\* Back to the interrupted thread.
IrqReturn(c) ==
  /\ irq[c] = "tail"
  /\ IrqGoesTo(c, "none")
  /\ UNCHANGED <<flags, local_flags, resched_cpus, ipi, outranked, curr,
                 preempt_count>>

(***************************************************************************)
(* The in-band scheduler takes the interrupted task off the CPU on return  *)
(* from the interrupt, perhaps to run it elsewhere, and puts another one   *)
(* on.  A task which disabled EVL preemption has stalled the in-band stage *)
(* or masked interrupts (evl/lock.h) and is not preempted.                 *)
(***************************************************************************)
InbandPreempt(c) ==
  /\ irq[c] = "tail"
  /\ evl_is_inband(c)
  /\ preempt_count[c] = 0
  /\ Resume(c, "root")
  /\ UNCHANGED <<flags, local_flags, resched_cpus, ipi, outranked, curr,
                 preempt_count>>

------------------------------------------------------------------------------
CpuStep(c) ==
  \/ \E d \in CPUs : Wakeup(c, d) \/ IrqWakeup(c, d)
  \/ Relinquish(c)
  \/ CallSchedule(c)
  \/ FetchRq(c)
  \/ TestRq(c)
  \/ EnterSchedule(c)
  \/ HardIrqsOff(c)
  \/ HardIrqsOn(c)
  \/ TakeIrq(c)
  \/ TakeIpi(c)
  \/ IrqSchedule(c)
  \/ evl_exit_irq(c)
  \/ ExitSchedule(c)
  \/ IrqReturn(c)
  \/ InbandPreempt(c)

Next ==
  \E c \in CPUs : CpuStep(c) \/ evl_disable_preempt(c) \/ evl_enable_preempt(c)

(***************************************************************************)
(* Interrupts end, and do not keep a thread from running for ever; the     *)
(* thread goes through evl_schedule(), leaves its guarded sections and     *)
(* unmasks interrupts; an IPI reaches a CPU which keeps unmasking them.    *)
(* Nobody is obliged to wake a thread up, to call evl_schedule() out of    *)
(* the blue, or to interrupt.                                              *)
(***************************************************************************)
LeaveIrq(c) ==
  evl_exit_irq(c) \/ ExitSchedule(c) \/ IrqReturn(c) \/ InbandPreempt(c)

RunSchedule(c) == FetchRq(c) \/ TestRq(c) \/ EnterSchedule(c)

CpuFairness(c) ==
  /\ WF_vars(LeaveIrq(c))
  /\ SF_vars(RunSchedule(c))
  /\ SF_vars(HardIrqsOn(c))
  /\ SF_vars(TakeIpi(c))
  /\ \A n \in 1 .. MaxNest :
        SF_vars(preempt_count[c] = n /\ evl_enable_preempt(c))

Spec == Init /\ [][Next]_vars /\ \A c \in CPUs : CpuFairness(c)

------------------------------------------------------------------------------
(* Type invariant. *)
TypeOK ==
  /\ flags \in [CPUs -> BOOLEAN]
  /\ local_flags \in [CPUs -> SUBSET LocalBits]
  /\ resched_cpus \in [CPUs -> SUBSET CPUs]
  /\ ipi \in [CPUs -> BOOLEAN]
  /\ outranked \in [CPUs -> BOOLEAN]
  /\ curr \in [CPUs -> Stage]
  /\ pc \in [CPUs -> ThreadPc]
  /\ this_rq \in [CPUs -> CPUs]
  /\ irq \in [CPUs -> IrqPc]
  /\ hard_off \in [CPUs -> BOOLEAN]
  /\ preempt_count \in [CPUs -> 0 .. MaxNest]

(***************************************************************************)
(* CPU c is bound to go through __evl_schedule() on behalf of what is      *)
(* pending on it, without waiting for any further event: an interrupt is   *)
(* yet to be exited, preemption is yet to be enabled, or the thread is on  *)
(* its way through evl_schedule() with the right runqueue.                 *)
(***************************************************************************)
Attending(c) ==
  \/ irq[c] \in {"handler", "exit"}
  \/ preempt_count[c] > 0
  \/ /\ Threaded(c)
     /\ \/ pc[c] \in {"sched", "enter"}
        \/ pc[c] = "test" /\ this_rq[c] = c

(* No rescheduling request is lost (evl_set_resched(), evl_schedule(),     *)
(* evl_exit_irq()): when the current thread of a CPU should be replaced,   *)
(* RQ_SCHED is set there and either the CPU is attending to it, or an IPI  *)
(* is on its way, or another CPU which attends owes it one.  This covers   *)
(* the lockless read of the flags and the in-band task that migrates       *)
(* between fetching this_rq and reading it.                                *)
ReschedNotLost ==
  \A c \in CPUs : outranked[c] =>
    /\ flags[c]
    /\ \/ Attending(c)
       \/ ipi[c]
       \/ \E d \in CPUs : c \in resched_cpus[d] /\ Attending(d)

(* A CPU never forgets an IPI it owes: while its resched_cpus is not       *)
(* empty, its local RQ_SCHED makes the next evl_schedule() go through and  *)
(* such a call is to come.                                                 *)
IpisGetSent ==
  \A c \in CPUs : resched_cpus[c] # {} =>
    "RQ_SCHED" \in local_flags[c] /\ Attending(c)

(* The current thread is never replaced from within an interrupt handler   *)
(* (RQ_IRQ defers the switch to evl_exit_irq()), nor while it has          *)
(* preemption disabled.                                                    *)
SwitchOnlyWhenAllowed ==
  [][\A c \in CPUs :
       outranked[c] /\ ~outranked'[c] =>
         irq[c] # "handler" /\ preempt_count[c] = 0]_vars

(* A CPU whose current thread should be replaced does replace it. *)
ReschedHappens == \A c \in CPUs : outranked[c] ~> ~outranked[c]
==============================================================================
