--------------------------- MODULE EvlReschedProof ---------------------------
(***************************************************************************)
(* Proofs about EvlResched, for any set of CPUs and any nesting bound, and *)
(* about the locks of EvlSpinlock on top of it, for any locks.             *)
(***************************************************************************)
EXTENDS EvlSpinlock, FiniteSetTheorems, TLAPS

(***************************************************************************)
(* The inductive invariant, per CPU.  RQ_IRQ tells an interrupt handler    *)
(* apart; an owed IPI is announced by the local RQ_SCHED and attended to;  *)
(* a set RQ_SCHED is attended to, carried by an IPI, or owed by some CPU;  *)
(* and RQ_SCHED is set where the current thread is outranked.              *)
(***************************************************************************)
IrqMarked(c) == "RQ_IRQ" \in local_flags[c] <=> irq[c] = "handler"

OwedMarked(c) == resched_cpus[c] # {} => "RQ_SCHED" \in local_flags[c]

OwedAttended(c) == resched_cpus[c] # {} => Attending(c)

Covered(c) ==
  flags[c] => \/ Attending(c)
              \/ ipi[c]
              \/ \E d \in CPUs : c \in resched_cpus[d]

Requested(c) == outranked[c] => flags[c]

CpuInv(c) ==
  /\ IrqMarked(c)
  /\ OwedMarked(c)
  /\ OwedAttended(c)
  /\ Covered(c)
  /\ Requested(c)

IInv == TypeOK /\ \A c \in CPUs : CpuInv(c)

------------------------------------------------------------------------------

LEMMA InitIInv == Init => IInv
BY NestAssumption
   DEF Init, IInv, TypeOK, CpuInv, IrqMarked, OwedMarked, OwedAttended, Covered,
       Requested, Stage, ThreadPc, IrqPc

(* A CPU whose thread and interrupt do not move keeps attending, or not. *)
LEMMA SameAttending ==
  ASSUME NEW e \in CPUs, irq'[e] = irq[e], pc'[e] = pc[e],
         this_rq'[e] = this_rq[e], preempt_count'[e] = preempt_count[e]
  PROVE  Attending(e)' <=> Attending(e)
BY DEF Attending, Threaded

LEMMA LocalBitAdded ==
  ASSUME TypeOK, NEW c \in CPUs, NEW b \in LocalBits
  PROVE  [local_flags EXCEPT ![c] = @ \cup {b}] \in [CPUs -> SUBSET LocalBits]
<1>1. local_flags[c] \cup {b} \in SUBSET LocalBits
  BY DEF TypeOK
<1>. QED
  BY <1>1 DEF TypeOK

LEMMA TypeSetResched ==
  ASSUME TypeOK, NEW c \in CPUs, NEW d \in CPUs, evl_set_resched(c, d)
  PROVE  /\ flags' \in [CPUs -> BOOLEAN]
         /\ local_flags' \in [CPUs -> SUBSET LocalBits]
         /\ resched_cpus' \in [CPUs -> SUBSET CPUs]
<1>1. CASE c = d
  BY <1>1 DEF evl_set_resched, TypeOK
<1>2. CASE c # d /\ ~flags[d]
  <2>1. local_flags' \in [CPUs -> SUBSET LocalBits]
    BY <1>2, LocalBitAdded DEF evl_set_resched, evl_need_resched, LocalBits
  <2>2. resched_cpus[c] \cup {d} \in SUBSET CPUs
    BY DEF TypeOK
  <2>3. resched_cpus' \in [CPUs -> SUBSET CPUs]
    BY <1>2, <2>2 DEF evl_set_resched, evl_need_resched, TypeOK
  <2>4. flags' \in [CPUs -> BOOLEAN]
    BY <1>2 DEF evl_set_resched, evl_need_resched, TypeOK
  <2>. QED
    BY <2>1, <2>3, <2>4
<1>3. CASE c # d /\ flags[d]
  BY <1>3 DEF evl_set_resched, evl_need_resched, TypeOK
<1>. QED
  BY <1>1, <1>2, <1>3

LEMMA TypeReadied ==
  ASSUME TypeOK, NEW c \in CPUs, NEW d \in CPUs, NEW beats \in BOOLEAN,
         Readied(c, d, beats), pc' \in [CPUs -> ThreadPc]
  PROVE  TypeOK'
BY TypeSetResched DEF Readied, TypeOK

LEMMA TypeSchedule ==
  ASSUME TypeOK, NEW c \in CPUs, NEW back, __evl_schedule(c, back),
         back => /\ pc' \in [CPUs -> ThreadPc]
                 /\ this_rq' \in [CPUs -> CPUs]
                 /\ irq' \in [CPUs -> IrqPc]
                 /\ hard_off' \in [CPUs -> BOOLEAN]
  PROVE  TypeOK'
<1>. USE DEF TypeOK, __evl_schedule
<1>1. /\ ipi' \in [CPUs -> BOOLEAN]
      /\ resched_cpus' \in [CPUs -> SUBSET CPUs]
      /\ local_flags' \in [CPUs -> SUBSET LocalBits]
  BY DEF SendIpis
<1>2. CASE SwitchThread(c)
  <2>1. PICK stage \in Stage : curr' = [curr EXCEPT ![c] = stage] /\ Resume(c, stage)
    BY <1>2 DEF SwitchThread
  <2>2. /\ pc' \in [CPUs -> ThreadPc]
        /\ this_rq' \in [CPUs -> CPUs]
        /\ irq' \in [CPUs -> IrqPc]
        /\ hard_off' \in [CPUs -> BOOLEAN]
    BY <2>1 DEF Resume, IrqPc
  <2>. QED
    BY <1>1, <1>2, <2>1, <2>2 DEF SwitchThread
<1>3. CASE KeepThread(c, back)
  BY <1>1, <1>3 DEF KeepThread
<1>. QED
  BY <1>2, <1>3

LEMMA NextTypeOK == TypeOK /\ [Next]_vars => TypeOK'
<1>. SUFFICES ASSUME TypeOK, [Next]_vars PROVE TypeOK'
  OBVIOUS
<1>1. ASSUME NEW c \in CPUs, NEW d \in CPUs, Wakeup(c, d) PROVE TypeOK'
  BY <1>1, TypeReadied DEF Wakeup, TypeOK, ThreadPc
<1>2. ASSUME NEW c \in CPUs, NEW d \in CPUs, IrqWakeup(c, d) PROVE TypeOK'
  BY <1>2, TypeReadied DEF IrqWakeup, TypeOK
<1>3. ASSUME NEW c \in CPUs, Relinquish(c) PROVE TypeOK'
  BY <1>3, TypeReadied DEF Relinquish, TypeOK, ThreadPc
<1>4. ASSUME NEW c \in CPUs, CallSchedule(c) \/ FetchRq(c) \/ TestRq(c) PROVE TypeOK'
  BY <1>4 DEF CallSchedule, FetchRq, TestRq, ThreadGoesTo, TypeOK, ThreadPc
<1>5. ASSUME NEW c \in CPUs, EnterSchedule(c) PROVE TypeOK'
  <2>1. ThreadGoesTo(c, "run") => /\ pc' \in [CPUs -> ThreadPc]
                                  /\ this_rq' \in [CPUs -> CPUs]
                                  /\ irq' \in [CPUs -> IrqPc]
                                  /\ hard_off' \in [CPUs -> BOOLEAN]
    BY DEF ThreadGoesTo, TypeOK, ThreadPc
  <2>. QED
    BY <1>5, <2>1, TypeSchedule DEF EnterSchedule
<1>6. ASSUME NEW c \in CPUs, HardIrqsOff(c) \/ HardIrqsOn(c) PROVE TypeOK'
  BY <1>6 DEF HardIrqsOff, HardIrqsOn, SetHardIrqs, TypeOK
<1>7. ASSUME NEW c \in CPUs, TakeIrq(c) \/ TakeIpi(c) PROVE TypeOK'
  <2>1. TakeInterrupt(c) /\ ipi' \in [CPUs -> BOOLEAN]
    BY <1>7 DEF TakeIrq, TakeIpi, TypeOK
  <2>2. local_flags' \in [CPUs -> SUBSET LocalBits]
    BY <2>1, LocalBitAdded DEF TakeInterrupt, evl_enter_irq, LocalBits
  <2>3. irq' \in [CPUs -> IrqPc]
    BY <2>1 DEF TakeInterrupt, IrqGoesTo, TypeOK, IrqPc
  <2>. QED
    BY <2>1, <2>2, <2>3 DEF TakeInterrupt, IrqGoesTo, TypeOK
<1>8. ASSUME NEW c \in CPUs, NEW p \in IrqPc, IrqGoesTo(c, p)
      PROVE  /\ pc' \in [CPUs -> ThreadPc]
             /\ this_rq' \in [CPUs -> CPUs]
             /\ irq' \in [CPUs -> IrqPc]
             /\ hard_off' \in [CPUs -> BOOLEAN]
  BY <1>8 DEF IrqGoesTo, TypeOK
<1>9. ASSUME NEW c \in CPUs, IrqSchedule(c) PROVE TypeOK'
  <2>1. CASE UNCHANGED vars
    BY <2>1 DEF TypeOK, vars
  <2>2. CASE __evl_schedule(c, IrqGoesTo(c, "handler"))
    BY <2>2, <1>8, TypeSchedule DEF IrqPc
  <2>. QED
    BY <1>9, <2>1, <2>2 DEF IrqSchedule
<1>10. ASSUME NEW c \in CPUs, evl_exit_irq(c) PROVE TypeOK'
  BY <1>10 DEF evl_exit_irq, IrqGoesTo, TypeOK, IrqPc
<1>11. ASSUME NEW c \in CPUs, ExitSchedule(c) PROVE TypeOK'
  BY <1>11, <1>8, TypeSchedule DEF ExitSchedule, IrqPc
<1>12. ASSUME NEW c \in CPUs, IrqReturn(c) PROVE TypeOK'
  BY <1>12 DEF IrqReturn, IrqGoesTo, TypeOK, IrqPc
<1>13. ASSUME NEW c \in CPUs, InbandPreempt(c) PROVE TypeOK'
  BY <1>13 DEF InbandPreempt, Resume, TypeOK, IrqPc
<1>14. ASSUME NEW c \in CPUs, evl_disable_preempt(c) PROVE TypeOK'
  BY <1>14, NestAssumption DEF evl_disable_preempt, __evl_disable_preempt, TypeOK
<1>15. ASSUME NEW c \in CPUs, evl_enable_preempt(c) PROVE TypeOK'
  BY <1>15, NestAssumption DEF evl_enable_preempt, __evl_enable_preempt, TypeOK, ThreadPc
<1>16. CASE UNCHANGED vars
  BY <1>16 DEF TypeOK, vars
<1>. QED
  BY <1>1, <1>2, <1>3, <1>4, <1>5, <1>6, <1>7, <1>9, <1>10, <1>11, <1>12,
     <1>13, <1>14, <1>15, <1>16 DEF Next, CpuStep

(* Type correctness of the rescheduling machinery. *)
THEOREM ReschedTypeOK == Spec => []TypeOK
<1>1. Init => TypeOK
  BY InitIInv DEF IInv
<1>. QED
  BY <1>1, NextTypeOK, PTL DEF Spec

------------------------------------------------------------------------------

(* What evl_set_resched() guarantees: the target is marked, nothing is     *)
(* forgotten, and a newly marked remote CPU is owed an IPI.                *)
LEMMA SetReschedFacts ==
  ASSUME TypeOK, NEW c \in CPUs, NEW d \in CPUs, evl_set_resched(c, d)
  PROVE  /\ flags'[d]
         /\ \A e \in CPUs :
              /\ e # d => flags'[e] = flags[e]
              /\ "RQ_IRQ" \in local_flags'[e] <=> "RQ_IRQ" \in local_flags[e]
              /\ e # c => local_flags'[e] = local_flags[e]
              /\ e # c => resched_cpus'[e] = resched_cpus[e]
              /\ resched_cpus[e] \subseteq resched_cpus'[e]
         /\ "RQ_SCHED" \in local_flags[c] => "RQ_SCHED" \in local_flags'[c]
         /\ resched_cpus'[c] # resched_cpus[c] => "RQ_SCHED" \in local_flags'[c]
         /\ ~flags[d] => d = c \/ d \in resched_cpus'[c]
<1>. USE DEF evl_set_resched, evl_need_resched, TypeOK
<1>1. CASE c = d
  BY <1>1
<1>2. CASE c # d /\ ~flags[d]
  BY <1>2
<1>3. CASE c # d /\ flags[d]
  BY <1>3
<1>. QED
  BY <1>1, <1>2, <1>3

LEMMA ReadiedStep ==
  ASSUME IInv, NEW c \in CPUs, NEW d \in CPUs, NEW beats \in BOOLEAN,
         Readied(c, d, beats), Attending(c)',
         \A e \in CPUs : e # c => pc'[e] = pc[e]
  PROVE  \A e \in CPUs : CpuInv(e)'
<1>. SUFFICES ASSUME NEW e \in CPUs PROVE CpuInv(e)'
  OBVIOUS
<1>. USE DEF IInv, CpuInv, Readied
<1>0. evl_set_resched(c, d)
  OBVIOUS
<1>1. \A f \in CPUs : f # c => (Attending(f)' <=> Attending(f))
  BY SameAttending
<1>2. IrqMarked(e)'
  BY <1>0, SetReschedFacts DEF IrqMarked
<1>3. OwedMarked(e)'
  BY <1>0, SetReschedFacts DEF OwedMarked
<1>4. OwedAttended(e)'
  BY <1>0, <1>1, SetReschedFacts DEF OwedAttended
<1>5. Covered(e)'
  <2>1. CASE flags[e]
    <3>1. Attending(e) \/ ipi[e] \/ \E f \in CPUs : e \in resched_cpus[f]
      BY <2>1 DEF Covered
    <3>2. ASSUME NEW f \in CPUs, e \in resched_cpus[f] PROVE e \in resched_cpus'[f]
      BY <3>2, <1>0, SetReschedFacts
    <3>. QED
      BY <3>1, <3>2, <1>1 DEF Covered
  <2>2. CASE ~flags[e] /\ flags'[e]
    BY <2>2, <1>0, SetReschedFacts DEF Covered
  <2>. QED
    BY <2>1, <2>2 DEF Covered
<1>6. Requested(e)'
  <2>1. CASE e = d
    BY <2>1, <1>0, SetReschedFacts DEF Requested
  <2>2. CASE e # d
    <3>1. flags'[e] = flags[e]
      BY <2>2, <1>0, SetReschedFacts
    <3>2. outranked'[e] = outranked[e]
      BY <2>2 DEF TypeOK
    <3>. QED
      BY <3>1, <3>2 DEF Requested
  <2>. QED
    BY <2>1, <2>2
<1>. QED
  BY <1>2, <1>3, <1>4, <1>5, <1>6

(* __evl_schedule() sends every IPI it owes, and leaves RQ_SCHED set only  *)
(* if the thread has preemption disabled.                                  *)
LEMMA ScheduleFacts ==
  ASSUME TypeOK, NEW c \in CPUs, NEW back, __evl_schedule(c, back),
         back => \A e \in CPUs : e # c =>
                   pc'[e] = pc[e] /\ irq'[e] = irq[e] /\ this_rq'[e] = this_rq[e],
         back => irq'[c] # "handler"
  PROVE  /\ \A e \in CPUs : e # c =>
              /\ flags'[e] = flags[e] /\ outranked'[e] = outranked[e]
              /\ local_flags'[e] = local_flags[e]
              /\ resched_cpus'[e] = resched_cpus[e]
              /\ pc'[e] = pc[e] /\ irq'[e] = irq[e] /\ this_rq'[e] = this_rq[e]
         /\ preempt_count' = preempt_count
         /\ resched_cpus'[c] = {}
         /\ \A e \in CPUs : ipi[e] \/ e \in resched_cpus[c] => ipi'[e]
         /\ "RQ_IRQ" \in local_flags'[c] => "RQ_IRQ" \in local_flags[c]
         /\ irq'[c] # "handler"
         /\ flags'[c] => preempt_count[c] > 0
         /\ Requested(c) => (outranked'[c] => flags'[c])
<1>1. /\ \A e \in CPUs : e # c => local_flags'[e] = local_flags[e]
      /\ \A e \in CPUs : e # c => resched_cpus'[e] = resched_cpus[e]
      /\ preempt_count' = preempt_count
      /\ resched_cpus'[c] = {}
      /\ \A e \in CPUs : ipi[e] \/ e \in resched_cpus[c] => ipi'[e]
      /\ "RQ_IRQ" \in local_flags'[c] => "RQ_IRQ" \in local_flags[c]
  BY DEF __evl_schedule, SendIpis, TypeOK
<1>2. CASE SwitchThread(c)
  <2>1. PICK stage \in Stage : curr' = [curr EXCEPT ![c] = stage] /\ Resume(c, stage)
    BY <1>2 DEF SwitchThread
  <2>2. \A e \in CPUs : e # c =>
           pc'[e] = pc[e] /\ irq'[e] = irq[e] /\ this_rq'[e] = this_rq[e]
    BY <2>1 DEF Resume, TypeOK
  <2>3. irq'[c] = "none"
    BY <2>1 DEF Resume, TypeOK
  <2>4. \A e \in CPUs : e # c => flags'[e] = flags[e] /\ outranked'[e] = outranked[e]
    BY <1>2 DEF SwitchThread, TypeOK
  <2>5. ~flags'[c] /\ ~outranked'[c]
    BY <1>2 DEF SwitchThread, TypeOK
  <2>. QED
    BY <1>1, <2>2, <2>3, <2>4, <2>5
<1>3. CASE KeepThread(c, back)
  <2>1. \A e \in CPUs : e # c => flags'[e] = flags[e] /\ outranked'[e] = outranked[e]
    BY <1>3 DEF KeepThread, TypeOK
  <2>2. flags'[c] <=> flags[c] /\ preempt_count[c] > 0
    BY <1>3 DEF KeepThread, TypeOK
  <2>3. outranked' = outranked /\ ~(flags[c] /\ preempt_count[c] = 0 /\ outranked[c])
    BY <1>3 DEF KeepThread
  <2>4. Requested(c) => (outranked'[c] => flags'[c])
    BY <2>2, <2>3, NestAssumption DEF Requested, TypeOK
  <2>. QED
    BY <1>1, <1>3, <2>1, <2>2, <2>4 DEF KeepThread
<1>. QED
  BY <1>2, <1>3 DEF __evl_schedule

LEMMA ScheduleStep ==
  ASSUME IInv, NEW c \in CPUs, NEW back, __evl_schedule(c, back),
         irq[c] # "handler",
         back => \A e \in CPUs : e # c =>
                   pc'[e] = pc[e] /\ irq'[e] = irq[e] /\ this_rq'[e] = this_rq[e],
         back => irq'[c] # "handler"
  PROVE  \A e \in CPUs : CpuInv(e)'
<1>. SUFFICES ASSUME NEW e \in CPUs PROVE CpuInv(e)'
  OBVIOUS
<1>. USE DEF IInv, CpuInv
<1>1. ~("RQ_IRQ" \in local_flags[c])
  BY DEF IrqMarked
<1>2. CASE e = c
  <2>1. IrqMarked(e)' /\ OwedMarked(e)' /\ OwedAttended(e)'
    BY <1>1, <1>2, ScheduleFacts DEF IrqMarked, OwedMarked, OwedAttended
  <2>2. Covered(e)'
    BY <1>2, ScheduleFacts DEF Covered, Attending
  <2>3. Requested(e)'
    BY <1>2, ScheduleFacts DEF Requested
  <2>. QED
    BY <2>1, <2>2, <2>3
<1>3. CASE e # c
  <2>1. Attending(e)' <=> Attending(e)
    BY <1>3, ScheduleFacts, SameAttending
  <2>2. IrqMarked(e)' /\ OwedMarked(e)' /\ OwedAttended(e)'
    BY <1>3, <2>1, ScheduleFacts DEF IrqMarked, OwedMarked, OwedAttended
  <2>3. Covered(e)'
    <3>1. SUFFICES ASSUME flags[e] PROVE Covered(e)'
      BY <1>3, ScheduleFacts DEF Covered
    <3>2. CASE Attending(e)
      BY <3>2, <2>1 DEF Covered
    <3>3. CASE ipi[e]
      BY <3>3, ScheduleFacts DEF Covered
    <3>4. ASSUME NEW f \in CPUs, e \in resched_cpus[f] PROVE Covered(e)'
      <4>1. CASE f = c
        BY <3>4, <4>1, ScheduleFacts DEF Covered
      <4>2. CASE f # c
        BY <3>4, <4>2, ScheduleFacts DEF Covered
      <4>. QED
        BY <4>1, <4>2
    <3>. QED
      BY <3>1, <3>2, <3>3, <3>4 DEF Covered
  <2>4. Requested(e)'
    BY <1>3, ScheduleFacts DEF Requested
  <2>. QED
    BY <2>2, <2>3, <2>4
<1>. QED
  BY <1>2, <1>3

(***************************************************************************)
(* Every other step moves one CPU along its thread or its interrupt.  It   *)
(* preserves the invariant if that CPU still attends afterwards, or did    *)
(* not before, or has nothing to attend to.                                *)
(***************************************************************************)
LEMMA MoveStep ==
  ASSUME IInv, NEW c \in CPUs,
         UNCHANGED <<flags, resched_cpus, outranked>>,
         \A e \in CPUs : e # c =>
           /\ pc'[e] = pc[e] /\ irq'[e] = irq[e] /\ this_rq'[e] = this_rq[e]
           /\ preempt_count'[e] = preempt_count[e]
           /\ local_flags'[e] = local_flags[e]
           /\ ipi'[e] = ipi[e],
         "RQ_SCHED" \in local_flags[c] => "RQ_SCHED" \in local_flags'[c],
         IrqMarked(c)',
         ipi[c] => ipi'[c] \/ Attending(c)',
         \/ Attending(c)'
         \/ ~Attending(c)
         \/ ~flags[c] /\ resched_cpus[c] = {}
  PROVE  \A e \in CPUs : CpuInv(e)'
<1>. SUFFICES ASSUME NEW e \in CPUs PROVE CpuInv(e)'
  OBVIOUS
<1>. USE DEF IInv, CpuInv
<1>1. e # c => (Attending(e)' <=> Attending(e))
  BY SameAttending
<1>2. IrqMarked(e)'
  BY DEF IrqMarked
<1>3. OwedMarked(e)'
  BY DEF OwedMarked
<1>4. OwedAttended(e)'
  BY <1>1 DEF OwedAttended
<1>5. Covered(e)'
  BY <1>1 DEF Covered
<1>6. Requested(e)'
  BY DEF Requested
<1>. QED
  BY <1>2, <1>3, <1>4, <1>5, <1>6

LEMMA ThreadMoves ==
  ASSUME IInv, NEW c \in CPUs, CallSchedule(c) \/ FetchRq(c) \/ TestRq(c)
  PROVE  \A e \in CPUs : CpuInv(e)'
<1>. USE DEF IInv, TypeOK, ThreadGoesTo, CallSchedule, FetchRq, TestRq
<1>1. /\ UNCHANGED <<flags, resched_cpus, outranked, local_flags, ipi, irq,
                     preempt_count>>
      /\ \A e \in CPUs : e # c => pc'[e] = pc[e] /\ this_rq'[e] = this_rq[e]
      /\ this_rq'[c] = c /\ irq[c] = "none"
  BY DEF Threaded
<1>2. IrqMarked(c)' /\ ~("RQ_IRQ" \in local_flags[c])
  BY <1>1 DEF CpuInv, IrqMarked
<1>3. CASE pc'[c] \in {"sched", "test", "enter"}
  <2>1. Attending(c)'
    BY <1>1, <1>3 DEF Attending, Threaded
  <2>. QED
    BY <1>1, <1>2, <2>1, MoveStep
<1>4. CASE TestRq(c) /\ pc'[c] = "run"
  <2>1. ~MustSchedule(this_rq[c])
    BY <1>4
  <2>2. CASE this_rq[c] = c
    <3>1. ~flags[c] /\ ~("RQ_SCHED" \in local_flags[c])
      BY <2>1, <2>2, <1>2 DEF MustSchedule, SchedRequested
    <3>2. resched_cpus[c] = {}
      BY <3>1 DEF CpuInv, OwedMarked
    <3>. QED
      BY <1>1, <1>2, <3>1, <3>2, MoveStep
  <2>3. CASE this_rq[c] # c
    <3>1. Attending(c)' \/ ~Attending(c)
      BY <1>1, <1>4, <2>3 DEF Attending, Threaded
    <3>. QED
      BY <1>1, <1>2, <3>1, MoveStep
  <2>. QED
    BY <2>2, <2>3
<1>. QED
  BY <1>3, <1>4

LEMMA PreemptMoves ==
  ASSUME IInv, NEW c \in CPUs, evl_disable_preempt(c) \/ evl_enable_preempt(c)
  PROVE  \A e \in CPUs : CpuInv(e)'
<1>. USE DEF IInv, TypeOK, evl_disable_preempt, evl_enable_preempt,
             __evl_disable_preempt, __evl_enable_preempt
<1>1. /\ UNCHANGED <<flags, resched_cpus, outranked, local_flags, ipi, irq, this_rq>>
      /\ irq[c] = "none"
  BY DEF Threaded
<1>2. \A e \in CPUs : e # c =>
         pc'[e] = pc[e] /\ preempt_count'[e] = preempt_count[e]
  OBVIOUS
<1>3. IrqMarked(c)'
  BY <1>1 DEF CpuInv, IrqMarked
<1>4. preempt_count[c] \in Nat
  BY NestAssumption
<1>5. preempt_count'[c] > 0 \/ pc'[c] = "sched"
  <2>1. CASE evl_disable_preempt(c)
    BY <1>4, <2>1
  <2>2. CASE evl_enable_preempt(c)
    BY <1>4, <2>2
  <2>. QED
    BY <2>1, <2>2
<1>6. Attending(c)'
  BY <1>1, <1>5 DEF Attending, Threaded
<1>. QED
  BY <1>1, <1>2, <1>3, <1>6, MoveStep

LEMMA MaskMoves ==
  ASSUME IInv, NEW c \in CPUs, HardIrqsOff(c) \/ HardIrqsOn(c)
  PROVE  \A e \in CPUs : CpuInv(e)'
<1>1. UNCHANGED <<flags, resched_cpus, outranked, local_flags, ipi, irq,
                  this_rq, pc, preempt_count>>
  BY DEF HardIrqsOff, HardIrqsOn, SetHardIrqs
<1>2. IrqMarked(c)' /\ (Attending(c)' <=> Attending(c))
  BY <1>1 DEF IInv, CpuInv, IrqMarked, Attending, Threaded
<1>. QED
  BY <1>1, <1>2, MoveStep

LEMMA InterruptMoves ==
  ASSUME IInv, NEW c \in CPUs, TakeIrq(c) \/ TakeIpi(c)
  PROVE  \A e \in CPUs : CpuInv(e)'
<1>. USE DEF IInv, TypeOK
<1>1. TakeInterrupt(c)
  BY DEF TakeIrq, TakeIpi
<1>2. /\ UNCHANGED <<flags, resched_cpus, outranked, this_rq, pc, preempt_count>>
      /\ irq'[c] = "handler"
      /\ \A e \in CPUs : e # c => irq'[e] = irq[e]
  BY <1>1 DEF TakeInterrupt, IrqGoesTo
<1>3. /\ \A e \in CPUs : e # c => local_flags'[e] = local_flags[e]
      /\ "RQ_SCHED" \in local_flags[c] => "RQ_SCHED" \in local_flags'[c]
      /\ "RQ_IRQ" \in local_flags'[c]
  BY <1>1 DEF TakeInterrupt, evl_enter_irq
<1>4. \A e \in CPUs : e # c => ipi'[e] = ipi[e]
  BY DEF TakeIrq, TakeIpi
<1>5. Attending(c)' /\ IrqMarked(c)'
  BY <1>2, <1>3 DEF Attending, IrqMarked
<1>. QED
  BY <1>2, <1>3, <1>4, <1>5, MoveStep

LEMMA ExitMoves ==
  ASSUME IInv, NEW c \in CPUs, evl_exit_irq(c)
  PROVE  \A e \in CPUs : CpuInv(e)'
<1>. USE DEF IInv, TypeOK, evl_exit_irq, IrqGoesTo
<1>1. /\ UNCHANGED <<flags, resched_cpus, outranked, ipi, this_rq, pc, preempt_count>>
      /\ irq'[c] \in {"exit", "tail"}
      /\ \A e \in CPUs : e # c =>
            irq'[e] = irq[e] /\ local_flags'[e] = local_flags[e]
      /\ local_flags'[c] = local_flags[c] \ {"RQ_IRQ"}
  OBVIOUS
<1>2. IrqMarked(c)'
  BY <1>1 DEF IrqMarked
<1>3. CASE SchedRequested(c)
  <2>1. Attending(c)'
    BY <1>3 DEF Attending
  <2>. QED
    BY <1>1, <1>2, <2>1, MoveStep
<1>4. CASE ~SchedRequested(c)
  <2>1. ~flags[c] /\ resched_cpus[c] = {}
    BY <1>4 DEF SchedRequested, CpuInv, OwedMarked
  <2>. QED
    BY <1>1, <1>2, <2>1, MoveStep
<1>. QED
  BY <1>3, <1>4

LEMMA TailMoves ==
  ASSUME IInv, NEW c \in CPUs, IrqReturn(c) \/ InbandPreempt(c)
  PROVE  \A e \in CPUs : CpuInv(e)'
<1>. USE DEF IInv, TypeOK, IrqReturn, InbandPreempt, IrqGoesTo, Resume
<1>1. /\ UNCHANGED <<flags, resched_cpus, outranked, ipi, local_flags, preempt_count>>
      /\ irq[c] = "tail" /\ irq'[c] = "none"
  OBVIOUS
<1>2. \A e \in CPUs : e # c =>
         irq'[e] = irq[e] /\ pc'[e] = pc[e] /\ this_rq'[e] = this_rq[e]
  OBVIOUS
<1>3. IrqMarked(c)'
  BY <1>1 DEF CpuInv, IrqMarked
<1>4. Attending(c)' \/ ~Attending(c)
  BY <1>1 DEF Attending, Threaded
<1>. QED
  BY <1>1, <1>2, <1>3, <1>4, MoveStep

------------------------------------------------------------------------------

LEMMA NextIInv == IInv /\ [Next]_vars => IInv'
<1>. SUFFICES ASSUME IInv, [Next]_vars PROVE IInv'
  OBVIOUS
<1>0. TypeOK'
  BY NextTypeOK DEF IInv
<1>. SUFFICES \A e \in CPUs : CpuInv(e)'
  BY <1>0 DEF IInv
<1>. USE DEF IInv
<1>1. ASSUME NEW c \in CPUs, NEW d \in CPUs, Wakeup(c, d)
      PROVE  \A e \in CPUs : CpuInv(e)'
  <2>1. PICK beats \in BOOLEAN : Readied(c, d, beats)
    BY <1>1 DEF Wakeup
  <2>2. Attending(c)' /\ \A e \in CPUs : e # c => pc'[e] = pc[e]
    BY <1>1, <2>1 DEF Wakeup, Readied, Attending, Threaded, TypeOK
  <2>. QED
    BY <2>1, <2>2, ReadiedStep
<1>2. ASSUME NEW c \in CPUs, NEW d \in CPUs, IrqWakeup(c, d)
      PROVE  \A e \in CPUs : CpuInv(e)'
  <2>1. PICK beats \in BOOLEAN : Readied(c, d, beats)
    BY <1>2 DEF IrqWakeup
  <2>2. Attending(c)' /\ pc' = pc
    BY <1>2, <2>1 DEF IrqWakeup, Readied, Attending
  <2>. QED
    BY <2>1, <2>2, ReadiedStep
<1>3. ASSUME NEW c \in CPUs, Relinquish(c)
      PROVE  \A e \in CPUs : CpuInv(e)'
  <2>1. Readied(c, c, TRUE)
    BY <1>3 DEF Relinquish
  <2>2. Attending(c)' /\ \A e \in CPUs : e # c => pc'[e] = pc[e]
    BY <1>3, <2>1 DEF Relinquish, Readied, Attending, Threaded, TypeOK
  <2>. QED
    BY <2>1, <2>2, ReadiedStep
<1>4. ASSUME NEW c \in CPUs, EnterSchedule(c)
      PROVE  \A e \in CPUs : CpuInv(e)'
  <2>1. irq[c] # "handler"
    BY <1>4 DEF EnterSchedule, Threaded
  <2>2. ThreadGoesTo(c, "run") =>
          /\ irq' = irq
          /\ \A e \in CPUs : e # c => pc'[e] = pc[e] /\ this_rq'[e] = this_rq[e]
    BY DEF ThreadGoesTo, TypeOK
  <2>. QED
    BY <1>4, <2>1, <2>2, ScheduleStep DEF EnterSchedule
<1>5. ASSUME NEW c \in CPUs, IrqSchedule(c)
      PROVE  \A e \in CPUs : CpuInv(e)'
  <2>1. ~MustSchedule(c)
    BY <1>5 DEF IrqSchedule, MustSchedule, CpuInv, IrqMarked
  <2>2. UNCHANGED vars
    BY <1>5, <2>1 DEF IrqSchedule
  <2>. QED
    BY <2>2 DEF vars, CpuInv, IrqMarked, OwedMarked, OwedAttended, Covered,
                Requested, Attending, Threaded
<1>6. ASSUME NEW c \in CPUs, ExitSchedule(c)
      PROVE  \A e \in CPUs : CpuInv(e)'
  <2>1. irq[c] # "handler"
    BY <1>6 DEF ExitSchedule
  <2>2. IrqGoesTo(c, "tail") =>
          /\ pc' = pc /\ this_rq' = this_rq /\ irq'[c] = "tail"
          /\ \A e \in CPUs : e # c => irq'[e] = irq[e]
    BY DEF IrqGoesTo, TypeOK
  <2>. QED
    BY <1>6, <2>1, <2>2, ScheduleStep DEF ExitSchedule
<1>7. CASE UNCHANGED vars
  BY <1>7 DEF vars, CpuInv, IrqMarked, OwedMarked, OwedAttended, Covered,
              Requested, Attending, Threaded
<1>. QED
  BY <1>1, <1>2, <1>3, <1>4, <1>5, <1>6, <1>7, ThreadMoves, PreemptMoves,
     MaskMoves, InterruptMoves, ExitMoves, TailMoves DEF Next, CpuStep

THEOREM ReschedInvariant == Spec => []IInv
BY InitIInv, NextIInv, PTL DEF Spec

(* No request to reschedule is lost, on any number of CPUs. *)
THEOREM NoReschedLost == Spec => []ReschedNotLost
<1>1. IInv => ReschedNotLost
  BY DEF IInv, CpuInv, Requested, Covered, OwedAttended, ReschedNotLost
<1>. QED
  BY <1>1, ReschedInvariant, PTL

(* No CPU forgets an IPI it owes. *)
THEOREM NoIpiForgotten == Spec => []IpisGetSent
<1>1. IInv => IpisGetSent
  BY DEF IInv, CpuInv, OwedMarked, OwedAttended, IpisGetSent
<1>. QED
  BY <1>1, ReschedInvariant, PTL

(* The current thread is replaced neither under an interrupt handler nor   *)
(* while it has preemption disabled.                                       *)
THEOREM SwitchAllowed == Spec => SwitchOnlyWhenAllowed
<1>. DEFINE Allowed ==
       \A c \in CPUs : outranked[c] /\ ~outranked'[c] =>
         irq[c] # "handler" /\ preempt_count[c] = 0
<1>1. ASSUME IInv, Next, NEW c \in CPUs, outranked[c], ~outranked'[c]
      PROVE  irq[c] # "handler" /\ preempt_count[c] = 0
  <2>. USE DEF IInv, TypeOK
  <2>1. ASSUME NEW e \in CPUs, NEW back, __evl_schedule(e, back)
        PROVE  e = c /\ preempt_count[c] = 0
    BY <1>1, <2>1 DEF __evl_schedule, SwitchThread, KeepThread
  <2>2. ASSUME NEW e \in CPUs, NEW d \in CPUs, NEW beats \in BOOLEAN,
               Readied(e, d, beats)
        PROVE  FALSE
    BY <1>1, <2>2 DEF Readied
  <2>3. ASSUME NEW e \in CPUs, IrqSchedule(e) PROVE FALSE
    <3>1. ~MustSchedule(e)
      BY <1>1, <2>3 DEF IrqSchedule, MustSchedule, CpuInv, IrqMarked
    <3>. QED
      BY <1>1, <2>3, <3>1 DEF IrqSchedule, vars
  <2>4. ASSUME NEW e \in CPUs, EnterSchedule(e) \/ ExitSchedule(e)
        PROVE  irq[c] # "handler" /\ preempt_count[c] = 0
    BY <2>1, <2>4 DEF EnterSchedule, ExitSchedule, Threaded
  <2>5. ASSUME outranked' = outranked PROVE FALSE
    BY <1>1, <2>5
  <2>. QED
    BY <1>1, <2>2, <2>3, <2>4, <2>5
    DEF Next, CpuStep, Wakeup, IrqWakeup, Relinquish, CallSchedule, FetchRq,
        TestRq, HardIrqsOff, HardIrqsOn, SetHardIrqs, TakeIrq, TakeIpi,
        TakeInterrupt, evl_exit_irq, IrqReturn, InbandPreempt,
        evl_disable_preempt, evl_enable_preempt
<1>2. IInv /\ [Next]_vars => [Allowed]_vars
  BY <1>1
<1>. QED
  BY <1>2, ReschedInvariant, PTL DEF Spec, SwitchOnlyWhenAllowed
------------------------------------------------------------------------------
(***************************************************************************)
(* Spinlocks.  Each lock a thread holds, spins on or is leaving counts in  *)
(* its preemption count; an evl_spin_trylock() that failed may count too.  *)
(***************************************************************************)
LockTypeOK ==
  /\ preempt_count \in [CPUs -> Int]
  /\ outranked \in [CPUs -> BOOLEAN]
  /\ holder \in [Locks -> SUBSET CPUs]
  /\ spinning \in [CPUs -> SUBSET Locks]
  /\ leaving \in [CPUs -> BOOLEAN]

OneHolder == \A l \in Locks : holder[l] = {} \/ \E c \in CPUs : holder[l] = {c}

SpinsFree(c) ==
  \/ spinning[c] = {}
  \/ \E l \in Locks : spinning[c] = {l} /\ c \notin holder[l] /\ ~leaving[c]

Pending(c) == IF spinning[c] # {} \/ leaving[c] = TRUE THEN 1 ELSE 0

Nesting(c) == Cardinality(Held(c)) + Pending(c)

Counted(c) == IsFiniteSet(Held(c)) /\ Nesting(c) <= preempt_count[c]

LockInv == LockTypeOK /\ OneHolder /\ \A c \in CPUs : SpinsFree(c) /\ Counted(c)

LEMMA InitLockInv == InitL => LockInv
<1>. SUFFICES ASSUME InitL PROVE LockInv
  OBVIOUS
<1>1. LockTypeOK /\ OneHolder /\ \A c \in CPUs : SpinsFree(c)
  BY DEF InitL, Init, LockTypeOK, OneHolder, SpinsFree
<1>2. ASSUME NEW c \in CPUs PROVE Counted(c)
  <2>1. Held(c) = {}
    BY DEF InitL, Held
  <2>2. spinning[c] = {} /\ leaving[c] = FALSE /\ preempt_count[c] = 0
    BY DEF InitL, Init
  <2>. QED
    BY <2>1, <2>2, FS_EmptySet DEF Counted, Nesting, Pending
<1>. QED
  BY <1>1, <1>2 DEF LockInv

(* What another CPU does leaves the locks of this one alone. *)
LEMMA OthersKeep ==
  ASSUME LockInv, NEW c \in CPUs, NEW e \in CPUs, e # c,
         \A l \in Locks : e \in holder'[l] <=> e \in holder[l],
         spinning'[e] = spinning[e], leaving'[e] = leaving[e],
         preempt_count'[e] = preempt_count[e]
  PROVE  SpinsFree(e)' /\ Counted(e)'
<1>1. Held(e)' = Held(e)
  BY DEF Held
<1>2. Counted(e)'
  BY <1>1 DEF LockInv, Counted, Nesting, Pending
<1>3. SpinsFree(e)'
  BY DEF LockInv, SpinsFree
<1>. QED
  BY <1>2, <1>3

LEMMA HeldCount ==
  ASSUME LockInv, NEW c \in CPUs
  PROVE  /\ IsFiniteSet(Held(c)) /\ Cardinality(Held(c)) \in Nat
         /\ preempt_count[c] \in Int
         /\ Cardinality(Held(c)) = 0 => Held(c) = {}
         /\ Nesting(c) <= preempt_count[c]
  BY FS_CardinalityType, FS_EmptySet DEF LockInv, Counted, LockTypeOK

LEMMA PendingNone ==
  ASSUME LockInv, NEW c \in CPUs, spinning[c] = {}, ~leaving[c]
  PROVE  Pending(c) = 0 /\ Nesting(c) = Cardinality(Held(c))
<1>1. leaving[c] = FALSE
  BY Zenon DEF LockInv, LockTypeOK
<1>2. Pending(c) = 0
  BY <1>1 DEF Pending
<1>. QED
  BY <1>2, HeldCount DEF Nesting

(* evl_spin_lock(): the count goes up before the thread spins.             *)
LEMMA SpinKeeps ==
  ASSUME LockInv, NEW c \in CPUs, NEW l \in Locks, NEW mask \in BOOLEAN,
         evl_spin_lock(c, l, mask)
  PROVE  LockInv'
<1>. USE DEF evl_spin_lock, __evl_disable_preempt, KeepResched
<1>1. spinning[c] = {} /\ ~leaving[c] /\ l \notin Held(c)
  BY LocksAssumption DEF MayLock, Free, Held
<1>2. LockTypeOK' /\ OneHolder'
  BY DEF LockInv, LockTypeOK, OneHolder
<1>3. SpinsFree(c)'
  BY <1>1 DEF SpinsFree, Held, LockInv, LockTypeOK
<1>4. Counted(c)'
  <2>1. Held(c)' = Held(c)
    BY DEF Held
  <2>2. Nesting(c) = Cardinality(Held(c))
    BY <1>1, PendingNone
  <2>3. Pending(c)' = 1
    BY DEF Pending, LockInv, LockTypeOK
  <2>4. Nesting(c)' = Cardinality(Held(c)) + 1
    BY <2>1, <2>3 DEF Nesting
  <2>5. preempt_count'[c] = preempt_count[c] + 1
    BY DEF LockInv, LockTypeOK
  <2>. QED
    BY <2>1, <2>2, <2>4, <2>5, HeldCount DEF Counted
<1>5. ASSUME NEW e \in CPUs, e # c PROVE SpinsFree(e)' /\ Counted(e)'
  <2>1. /\ spinning'[e] = spinning[e] /\ leaving' = leaving /\ holder' = holder
        /\ preempt_count'[e] = preempt_count[e]
    BY <1>5 DEF LockInv, LockTypeOK
  <2>. QED
    BY <1>5, <2>1, OthersKeep
<1>. QED
  BY <1>2, <1>3, <1>4, <1>5 DEF LockInv

(* raw_spin_lock() turns the lock spun on into a lock held.                *)
LEMMA RawLockKeeps ==
  ASSUME LockInv, NEW c \in CPUs, NEW l \in Locks, RawLock(c, l)
  PROVE  LockInv'
<1>. USE DEF RawLock, vars
<1>1. spinning[c] = {l} /\ c \notin holder[l] /\ ~leaving[c]
  BY DEF LockInv, SpinsFree
<1>2. LockTypeOK'
  BY DEF LockInv, LockTypeOK
<1>3. OneHolder'
  BY DEF LockInv, LockTypeOK, OneHolder
<1>4. SpinsFree(c)'
  BY DEF SpinsFree, LockInv, LockTypeOK
<1>5. Counted(c)'
  <2>1. Held(c)' = Held(c) \cup {l} /\ l \notin Held(c)
    BY <1>1 DEF Held, LockInv, LockTypeOK
  <2>2. IsFiniteSet(Held(c)') /\ Cardinality(Held(c)') = Cardinality(Held(c)) + 1
    BY <2>1, HeldCount, FS_AddElement
  <2>3. Nesting(c) = Cardinality(Held(c)) + 1
    BY <1>1 DEF Nesting, Pending
  <2>4. spinning'[c] = {} /\ leaving'[c] # TRUE
    BY <1>1 DEF LockInv, LockTypeOK
  <2>5. Pending(c)' = 0
    BY <2>4 DEF Pending
  <2>6. Nesting(c)' = Cardinality(Held(c)) + 1
    BY <2>2, <2>5, HeldCount DEF Nesting
  <2>. QED
    BY <2>2, <2>3, <2>6, HeldCount DEF Counted
<1>6. ASSUME NEW e \in CPUs, e # c PROVE SpinsFree(e)' /\ Counted(e)'
  <2>1. /\ spinning'[e] = spinning[e] /\ leaving' = leaving
        /\ preempt_count' = preempt_count
        /\ \A k \in Locks : e \in holder'[k] <=> e \in holder[k]
    BY <1>6 DEF LockInv, LockTypeOK
  <2>. QED
    BY <1>6, <2>1, OthersKeep
<1>. QED
  BY <1>2, <1>3, <1>4, <1>5, <1>6 DEF LockInv

(* evl_spin_trylock() counts, whether or not it gets the lock.             *)
LEMMA TryKeeps ==
  ASSUME LockInv, NEW c \in CPUs, NEW l \in Locks, evl_spin_trylock(c, l)
  PROVE  LockInv'
<1>. USE DEF evl_spin_trylock, __evl_disable_preempt, KeepResched
<1>1. spinning[c] = {} /\ ~leaving[c]
  BY DEF MayLock, Free
<1>2. LockTypeOK'
  BY DEF LockInv, LockTypeOK
<1>3. OneHolder'
  BY DEF LockInv, LockTypeOK, OneHolder
<1>4. SpinsFree(c)'
  BY <1>1 DEF SpinsFree
<1>5. Counted(c)'
  <2>1. Held(c)' \in {Held(c), Held(c) \cup {l}}
    BY DEF Held, LockInv, LockTypeOK
  <2>2. /\ IsFiniteSet(Held(c)') /\ Cardinality(Held(c)') \in Nat
        /\ Cardinality(Held(c)') <= Cardinality(Held(c)) + 1
    <3>1. CASE Held(c)' = Held(c)
      BY <3>1, HeldCount
    <3>2. CASE Held(c)' = Held(c) \cup {l}
      <4>1. IsFiniteSet(Held(c) \cup {l})
        BY HeldCount, FS_AddElement
      <4>2. Cardinality(Held(c) \cup {l}) \in {Cardinality(Held(c)), Cardinality(Held(c)) + 1}
        BY HeldCount, FS_AddElement
      <4>. QED
        BY <3>2, <4>1, <4>2, HeldCount
    <3>. QED
      BY <2>1, <3>1, <3>2
  <2>3. Pending(c) = 0 /\ Nesting(c) = Cardinality(Held(c))
    BY <1>1, PendingNone
  <2>4. Pending(c)' = 0
    BY <2>3 DEF Pending
  <2>5. Nesting(c)' = Cardinality(Held(c)')
    BY <2>2, <2>4 DEF Nesting
  <2>6. preempt_count'[c] = preempt_count[c] + 1
    BY DEF LockInv, LockTypeOK
  <2>. QED
    BY <2>2, <2>3, <2>5, <2>6, HeldCount DEF Counted
<1>6. ASSUME NEW e \in CPUs, e # c PROVE SpinsFree(e)' /\ Counted(e)'
  <2>1. /\ spinning' = spinning /\ leaving' = leaving
        /\ preempt_count'[e] = preempt_count[e]
        /\ \A k \in Locks : e \in holder'[k] <=> e \in holder[k]
    BY <1>6 DEF LockInv, LockTypeOK
  <2>. QED
    BY <1>6, <2>1, OthersKeep
<1>. QED
  BY <1>2, <1>3, <1>4, <1>5, <1>6 DEF LockInv

(* The raw lock goes first, the count after it.                            *)
LEMMA RawUnlockKeeps ==
  ASSUME LockInv, NEW c \in CPUs, NEW l \in Locks, RawUnlock(c, l)
  PROVE  LockInv'
<1>. USE DEF RawUnlock, KeepResched
<1>1. spinning[c] = {} /\ ~leaving[c] /\ holder[l] = {c}
  BY DEF Free, Held, LockInv, OneHolder
<1>2. LockTypeOK' /\ OneHolder'
  BY DEF LockInv, LockTypeOK, OneHolder
<1>3. SpinsFree(c)'
  BY <1>1 DEF SpinsFree
<1>4. Counted(c)'
  <2>1. Held(c)' = Held(c) \ {l} /\ l \in Held(c)
    BY DEF Held, LockInv, LockTypeOK
  <2>2. IsFiniteSet(Held(c)') /\ Cardinality(Held(c)') = Cardinality(Held(c)) - 1
    BY <2>1, HeldCount, FS_RemoveElement
  <2>3. Nesting(c) = Cardinality(Held(c))
    BY <1>1, PendingNone
  <2>4. leaving'[c] = TRUE
    BY DEF LockInv, LockTypeOK
  <2>5. Pending(c)' = 1
    BY <2>4 DEF Pending
  <2>6. Nesting(c)' = Cardinality(Held(c))
    BY <2>2, <2>5, HeldCount DEF Nesting
  <2>. QED
    BY <2>2, <2>3, <2>6, HeldCount DEF Counted
<1>5. ASSUME NEW e \in CPUs, e # c PROVE SpinsFree(e)' /\ Counted(e)'
  <2>1. /\ spinning' = spinning /\ leaving'[e] = leaving[e]
        /\ preempt_count' = preempt_count
        /\ \A k \in Locks : e \in holder'[k] <=> e \in holder[k]
    BY <1>1, <1>5 DEF LockInv, LockTypeOK
  <2>. QED
    BY <1>5, <2>1, OthersKeep
<1>. QED
  BY <1>2, <1>3, <1>4, <1>5 DEF LockInv

LEMMA EnableKeeps ==
  ASSUME LockInv, NEW c \in CPUs, EnablePreempt(c)
  PROVE  LockInv'
<1>. USE DEF EnablePreempt, __evl_enable_preempt, KeepResched
<1>1. spinning[c] = {} /\ leaving[c] = TRUE
  BY DEF LockInv, LockTypeOK, SpinsFree
<1>2. LockTypeOK' /\ OneHolder'
  BY DEF LockInv, LockTypeOK, OneHolder
<1>3. SpinsFree(c)'
  BY <1>1 DEF SpinsFree
<1>4. Counted(c)'
  <2>1. Held(c)' = Held(c)
    BY DEF Held
  <2>2. Nesting(c) = Cardinality(Held(c)) + 1
    BY <1>1 DEF Nesting, Pending
  <2>3. spinning'[c] = {} /\ leaving'[c] = FALSE
    BY <1>1 DEF LockInv, LockTypeOK
  <2>4. Pending(c)' = 0
    BY <2>3 DEF Pending
  <2>5. Nesting(c)' = Cardinality(Held(c))
    BY <2>1, <2>4, HeldCount DEF Nesting
  <2>6. preempt_count'[c] = preempt_count[c] - 1
    BY DEF LockInv, LockTypeOK
  <2>. QED
    BY <2>1, <2>2, <2>5, <2>6, HeldCount DEF Counted
<1>5. ASSUME NEW e \in CPUs, e # c PROVE SpinsFree(e)' /\ Counted(e)'
  <2>1. /\ spinning' = spinning /\ leaving'[e] = leaving[e] /\ holder' = holder
        /\ preempt_count'[e] = preempt_count[e]
    BY <1>5 DEF LockInv, LockTypeOK
  <2>. QED
    BY <1>5, <2>1, OthersKeep
<1>. QED
  BY <1>2, <1>3, <1>4, <1>5 DEF LockInv

(* Neither interrupts nor the scheduler change a count or a lock, and they *)
(* replace a thread only if its count is zero.                             *)
LEMMA OtherSteps ==
  ASSUME LockInv, NEW e \in CPUs, OtherStep(e)
  PROVE  /\ UNCHANGED <<lockVars, preempt_count>>
         /\ outranked' \in [CPUs -> BOOLEAN]
         /\ \A c \in CPUs : outranked[c] /\ ~outranked'[c] => preempt_count[c] = 0
<1>. DEFINE Harmless ==
       /\ UNCHANGED preempt_count
       /\ outranked' \in [CPUs -> BOOLEAN]
       /\ \A c \in CPUs : outranked[c] /\ ~outranked'[c] => preempt_count[c] = 0
<1>. USE DEF LockInv, LockTypeOK
<1>1. ASSUME NEW back, __evl_schedule(e, back) PROVE Harmless
  BY <1>1 DEF __evl_schedule, SwitchThread, KeepThread
<1>2. ASSUME NEW d \in CPUs, NEW beats \in BOOLEAN, Readied(e, d, beats) PROVE Harmless
  BY <1>2 DEF Readied
<1>3. ASSUME UNCHANGED <<preempt_count, outranked>> PROVE Harmless
  BY <1>3
<1>4. ASSUME EnterSchedule(e) \/ ExitSchedule(e) PROVE Harmless
  BY <1>1, <1>4 DEF EnterSchedule, ExitSchedule
<1>5. ASSUME NEW d \in CPUs, Wakeup(e, d) \/ IrqWakeup(e, d) PROVE Harmless
  BY <1>2, <1>5 DEF Wakeup, IrqWakeup
<1>6. ASSUME Relinquish(e) PROVE Harmless
  BY <1>2, <1>6 DEF Relinquish
<1>7. ASSUME \/ FetchRq(e) \/ TestRq(e) \/ TakeIrq(e) \/ TakeIpi(e)
             \/ evl_exit_irq(e) \/ IrqReturn(e) \/ InbandPreempt(e)
      PROVE  UNCHANGED <<preempt_count, outranked>>
  BY <1>7 DEF FetchRq, TestRq, TakeIrq, TakeIpi, TakeInterrupt, evl_exit_irq,
              IrqReturn, InbandPreempt
<1>. HIDE DEF LockInv, LockTypeOK, Harmless
<1>8. Harmless
  BY <1>3, <1>4, <1>5, <1>6, <1>7 DEF OtherStep, RunSchedule, LeaveIrq
<1>. QED
  BY <1>8 DEF Harmless, OtherStep

LEMMA NextLockInv == LockInv /\ [NextL]_allVars => LockInv'
<1>. SUFFICES ASSUME LockInv, [NextL]_allVars PROVE LockInv'
  OBVIOUS
<1>1. ASSUME UNCHANGED <<lockVars, preempt_count>>, outranked' \in [CPUs -> BOOLEAN]
      PROVE  LockInv'
  <2>. USE <1>1 DEF lockVars
  <2>1. LockTypeOK' /\ OneHolder'
    BY DEF LockInv, LockTypeOK, OneHolder
  <2>2. ASSUME NEW c \in CPUs PROVE SpinsFree(c)' /\ Counted(c)'
    <3>1. Held(c)' = Held(c)
      BY DEF Held
    <3>. QED
      BY <3>1 DEF LockInv, SpinsFree, Counted, Nesting, Pending
  <2>. QED
    BY <2>1, <2>2 DEF LockInv
<1>2. ASSUME NEW c \in CPUs, LockStep(c) PROVE LockInv'
  BY <1>2, SpinKeeps, RawLockKeeps, TryKeeps, RawUnlockKeeps, EnableKeeps DEF LockStep
<1>3. ASSUME NEW c \in CPUs, OtherStep(c) PROVE LockInv'
  BY <1>1, <1>3, OtherSteps
<1>4. CASE UNCHANGED allVars
  BY <1>1, <1>4 DEF allVars, vars, LockInv, LockTypeOK
<1>. QED
  BY <1>2, <1>3, <1>4 DEF NextL

(* The inductive invariant of spinlocks.                                   *)
THEOREM SpinlockInvariant == SpecL => []LockInv
BY InitLockInv, NextLockInv, PTL DEF SpecL

(* On any number of CPUs, with any locks, each lock has one holder at most *)
(* and nobody spins on a lock it holds.                                    *)
THEOREM SpinlockExclusion == SpecL => []Exclusion
<1>1. LockInv => Exclusion
  <2>. SUFFICES ASSUME LockInv, NEW l \in Locks
                PROVE  /\ Cardinality(holder[l]) <= 1
                       /\ \A c \in holder[l] : l \notin spinning[c]
    BY DEF Exclusion
  <2>1. Cardinality(holder[l]) <= 1
    <3>1. Cardinality({}) = 0 /\ \A c : Cardinality({c}) = 1
      BY FS_EmptySet, FS_Singleton
    <3>2. holder[l] = {} \/ \E c : holder[l] = {c}
      BY DEF LockInv, OneHolder
    <3>3. Cardinality(holder[l]) \in {0, 1}
      BY <3>1, <3>2, Zenon
    <3>. QED
      BY <3>3
  <2>. QED
    BY <2>1 DEF LockInv, LockTypeOK, SpinsFree
<1>. QED
  BY <1>1, SpinlockInvariant, PTL

(* The holder of a lock is not replaced on its CPU, whatever interrupts    *)
(* and wakeups take place under the lock.                                  *)
THEOREM SpinlockHolderKept == SpecL => HolderKeepsCpu
<1>. DEFINE Keeps == \A c \in CPUs : outranked[c] /\ ~outranked'[c] => Held(c) = {}
<1>1. ASSUME LockInv, NextL PROVE Keeps
  <2>1. ASSUME NEW e \in CPUs, LockStep(e) PROVE outranked' = outranked
    BY <2>1 DEF LockStep, evl_spin_lock, RawLock, evl_spin_trylock, RawUnlock,
                EnablePreempt, KeepResched, vars
  <2>2. ASSUME NEW c \in CPUs, preempt_count[c] = 0 PROVE Held(c) = {}
    <3>1. Pending(c) \in {0, 1}
      BY DEF Pending
    <3>. QED
      BY <1>1, <2>2, <3>1, HeldCount DEF Nesting
  <2>. QED
    BY <1>1, <2>1, <2>2, OtherSteps DEF NextL
<1>2. LockInv /\ [NextL]_allVars => [Keeps]_allVars
  BY <1>1
<1>. QED
  BY <1>2, SpinlockInvariant, PTL DEF SpecL, HolderKeepsCpu
==============================================================================
