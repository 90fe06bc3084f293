------------------------------ MODULE EvlTimer ------------------------------
(***************************************************************************)
(* Timers of the monotonic clock (evl/timer.h, clock.h, tick.h), with one  *)
(* base per CPU.                                                           *)
(*                                                                         *)
(* What runs under the lock of a base is one action, which only that lock  *)
(* makes atomic.  A thread reads the status or the runqueue of a timer     *)
(* without it, and stops or moves the timer after that; the tick handler   *)
(* drops it around the handler of each timer.  scalable is                 *)
(* CONFIG_EVL_TIMER_SCALABLE: a tree with a cache of its first node,       *)
(* instead of a sorted list.                                               *)
(***************************************************************************)
EXTENDS Integers, SequencesExt

CONSTANTS
  Timers, Cpus,
  InbandTimers,  \* the one-shot in-band ticks, which do not change CPUs
  InitRq,        \* the runqueue each timer is initialised on
  InitFlags,     \* its gravity bits
  Gravity,       \* of the clock, for each kind
  Intervals,     \* of the timers started, 0 for the one-shot ones
  Clients,         \* pairs of a CPU and a timer the thread on it deals with
  MaxDate        \* bound on the clock

None == "none"

ASSUME TimerAssumption ==
  /\ None \notin Timers
  /\ MaxDate \in Nat
  /\ Intervals \subseteq Nat
  /\ Clients \subseteq Cpus \X Timers
  /\ InbandTimers \subseteq Timers
  /\ InitRq \in [Timers -> Cpus]
  /\ InitFlags \in [Timers -> SUBSET {"KGRAVITY", "UGRAVITY"}]
  /\ Gravity \in [{"irq", "kernel", "user"} -> Nat]

VARIABLES
  now,
  scalable,
  base,            \* the queue of timers of each CPU
  status, rq,
  date,            \* evl_tdate()
  interval, start_date, periodic_ticks,
  op,              \* what the thread on each CPU is about to do to a timer
  firing,          \* the timer whose handler runs on each CPU
  rq_flags,        \* RQ_TIMER, RQ_TPROXY and RQ_IDLE of each CPU
  shot,            \* the date the clock device of each CPU is set to
  timer_ipi,       \* is a timer IPI on its way to the CPU?
  inband_tick      \* in-band ticks that are due, not passed on yet

setting == <<interval, start_date, periodic_ticks>>
device == <<rq_flags, shot, timer_ipi>>
timerVars == <<now, scalable, base, status, rq, date, setting, op, firing,
               device, inband_tick>>

Infinite == 2 * MaxDate + 1

-----------------------------------------------------------------------------
(***************************************************************************)
(* The queue: its nodes in order, and the first one as the tree caches it. *)
(***************************************************************************)
evl_init_tqueue == [q |-> << >>, head |-> None]

evl_get_tqueue_head(tq) ==
  IF scalable THEN tq.head ELSE IF tq.q = << >> THEN None ELSE Head(tq.q)

evl_tqueue_is_empty(tq) == evl_get_tqueue_head(tq) = None

evl_get_tqueue_next(tq, t) ==
  IF Last(tq.q) = t THEN None ELSE tq.q[1 + CHOOSE n \in DOMAIN tq.q : tq.q[n] = t]

\* Mutant of evl_remove_tnode(): the cache is left alone.
evl_remove_tnode_StaleHead(tq, t) ==
  [tq EXCEPT !.q = RemoveFirst(@, t)]

evl_remove_tnode(tq, t) ==
  [q |-> RemoveFirst(tq.q, t),
   head |-> IF t = tq.head THEN evl_get_tqueue_next(tq, t) ELSE tq.head]

\* After the last node that is not later, d being the dates.
evl_insert_tnode(tq, t, d) ==
  LET n == Max({0} \cup {k \in DOMAIN tq.q : d[tq.q[k]] <= d[t]})
  IN [q |-> InsertAt(tq.q, n + 1, t), head |-> IF n = 0 THEN t ELSE tq.head]

evl_dequeue_timer(t, tq) == evl_remove_tnode(tq, t)
evl_enqueue_timer(t, tq, d) == evl_insert_tnode(tq, t, d)

Queued(t) == "DEQUEUED" \notin status[t]
evl_timer_is_running(t) == "RUNNING" \in status[t]
evl_timer_is_periodic(t) == "PERIODIC" \in status[t]

evl_get_timer_gravity(t) ==
  IF "KGRAVITY" \in status[t] THEN Gravity.kernel
  ELSE IF "UGRAVITY" \in status[t] THEN Gravity.user
  ELSE Gravity.irq

\* evl_update_timer_date(), after so many ticks.
TickDate(t, ticks) ==
  start_date[t] + ticks * interval[t] - evl_get_timer_gravity(t)

\* The ideal date, without anticipation.
evl_get_timer_expiry(t) == date[t] + evl_get_timer_gravity(t)

evl_timer_on_rq(t, c) == rq[t] = c

TimerInit ==
  /\ now = 0
  /\ scalable \in BOOLEAN
  /\ base = [c \in Cpus |-> evl_init_tqueue]
  /\ status = [t \in Timers |-> {"DEQUEUED"} \cup InitFlags[t]]
  /\ rq = InitRq
  /\ date = [t \in Timers |-> 0]
  /\ interval = [t \in Timers |-> 0]
  /\ start_date = [t \in Timers |-> 0]
  /\ periodic_ticks = [t \in Timers |-> 0]
  /\ op = [c \in Cpus |-> {}]
  /\ firing = [c \in Cpus |-> None]
  /\ rq_flags = [c \in Cpus |-> {"RQ_IDLE"}]
  /\ shot = [c \in Cpus |-> Infinite]
  /\ timer_ipi = [c \in Cpus |-> FALSE]
  /\ inband_tick = [c \in Cpus |-> FALSE]

-----------------------------------------------------------------------------
(***************************************************************************)
(* The clock device.  In the tick handler it is programmed on the way out; *)
(* a CPU without a timer is idle.                                          *)
(***************************************************************************)
evl_program_local_tick(c, flags, tq, d) ==
  IF "RQ_TIMER" \in flags
  THEN rq_flags' = [rq_flags EXCEPT ![c] = flags] /\ UNCHANGED shot
  ELSE /\ rq_flags' = [rq_flags EXCEPT ![c] =
                         IF evl_tqueue_is_empty(tq) THEN flags \cup {"RQ_IDLE"}
                         ELSE flags \ {"RQ_IDLE"}]
       /\ shot' = [shot EXCEPT ![c] = IF evl_tqueue_is_empty(tq) THEN @
                                      ELSE d[evl_get_tqueue_head(tq)]]

\* Mutant of evl_program_remote_tick(): the clock has no such operation.
evl_program_remote_tick_None(c) == UNCHANGED <<rq_flags, shot, timer_ipi>>

evl_program_remote_tick(c) ==
  /\ timer_ipi' = [timer_ipi EXCEPT ![c] = TRUE]
  /\ UNCHANGED <<rq_flags, shot>>

\* From CPU c, the device of the CPU of a timer that became the first one.
ProgramShot(c, cpu, t, tq, d) ==
  IF evl_get_tqueue_head(tq) # t THEN UNCHANGED device
  ELSE IF cpu = c
  THEN evl_program_local_tick(c, rq_flags[c], tq, d) /\ UNCHANGED timer_ipi
  ELSE evl_program_remote_tick(cpu)

-----------------------------------------------------------------------------
\* The thread on c starts a timer, dates being those of the clock.
evl_start_timer(c, t, value, ival) ==
  /\ op[c] = {}
  /\ LET was == base[rq[t]]
         d == [date EXCEPT ![t] = value - evl_get_timer_gravity(t)]
         tq == evl_enqueue_timer(t, IF Queued(t) THEN evl_dequeue_timer(t, was)
                                    ELSE was, d)
     IN /\ date' = d
        /\ base' = [base EXCEPT ![rq[t]] = tq]
        /\ ProgramShot(c, rq[t], t, tq, d)
  /\ status' = [status EXCEPT ![t] =
                  (@ \ {"FIRED", "PERIODIC", "DEQUEUED"}) \cup {"RUNNING"}
                     \cup (IF ival # 0 THEN {"PERIODIC"} ELSE {})]
  /\ interval' = [interval EXCEPT ![t] = ival]
  /\ start_date' = [start_date EXCEPT ![t] = value]
  /\ periodic_ticks' = [periodic_ticks EXCEPT ![t] = 0]
  /\ UNCHANGED <<now, scalable, rq, op, firing, inband_tick>>

\* The test of evl_stop_timer(), without the lock.
evl_stop_timer(c, t) ==
  /\ op[c] = {}
  /\ evl_timer_is_running(t)
  /\ op' = [op EXCEPT ![c] = {<<"stop", t>>}]
  /\ UNCHANGED <<now, scalable, base, status, rq, date, setting, firing,
                 device, inband_tick>>

\* The device of another CPU is left to tick.
__evl_stop_timer(c, t) ==
  /\ <<"stop", t>> \in op[c]
  /\ op' = [op EXCEPT ![c] = {}]
  /\ IF Queued(t)
     THEN LET tq == evl_dequeue_timer(t, base[rq[t]])
          IN /\ base' = [base EXCEPT ![rq[t]] = tq]
             /\ IF rq[t] = c /\ evl_get_tqueue_head(base[c]) = t
                THEN /\ evl_program_local_tick(c, rq_flags[c], tq, date)
                     /\ UNCHANGED timer_ipi
                ELSE UNCHANGED device
     ELSE UNCHANGED <<base, device>>
  /\ status' = [status EXCEPT ![t] = (@ \ {"FIRED", "RUNNING"}) \cup {"DEQUEUED"}]
  /\ UNCHANGED <<now, scalable, rq, date, setting, firing, inband_tick>>

\* The test of evl_prepare_timed_wait(), without the lock.
evl_prepare_timed_wait(c, t, cpu) ==
  /\ op[c] = {}
  /\ cpu # rq[t]
  /\ op' = [op EXCEPT ![c] = {<<"move", t, cpu>>}]
  /\ UNCHANGED <<now, scalable, base, status, rq, date, setting, firing,
                 device, inband_tick>>

\* A timer in no queue is only given its new runqueue.
evl_move_timer(c, t, cpu) ==
  /\ <<"move", t, cpu>> \in op[c]
  /\ op' = [op EXCEPT ![c] = {}]
  /\ LET tq == evl_enqueue_timer(t, base[cpu], date)
     IN /\ rq' = [rq EXCEPT ![t] = cpu]
        /\ IF Queued(t) /\ rq[t] # cpu
           THEN /\ base' = [base EXCEPT ![cpu] = tq,
                                        ![rq[t]] = evl_dequeue_timer(t, @)]
                /\ ProgramShot(c, cpu, t, tq, date)
           ELSE UNCHANGED <<base, device>>
  /\ UNCHANGED <<now, scalable, status, date, setting, firing, inband_tick>>

-----------------------------------------------------------------------------
Ticking(c) == "RQ_TIMER" \in rq_flags[c]

\* The clock device of c fires.
evl_core_tick(c) ==
  /\ ~Ticking(c)
  /\ shot[c] <= now
  /\ shot' = [shot EXCEPT ![c] = Infinite]
  /\ rq_flags' = [rq_flags EXCEPT ![c] = @ \cup {"RQ_TIMER"}]
  /\ UNCHANGED <<now, scalable, base, status, rq, date, setting, op, firing,
                 timer_ipi, inband_tick>>

\* A timer IPI programs the device of the CPU it reaches.
TimerIpi(c) ==
  /\ timer_ipi[c]
  /\ ~Ticking(c)
  /\ evl_program_local_tick(c, rq_flags[c], base[c], date)
  /\ timer_ipi' = [timer_ipi EXCEPT ![c] = FALSE]
  /\ UNCHANGED <<now, scalable, base, status, rq, date, setting, op, firing,
                 inband_tick>>

\* Is the first timer of c due?
Due(c) ==
  /\ ~evl_tqueue_is_empty(base[c])
  /\ date[evl_get_tqueue_head(base[c])] <= now

\* The first timer leaves the queue, its handler is about to run.
Expire(c) ==
  /\ Ticking(c) /\ firing[c] = None
  /\ Due(c)
  /\ LET t == evl_get_tqueue_head(base[c])
     IN /\ base' = [base EXCEPT ![c] = evl_dequeue_timer(t, @)]
        /\ status' = [status EXCEPT ![t] = @ \cup {"DEQUEUED", "FIRED"}]
        /\ firing' = [firing EXCEPT ![c] = t]
        /\ IF t \in InbandTimers
           THEN /\ rq_flags' = [rq_flags EXCEPT ![c] = @ \cup {"RQ_TPROXY"}]
                /\ inband_tick' = [inband_tick EXCEPT ![c] = TRUE]
           ELSE UNCHANGED <<rq_flags, inband_tick>>
  /\ UNCHANGED <<now, scalable, rq, date, setting, op, shot, timer_ipi>>

\* A periodic timer neither started again nor stopped by now.
NeedsEnqueuing(t) ==
  ~Queued(t) /\ evl_timer_is_periodic(t) /\ evl_timer_is_running(t)

\* The first tick of its grid after the last one that is not over.
NextTick(t) ==
  LET last == periodic_ticks[t] + MaxDate + evl_get_timer_gravity(t) + 1
  IN CHOOSE n \in periodic_ticks[t] + 1 .. last :
       /\ TickDate(t, n) >= now
       /\ \A m \in periodic_ticks[t] + 1 .. n - 1 : TickDate(t, m) < now

(***************************************************************************)
(* The handler returned, and the base is locked again.  A periodic timer   *)
(* goes back to the queue of the runqueue it is on by now, for the first   *)
(* tick of its grid that is not over.                                      *)
(***************************************************************************)
HandlerDone(c) ==
  /\ firing[c] # None
  /\ LET t == firing[c]
         ticks == NextTick(t)
         d == [date EXCEPT ![t] = TickDate(t, ticks)]
         tq == evl_enqueue_timer(t, base[rq[t]], d)
     IN IF NeedsEnqueuing(t)
        THEN /\ periodic_ticks' = [periodic_ticks EXCEPT ![t] = ticks]
             /\ date' = d
             /\ base' = [base EXCEPT ![rq[t]] = tq]
             /\ status' = [status EXCEPT ![t] = @ \ {"DEQUEUED"}]
             /\ IF evl_timer_on_rq(t, c) THEN UNCHANGED device
                ELSE ProgramShot(c, rq[t], t, tq, d)
        ELSE UNCHANGED <<periodic_ticks, date, base, status, device>>
  /\ firing' = [firing EXCEPT ![c] = None]
  /\ UNCHANGED <<now, scalable, rq, interval, start_date, op, inband_tick>>

\* Mutant of evl_notify_proxy_tick(): only the flag is cleared.
evl_notify_proxy_tick_Silent(c) == UNCHANGED inband_tick

\* Pass a tick on to the in-band kernel.
evl_notify_proxy_tick(c) == inband_tick' = [inband_tick EXCEPT ![c] = FALSE]

\* Nothing is due any more: the tick handler sets the device and returns.
TickDone(c) ==
  /\ Ticking(c) /\ firing[c] = None
  /\ ~Due(c)
  /\ evl_program_local_tick(c, rq_flags[c] \ {"RQ_TIMER", "RQ_TPROXY"}, base[c], date)
  /\ IF "RQ_TPROXY" \in rq_flags[c] THEN evl_notify_proxy_tick(c)
     ELSE UNCHANGED inband_tick
  /\ UNCHANGED <<now, scalable, base, status, rq, date, setting, op, firing,
                 timer_ipi>>

Elapse ==
  /\ now < MaxDate
  /\ now' = now + 1
  /\ UNCHANGED <<scalable, base, status, rq, date, setting, op, firing, device,
                 inband_tick>>

Tick(c) ==
  evl_core_tick(c) \/ TimerIpi(c) \/ Expire(c) \/ HandlerDone(c) \/ TickDone(c)

ThreadOp(c, t) ==
  \/ \E value \in now .. MaxDate, ival \in IF t \in InbandTimers THEN {0} ELSE Intervals :
       evl_start_timer(c, t, value, ival)
  \/ evl_stop_timer(c, t) \/ __evl_stop_timer(c, t)
  \/ \E cpu \in Cpus :
       \/ t \notin InbandTimers /\ evl_prepare_timed_wait(c, t, cpu)
       \/ evl_move_timer(c, t, cpu)

TimerNext ==
  \/ \E c \in Cpus : Tick(c)
  \/ \E u \in Clients : ThreadOp(u[1], u[2])
  \/ Elapse

TimerSpec == TimerInit /\ [][TimerNext]_timerVars

-----------------------------------------------------------------------------
Fires(t) == \E c \in Cpus : firing[c] = t

\* A queue of these timers, by date, with the right first one in its cache.
InOrder(tq, timers, d) ==
  LET q == tq.q IN
  /\ {q[n] : n \in DOMAIN q} = timers
  /\ \A m, n \in DOMAIN q : m < n => q[m] # q[n] /\ d[q[m]] <= d[q[n]]
  /\ scalable => tq.head = IF q = << >> THEN None ELSE Head(q)

QueuedOn(c) == {t \in Timers : Queued(t) /\ rq[t] = c}

(***************************************************************************)
(* A timer is in the queue of the runqueue it is on, or in none if it is   *)
(* dequeued; and a timer that runs is queued, being fired, or a one-shot   *)
(* one that fired: whoever starts, stops and moves it while it fires.      *)
(***************************************************************************)
TimersAccountedFor ==
  /\ \A c \in Cpus : InOrder(base[c], QueuedOn(c), date)
  /\ \A t \in Timers :
       /\ Queued(t) => evl_timer_is_running(t)
       /\ evl_timer_is_running(t) =>
            \/ Queued(t) \/ Fires(t)
            \/ "FIRED" \in status[t] /\ ~evl_timer_is_periodic(t)

(***************************************************************************)
(* The device of a CPU out of the tick handler is set no later than its    *)
(* first timer, and the CPU is not taken for idle, unless a timer IPI is   *)
(* about to see to it.                                                     *)
(***************************************************************************)
NoLateShot ==
  \A c \in Cpus :
    ~evl_tqueue_is_empty(base[c]) /\ ~Ticking(c) /\ ~timer_ipi[c] =>
      /\ shot[c] <= date[evl_get_tqueue_head(base[c])]
      /\ "RQ_IDLE" \notin rq_flags[c]

(***************************************************************************)
(* A queued timer keeps to its grid: it expires, gravity aside, a whole    *)
(* number of intervals after the date it was started for, however late the *)
(* ticks before came; and out of the tick handler every in-band tick was   *)
(* passed on.                                                              *)
(***************************************************************************)
TicksOnGrid ==
  /\ \A t \in Timers : Queued(t) =>
       evl_get_timer_expiry(t) = start_date[t] + periodic_ticks[t] * interval[t]
  /\ \A c \in Cpus : ~Ticking(c) => ~inband_tick[c]
=============================================================================
