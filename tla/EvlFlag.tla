-------------------------------- MODULE EvlFlag --------------------------------
(***************************************************************************)
(* EVL flags (evl/flag.h) on evl_wait_event_timeout() (evl/wait.h).        *)
(*                                                                         *)
(* What runs under wchan.lock is one action.  A thread that waits queues   *)
(* itself under the lock, sleeps without it, and takes it again to look at *)
(* the condition: it is off the queue in between, and raises, broadcasts,  *)
(* clears and other threads may get in.  The sleep and the wakeup          *)
(* (evl_add_wait_queue(), __evl_wait_schedule(), evl_flush_wait_locked())  *)
(* belong to the core and are external to this tree.                       *)
(***************************************************************************)
EXTENDS Naturals

CONSTANTS Threads    \* those which wait for the flag

VARIABLES
  raised,     \* wf->raised
  wait_list,  \* the threads queued to wf->wait
  woken,      \* off the queue, wchan.lock not taken again yet
  info,       \* why a thread was woken up: bits of thread->info
  timeout,    \* the timeout argument of each call
  ret         \* what the last call of a thread returned, "none" during one

flagVars == <<raised, wait_list, woken, info, timeout, ret>>

Timeouts == {"EVL_NONBLOCK", "finite", "EVL_INFINITE"}

\* Reasons given by whoever wakes a thread; "none" when it is 0.
FlushReasons == {"none", "EVL_T_BCAST", "EVL_T_RMID"}
Reasons      == FlushReasons \cup {"EVL_T_TIMEO", "EVL_T_BREAK"}

\* __evl_wait_schedule(): the error which goes with the information bit.
Errors == [EVL_T_RMID  |-> "EIDRM",
           EVL_T_TIMEO |-> "ETIMEDOUT",
           EVL_T_BREAK |-> "EINTR"]

Returns == {"none", "ok", "bcast", "EAGAIN", "EIDRM", "ETIMEDOUT", "EINTR"}

Calling == wait_list \cup woken

Init ==
  /\ raised = FALSE
  /\ wait_list = {}
  /\ woken = {}
  /\ info = [t \in Threads |-> "none"]
  /\ timeout \in [Threads -> Timeouts]
  /\ ret = [t \in Threads |-> "none"]

------------------------------------------------------------------------------
\* Mutant of evl_read_flag(): the flag is not reset.
evl_read_flag_Keep == raised /\ UNCHANGED raised

\* evl_read_flag(), the condition of the wait: it takes the flag.
evl_read_flag == raised /\ raised' = FALSE

\* evl_add_wait_queue(): the information bits start afresh.
evl_add_wait_queue(t) ==
  /\ wait_list' = wait_list \cup {t}
  /\ info' = [info EXCEPT ![t] = "none"]

Return(t, value) == ret' = [ret EXCEPT ![t] = value]

\* evl_wait_flag_timeout() up to its first sleep, or to its end.
evl_wait_flag_timeout(t) ==
  /\ t \notin Calling
  /\ \/ /\ evl_read_flag
        /\ Return(t, "ok")
        /\ UNCHANGED <<wait_list, info>>
     \/ /\ ~raised
        /\ timeout[t] = "EVL_NONBLOCK"
        /\ Return(t, "EAGAIN")
        /\ UNCHANGED <<raised, wait_list, info>>
     \/ /\ ~raised
        /\ timeout[t] # "EVL_NONBLOCK"
        /\ evl_add_wait_queue(t)
        /\ Return(t, "none")
        /\ UNCHANGED raised
  /\ UNCHANGED <<woken, timeout>>

\* Mutant of Recheck: an error does not end the wait if the flag is up.
Recheck_FlagLast(t) ==
  /\ t \in woken
  /\ woken' = woken \ {t}
  /\ \/ /\ raised
        /\ Return(t, "ok")
        /\ UNCHANGED <<raised, wait_list, info>>
     \/ /\ ~raised
        /\ evl_add_wait_queue(t)
        /\ UNCHANGED <<raised, ret>>
  /\ UNCHANGED timeout

(***************************************************************************)
(* The loop of evl_wait_event_timeout() once the sleep is over: an error   *)
(* or a broadcast ends the wait without looking at the flag, otherwise the *)
(* thread takes the flag or sleeps again, for its whole timeout.           *)
(***************************************************************************)
Recheck(t) ==
  /\ t \in woken
  /\ woken' = woken \ {t}
  /\ \/ /\ info[t] \in DOMAIN Errors
        /\ Return(t, Errors[info[t]])
        /\ UNCHANGED <<raised, wait_list, info>>
     \/ /\ info[t] = "EVL_T_BCAST"
        /\ Return(t, "bcast")
        /\ UNCHANGED <<raised, wait_list, info>>
     \/ /\ info[t] = "none"
        /\ evl_read_flag
        /\ Return(t, "ok")
        /\ UNCHANGED <<wait_list, info>>
     \/ /\ info[t] = "none"
        /\ ~raised
        /\ evl_add_wait_queue(t)
        /\ UNCHANGED <<raised, ret>>
  /\ UNCHANGED timeout

------------------------------------------------------------------------------
\* Sleepers leave the queue for a reason (external).
WakeUp(who, reason) ==
  /\ wait_list' = wait_list \ who
  /\ woken' = woken \cup who
  /\ info' = [t \in Threads |-> IF t \in who THEN reason ELSE info[t]]

evl_flush_wait_locked(reason) == WakeUp(wait_list, reason)

\* Mutant of evl_raise_flag(): the sleepers are not woken up.
evl_raise_flag_Silent ==
  /\ raised' = TRUE
  /\ UNCHANGED <<wait_list, woken, info, timeout, ret>>

\* evl_raise_flag_locked(), from a thread or an interrupt handler.
evl_raise_flag ==
  /\ raised' = TRUE
  /\ evl_flush_wait_locked("none")
  /\ UNCHANGED <<timeout, ret>>

\* evl_flush_flag(), evl_pulse_flag() (EVL_T_BCAST), evl_destroy_flag().
evl_flush_flag(reason) ==
  /\ evl_flush_wait_locked(reason)
  /\ UNCHANGED <<raised, timeout, ret>>

evl_clear_flag ==
  /\ raised' = FALSE
  /\ UNCHANGED <<wait_list, woken, info, timeout, ret>>

\* The timer of a sleeper fires.
TimeOut(t) ==
  /\ t \in wait_list
  /\ timeout[t] = "finite"
  /\ WakeUp({t}, "EVL_T_TIMEO")
  /\ UNCHANGED <<raised, timeout, ret>>

\* A sleeper is forced out of its wait (evl_unblock_thread(), signals).
Unblock(t) ==
  /\ t \in wait_list
  /\ WakeUp({t}, "EVL_T_BREAK")
  /\ UNCHANGED <<raised, timeout, ret>>

Next ==
  \/ \E t \in Threads :
        evl_wait_flag_timeout(t) \/ Recheck(t) \/ TimeOut(t) \/ Unblock(t)
  \/ evl_raise_flag
  \/ \E reason \in FlushReasons \ {"none"} : evl_flush_flag(reason)
  \/ evl_clear_flag

\* A thread that was woken up runs; timers fire.  Nobody has to raise.
Fairness == \A t \in Threads : WF_flagVars(Recheck(t)) /\ WF_flagVars(TimeOut(t))

Spec == Init /\ [][Next]_flagVars /\ Fairness

------------------------------------------------------------------------------
(* Type invariant; a thread is not both asleep and awake. *)
TypeOK ==
  /\ raised \in BOOLEAN
  /\ wait_list \subseteq Threads
  /\ woken \subseteq Threads \ wait_list
  /\ info \in [Threads -> Reasons]
  /\ timeout \in [Threads -> Timeouts]
  /\ ret \in [Threads -> Returns]

(* No thread sleeps on a raised flag: a raise cannot slip between the test *)
(* of the condition and the sleep, nor between a wakeup and the next sleep *)
(* of the loop in evl_wait_event_timeout().                                *)
NoSleepOnRaised == raised => wait_list = {}

(* A wait ends with the error its wakeup stands for: a thread that did not *)
(* ask for a timeout never gets ETIMEDOUT, a non-blocking call never       *)
(* sleeps, and a call in progress was not refused a sleep.                 *)
TimeoutsRespected ==
  \A t \in Threads :
    /\ timeout[t] = "EVL_INFINITE" => ret[t] \notin {"ETIMEDOUT", "EAGAIN"}
    /\ timeout[t] = "EVL_NONBLOCK" => t \notin Calling

(* A bounded wait ends unless the flag is raised meanwhile: every wakeup   *)
(* that finds the flag taken by another thread restarts the timeout, so    *)
(* that "finite" bounds each sleep, not the call.                          *)
BoundedWaitEnds ==
  \A t \in Threads :
    t \in Calling /\ timeout[t] = "finite" ~> t \notin Calling \/ raised

Promise ==
  INSTANCE FlagPromise WITH waiting <- Calling,
                            served <- {t \in Threads : ret[t] = "ok"}

(* The flag keeps its promise: no raise is lost or taken twice, a wait     *)
(* which ends with neither an error nor a broadcast took the flag, a raise *)
(* for which threads wait is taken.                                        *)
KeepsPromise == Promise!Spec
==============================================================================
