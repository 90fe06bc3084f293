----------------------------- MODULE EvlThread -----------------------------
(***************************************************************************)
(* The locks of threads (evl/thread.h, evl/sched.h): pinning a thread,     *)
(* locking two, and the requeuing in a wait channel that is put off until  *)
(* the thread is unpinned.                                                 *)
(*                                                                         *)
(* Each CPU runs one operation at a time with interrupts off: it takes the *)
(* locks of the operation one by one, does its work and drops them.        *)
(* A thread is its address, a number.  Changing a priority, migrating,     *)
(* waiting on a channel and waking up are in the .c files of the core.     *)
(***************************************************************************)
EXTENDS Integers, Sequences, FiniteSets

CONSTANTS
  Agents,      \* the CPUs
  Addresses,   \* the threads
  Rqs, Wchans,
  Weights      \* weighted priorities

ASSUME ThreadAssumption ==
  IsFiniteSet(Agents) /\ Addresses \subseteq Nat /\ Weights \subseteq Nat

VARIABLES
  thread_rq, \* of each thread
  wprio,
  wchan,     \* the channel the thread pends on
  info,      \* EVL_T_WCHAN
  order,     \* the priority each waiter was last queued with
  agent      \* the operation each CPU is in

threadData == <<thread_rq, wprio, wchan, info, order>>
threadVars == <<threadData, agent>>

NoWchan == "none"
Thread(t) == <<"thread", t>>
Rq(r) == <<"rq", r>>
Wchan(w) == <<"wchan", w>>

\* The threads and the channel it is about, and the locks held so far.
Op(name, threads, w) ==
  [op |-> name, threads |-> threads, wchan |-> w, held |-> << >>]
NoOp == Op("none", << >>, NoWchan)

ThreadInit ==
  /\ thread_rq \in [Addresses -> Rqs]
  /\ wprio \in [Addresses -> Weights]
  /\ wchan = [t \in Addresses |-> NoWchan]
  /\ info = [t \in Addresses |-> {}]
  /\ order = wprio
  /\ agent = [c \in Agents |-> NoOp]

-----------------------------------------------------------------------------
\* Mutant of evl_double_thread_lock(): the arguments are locked as they come.
evl_double_thread_lock_AsGiven(t1, t2) == <<Thread(t1), Thread(t2)>>

evl_double_thread_lock(t1, t2) ==
  IF t1 < t2 THEN <<Thread(t1), Thread(t2)>> ELSE <<Thread(t2), Thread(t1)>>

\* The runqueue is read with the thread locked, so that it stays its one.
evl_get_thread_rq(t) == <<Thread(t), Rq(thread_rq[t])>>

\* The locks of an operation, in order.
Locks(a) ==
  CASE a.op = "pin" -> evl_get_thread_rq(a.threads[1])
    [] a.op = "double" -> evl_double_thread_lock(a.threads[1], a.threads[2])
    [] a.op = "look" -> <<Thread(a.threads[1])>>
    [] a.op = "requeue" -> <<Wchan(a.wchan), Thread(a.threads[1])>>
    [] a.op \in {"wait", "wake"} -> <<Wchan(a.wchan)>> \o evl_get_thread_rq(a.threads[1])
    [] OTHER -> a.held

Spins(c) == Len(agent[c].held) < Len(Locks(agent[c]))
NextLock(c) == Locks(agent[c])[Len(agent[c].held) + 1]
Holds(c, l) == \E n \in DOMAIN agent[c].held : agent[c].held[n] = l

Acquire(c) ==
  /\ Spins(c)
  /\ \A b \in Agents : ~Holds(b, NextLock(c))
  /\ agent' = [agent EXCEPT ![c].held = Append(@, NextLock(c))]
  /\ UNCHANGED threadData

\* The CPU has the locks of this operation, and goes on with another.
Does(c, name) == agent[c].op = name /\ ~Spins(c)
Goes(c, op) == agent' = [agent EXCEPT ![c] = op]
Subject(c) == agent[c].threads[1]

Begin(c) ==
  /\ Does(c, "none")
  /\ \/ \E t \in Addresses : Goes(c, Op("pin", <<t>>, NoWchan))
     \/ \E t, u \in Addresses : t # u /\ Goes(c, Op("double", <<t, u>>, NoWchan))
     \/ \E t \in Addresses, w \in Wchans, name \in {"wait", "wake"} :
          Goes(c, Op(name, <<t>>, w))
  /\ UNCHANGED threadData

\* What is done with a pinned thread, besides nothing.  A waiter is to be
\* requeued when its priority changes.
SetPriority(t, p) ==
  /\ wprio' = [wprio EXCEPT ![t] = p]
  /\ info' = [info EXCEPT ![t] = IF wchan[t] = NoWchan THEN @
                                 ELSE @ \cup {"EVL_T_WCHAN"}]
  /\ UNCHANGED <<thread_rq, wchan, order>>

MigrateThread(t, r) ==
  /\ thread_rq' = [thread_rq EXCEPT ![t] = r]
  /\ UNCHANGED <<wprio, wchan, info, order>>

Pinned(c) ==
  /\ Does(c, "pin")
  /\ Goes(c, [agent[c] EXCEPT !.op = "unpin"])
  /\ \/ \E p \in Weights : SetPriority(Subject(c), p)
     \/ \E r \in Rqs : MigrateThread(Subject(c), r)

\* Mutant of evl_put_thread_rq_check(): the flag is dropped.
evl_put_thread_rq_check_NoRequeue(c) ==
  /\ Does(c, "unpin")
  /\ info' = [info EXCEPT ![Subject(c)] = @ \ {"EVL_T_WCHAN"}]
  /\ Goes(c, NoOp)
  /\ UNCHANGED <<thread_rq, wprio, wchan, order>>

\* The flag is taken with the thread pinned; the requeuing comes after that.
evl_put_thread_rq_check(c) ==
  /\ Does(c, "unpin")
  /\ info' = [info EXCEPT ![Subject(c)] = @ \ {"EVL_T_WCHAN"}]
  /\ Goes(c, IF "EVL_T_WCHAN" \in info[Subject(c)]
             THEN Op("look", <<Subject(c)>>, NoWchan) ELSE NoOp)
  /\ UNCHANGED <<thread_rq, wprio, wchan, order>>

(***************************************************************************)
(* evl_adjust_wait_priority(): the channel is read under the lock of the   *)
(* thread, which nests in the lock of the channel.  So the first is        *)
(* dropped, the second taken, and the channel may be another one by then.  *)
(***************************************************************************)
LookUpWchan(c) ==
  /\ Does(c, "look")
  /\ LET w == wchan[Subject(c)]
     IN Goes(c, IF w = NoWchan THEN NoOp ELSE Op("requeue", <<Subject(c)>>, w))
  /\ UNCHANGED threadData

evl_adjust_wait_priority(c) ==
  /\ Does(c, "requeue")
  /\ LET t == Subject(c)
         still == wchan[t] = agent[c].wchan
     IN /\ order' = IF still THEN [order EXCEPT ![t] = wprio[t]] ELSE order
        /\ Goes(c, IF still THEN NoOp ELSE Op("look", <<t>>, NoWchan))
  /\ UNCHANGED <<thread_rq, wprio, wchan, info>>

evl_double_thread_unlock(c) ==
  /\ Does(c, "double")
  /\ Goes(c, NoOp)
  /\ UNCHANGED threadData

Wait(c) ==
  /\ Does(c, "wait")
  /\ IF wchan[Subject(c)] = NoWchan
     THEN /\ wchan' = [wchan EXCEPT ![Subject(c)] = agent[c].wchan]
          /\ order' = [order EXCEPT ![Subject(c)] = wprio[Subject(c)]]
     ELSE UNCHANGED <<wchan, order>>
  /\ Goes(c, NoOp)
  /\ UNCHANGED <<thread_rq, wprio, info>>

WakeUp(c) ==
  /\ Does(c, "wake")
  /\ wchan' = [wchan EXCEPT ![Subject(c)] =
                 IF @ = agent[c].wchan THEN NoWchan ELSE @]
  /\ Goes(c, NoOp)
  /\ UNCHANGED <<thread_rq, wprio, info, order>>

ThreadNext ==
  \E c \in Agents :
    \/ Begin(c) \/ Acquire(c)
    \/ Pinned(c) \/ evl_put_thread_rq_check(c)
    \/ LookUpWchan(c) \/ evl_adjust_wait_priority(c)
    \/ evl_double_thread_unlock(c)
    \/ Wait(c) \/ WakeUp(c)

ThreadSpec == ThreadInit /\ [][ThreadNext]_threadVars

-----------------------------------------------------------------------------
(***************************************************************************)
(* No set of CPUs wait for each other's locks, whatever they do to which   *)
(* threads: the header warns of ABBA in both places.                       *)
(***************************************************************************)
NoLockCycle ==
  \A S \in (SUBSET Agents) \ {{}} :
    \E c \in S : Spins(c) => \A b \in S : ~Holds(b, NextLock(c))

(***************************************************************************)
(* A thread waits at the place of its current priority, or some CPU is     *)
(* about to requeue it, even if the thread was woken up and waits on       *)
(* another channel since.                                                  *)
(***************************************************************************)
RequeueOwed ==
  \A t \in Addresses :
    wchan[t] # NoWchan /\ order[t] # wprio[t] =>
      \E c \in Agents :
        /\ agent[c].threads = <<t>>
        /\ \/ agent[c].op \in {"look", "requeue"}
           \/ agent[c].op = "unpin" /\ "EVL_T_WCHAN" \in info[t]
=============================================================================
