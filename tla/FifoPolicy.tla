------------------------------ MODULE FifoPolicy ------------------------------
(***************************************************************************)
(* What SCHED_FIFO promises on a CPU (the comments of evl_enqueue_thread() *)
(* and evl_requeue_thread() in evl/sched.h): threads wait their turn in    *)
(* one line per priority, the first of the highest line runs next, and a   *)
(* preempted thread goes back in front of its line.                        *)
(***************************************************************************)
EXTENDS Integers, Sequences, SequencesExt

CONSTANTS Threads, Prios, Nobody

VARIABLES line,      \* the threads waiting for the CPU, by priority
          prio,      \* the current priority of each thread
          running,   \* the thread on the CPU, or Nobody
          able       \* the running thread has not stopped

policyVars == <<line, prio, running, able>>

Waiting(t) == \E p \in Prios : \E i \in DOMAIN line[p] : line[p][i] = t

Init ==
  /\ line = [p \in Prios |-> <<>>]
  /\ prio \in [Threads -> Prios]
  /\ running = Nobody
  /\ able = TRUE

\* t goes to the end of its line: it got ready, or it yields.
Join(t) ==
  /\ ~Waiting(t)
  /\ line' = [line EXCEPT ![prio[t]] = Append(@, t)]
  /\ able' = (able \/ t = running)
  /\ UNCHANGED <<prio, running>>

\* t is suspended, whether it waits or runs.
Leave(t) ==
  /\ Waiting(t) \/ t = running
  /\ line' = [line EXCEPT ![prio[t]] = RemoveFirst(@, t)]
  /\ able' = (able /\ t # running)
  /\ UNCHANGED <<prio, running>>

(***************************************************************************)
(* The CPU goes to the first thread of the highest line, once the running  *)
(* one is back in front of its own line if it was preempted.               *)
(***************************************************************************)
Turn ==
  LET back == able /\ running # Nobody /\ ~Waiting(running)
      all  == IF back THEN [line EXCEPT ![prio[running]] = <<running>> \o @]
              ELSE line
      used == {p \in Prios : all[p] # <<>>}
  IN  /\ IF used = {}
         THEN running' = Nobody /\ line' = all
         ELSE \E p \in used :
                /\ \A o \in used : o <= p
                /\ running' = Head(all[p])
                /\ line' = [all EXCEPT ![p] = Tail(@)]
      /\ able' = TRUE
      /\ UNCHANGED prio

\* t changes priority: it moves to an end of its new line if it waits.
Move(t, p) ==
  /\ prio' = [prio EXCEPT ![t] = p]
  /\ LET left == [o \in Prios |-> RemoveFirst(line[o], t)]
     IN  IF Waiting(t)
         THEN \/ line' = [left EXCEPT ![p] = Append(left[p], t)]
              \/ line' = [left EXCEPT ![p] = <<t>> \o left[p]]
         ELSE line' = line
  /\ UNCHANGED <<running, able>>

Next ==
  \/ \E t \in Threads : Join(t) \/ Leave(t) \/ \E p \in Prios : Move(t, p)
  \/ Turn

Spec == Init /\ [][Next]_policyVars
==============================================================================
