----------------------------- MODULE LinearSchedq -----------------------------
(***************************************************************************)
(* struct evl_sched_queue without CONFIG_EVL_SCHED_SCALABLE                *)
(* (evl/sched/queue.h): one list of threads kept by decreasing priority,   *)
(* on the priority-ordered insertions of evl/list.h.  "cprio" gives the    *)
(* current priority of each thread, which the insertion compares.          *)
(***************************************************************************)
EXTENDS Integers, Sequences, SequencesExt

evl_init_schedq == <<>>

\* The last of some places in a list, 0 when there is none.
LastOf(places) ==
  CHOOSE i \in places \cup {0} : \A j \in places : j <= i

(***************************************************************************)
(* __list_add_pri(): scan from the tail for the first entry at which the   *)
(* comparison with the new one makes it "stop", and insert right after it, *)
(* or at the head of the list when there is none.                          *)
(***************************************************************************)
__list_add_pri(t, list, stop) == InsertAt(list, LastOf(stop) + 1, t)

\* First in, first out among equals.
list_add_priff(t, list, cprio) ==
  __list_add_pri(t, list, {i \in DOMAIN list : cprio[t] <= cprio[list[i]]})

\* Mutant of list_add_prilf(): the comparison of list_add_priff().
list_add_prilf_Fifo(t, list, cprio) ==
  __list_add_pri(t, list, {i \in DOMAIN list : cprio[t] <= cprio[list[i]]})

\* Last in, first out among equals.
list_add_prilf(t, list, cprio) ==
  __list_add_pri(t, list, {i \in DOMAIN list : cprio[t] < cprio[list[i]]})

evl_add_schedq(q, t, cprio)      == list_add_prilf(t, q, cprio)
evl_add_schedq_tail(q, t, cprio) == list_add_priff(t, q, cprio)
evl_del_schedq(q, t, cprio)      == RemoveFirst(q, t)

schedq_empty(q) == q = <<>>

\* evl_get_schedq() of a queue which is not empty.
evl_get_schedq(q) == [thread |-> Head(q), queue |-> Tail(q)]

\* The entries of one priority, which follow those of the higher ones.
group(q, prio, cprio) ==
  SubSeq(q, LastOf({i \in DOMAIN q : prio < cprio[q[i]]}) + 1,
            LastOf({i \in DOMAIN q : prio <= cprio[q[i]]}))
==============================================================================
