------------------------------- MODULE MlqSchedq -------------------------------
(***************************************************************************)
(* struct evl_sched_queue with CONFIG_EVL_SCHED_SCALABLE                   *)
(* (evl/sched/queue.h): one list per priority level, highest priority at   *)
(* the lowest index, a bitmap of the levels in use and a count of entries. *)
(***************************************************************************)
EXTENDS Integers, Sequences, SequencesExt

CONSTANT EVL_MLQ_LEVELS    \* EVL_CORE_NR_PRIO

Index == 0 .. EVL_MLQ_LEVELS - 1

evl_init_schedq ==
  [elems |-> 0, prio_map |-> {}, heads |-> [i \in Index |-> <<>>]]

get_qindex(prio) == EVL_MLQ_LEVELS - prio - 1

\* The bit is set when the first entry is about to join its level.
add_q(q, prio) ==
  LET idx == get_qindex(prio)
  IN  [q EXCEPT !.elems = @ + 1,
                !.prio_map = IF q.heads[idx] = <<>> THEN @ \cup {idx} ELSE @]

evl_add_schedq(q, t, cprio) ==
  [add_q(q, cprio[t]) EXCEPT !.heads[get_qindex(cprio[t])] = <<t>> \o @]

evl_add_schedq_tail(q, t, cprio) ==
  [add_q(q, cprio[t]) EXCEPT !.heads[get_qindex(cprio[t])] = Append(@, t)]

\* Mutant of __evl_del_schedq(): the bit of an empty level stays set.
__evl_del_schedq_StaleBit(q, t, idx) ==
  [q EXCEPT !.elems = @ - 1,
            !.heads = [i \in Index |-> RemoveFirst(q.heads[i], t)]]

\* list_del() unlinks the entry from the list it is on; "idx" picks the bit.
__evl_del_schedq(q, t, idx) ==
  LET heads == [i \in Index |-> RemoveFirst(q.heads[i], t)]
  IN  [elems    |-> q.elems - 1,
       prio_map |-> IF heads[idx] = <<>> THEN q.prio_map \ {idx} ELSE q.prio_map,
       heads    |-> heads]

evl_del_schedq(q, t, cprio) == __evl_del_schedq(q, t, get_qindex(cprio[t]))

schedq_empty(q) == q.elems = 0

evl_get_schedq_weight(q) ==     \* find_first_bit()
  CHOOSE i \in q.prio_map \cup {EVL_MLQ_LEVELS} : \A j \in q.prio_map : i <= j

\* __evl_get_schedq(), external: the first entry of the first level in use.
evl_get_schedq(q) ==
  LET idx == evl_get_schedq_weight(q)
      t   == Head(q.heads[idx])
  IN  [thread |-> t, queue |-> __evl_del_schedq(q, t, idx)]
==============================================================================
