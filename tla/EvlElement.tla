----------------------------- MODULE EvlElement -----------------------------
(***************************************************************************)
(* An element of the core (evl/factory.h), found by its handle or by its   *)
(* device, and work done in-band for out-of-band callers that have a       *)
(* reference on it (evl/work.h).                                           *)
(*                                                                         *)
(* A reference belongs to a user, or to a request for work if the work is  *)
(* safe, initialised by evl_init_work_safe().  The in-band kernel disposes *)
(* of the element after the last one: it cancels the work that is not      *)
(* safe, removes the device once no operation of sysfs is in it, then      *)
(* drops the element from the index and frees it.                          *)
(***************************************************************************)
EXTENDS Integers, FiniteSets

CONSTANTS Users, Creator

ASSUME UsersAssumption == IsFiniteSet(Users) /\ Creator \in Users

VARIABLES
  safe,       \* does a request for work hold a reference?
  refs,       \* e->refs
  drvdata,    \* does the device lead to the element?
  indexed,    \* does the handle?
  fate,       \* "live", "dying" after the last reference, "cancelled", "disposed"
  warned,     \* did evl_get_element() fail?
  holders,    \* users with a reference
  inSysfs,    \* users that read drvdata
  stage,      \* the requests for work: in "irq", on "wq", in "run"
  flusher,    \* the in-band flush or cancellation, and what it waits for
  barrier,    \* the requests on the work queue it waits for
  awaited     \* history: the requests it found, not done yet

elementVars == <<refs, drvdata, indexed, fate, warned, holders, inSysfs>>
workVars == <<stage, flusher, barrier, awaited>>
elemVars == <<safe, elementVars, workVars>>

ElementInit ==
  /\ safe \in BOOLEAN
  /\ refs = 1
  /\ drvdata = TRUE
  /\ indexed = TRUE
  /\ fate = "live"
  /\ warned = FALSE
  /\ holders = {Creator}
  /\ inSysfs = {}
  /\ stage = {}
  /\ flusher = "idle"
  /\ barrier = {}
  /\ awaited = {}

-----------------------------------------------------------------------------
\* Mutant of __evl_get_element(): the count is not compared with zero.
__evl_get_element_Always == refs' = refs + 1

\* refcount_inc_not_zero().
__evl_get_element == refs # 0 /\ refs' = refs + 1

\* The last reference makes __evl_put_element() see to the rest.
evl_put_element ==
  /\ refs' = refs - 1
  /\ fate' = IF refs = 1 THEN "dying" ELSE fate

Outside(u) == u \notin holders \cup inSysfs

evl_get_element_by_fundle(u) ==
  /\ indexed
  /\ Outside(u)
  /\ __evl_get_element
  /\ holders' = holders \cup {u}
  /\ UNCHANGED <<safe, drvdata, indexed, fate, warned, inSysfs, workVars>>

\* drvdata is read first, the reference is got after that.
ReadDrvdata(u) ==
  /\ drvdata
  /\ Outside(u)
  /\ inSysfs' = inSysfs \cup {u}
  /\ UNCHANGED <<safe, refs, drvdata, indexed, fate, warned, holders, workVars>>

\* evl_get_element() warns when it fails, and the caller goes on.
evl_get_element_by_dev(u) ==
  /\ u \in inSysfs \ holders
  /\ IF refs # 0
     THEN __evl_get_element /\ holders' = holders \cup {u} /\ UNCHANGED warned
     ELSE warned' = TRUE /\ UNCHANGED <<refs, holders>>
  /\ UNCHANGED <<safe, drvdata, indexed, fate, inSysfs, workVars>>

\* The user is done: an operation of sysfs returns after it dropped its
\* reference.
Drop(u) ==
  /\ u \in holders
  /\ holders' = holders \ {u}
  /\ inSysfs' = inSysfs \ {u}
  /\ evl_put_element
  /\ UNCHANGED <<safe, drvdata, indexed, warned, workVars>>

evl_hide_element ==
  /\ holders # {}
  /\ drvdata' = FALSE
  /\ UNCHANGED <<safe, refs, indexed, fate, warned, holders, inSysfs, workVars>>

RemoveDevice ==
  /\ fate = IF safe THEN "dying" ELSE "cancelled"
  /\ inSysfs = {}
  /\ drvdata' = FALSE
  /\ fate' = "removed"
  /\ UNCHANGED <<safe, refs, indexed, warned, holders, inSysfs, workVars>>

Dispose ==
  /\ fate = "removed"
  /\ indexed' = FALSE
  /\ fate' = "disposed"
  /\ UNCHANGED <<safe, refs, drvdata, warned, holders, inSysfs, workVars>>

-----------------------------------------------------------------------------
\* A set of requests once those at stage a are at stage b.
Advance(S, a, b) == IF a \in S THEN (S \ {a}) \cup {b} ELSE S
Moves(a, b) ==
  /\ stage' = Advance(stage, a, b)
  /\ barrier' = Advance(barrier, a, b)
  /\ awaited' = Advance(awaited, a, b)

\* A request that is queued already is not queued again.
evl_call_inband(u) ==
  /\ u \in holders
  /\ "irq" \notin stage
  /\ stage' = stage \cup {"irq"}
  /\ IF safe THEN __evl_get_element ELSE UNCHANGED refs
  /\ UNCHANGED <<safe, drvdata, indexed, fate, warned, holders, inSysfs, flusher,
                 barrier, awaited>>

\* The request joins the one on the work queue, if there is one.
__evl_do_irq_work ==
  /\ "irq" \in stage
  /\ Moves("irq", "wq")
  /\ IF safe /\ "wq" \in stage THEN evl_put_element ELSE UNCHANGED <<refs, fate>>
  /\ UNCHANGED <<safe, drvdata, indexed, warned, holders, inSysfs, flusher>>

StartWork ==
  /\ "wq" \in stage /\ "run" \notin stage
  /\ Moves("wq", "run")
  /\ UNCHANGED <<safe, elementVars, flusher>>

\* The handler returned.
__evl_do_work ==
  /\ "run" \in stage
  /\ stage' = stage \ {"run"}
  /\ barrier' = barrier \ {"run"}
  /\ awaited' = awaited \ {"run"}
  /\ IF safe THEN evl_put_element ELSE UNCHANGED <<refs, fate>>
  /\ UNCHANGED <<safe, drvdata, indexed, warned, holders, inSysfs, flusher>>

\* Mutant of irq_work_sync: it is skipped.
irq_work_sync_Skipped == TRUE

irq_work_sync == "irq" \notin stage

\* evl_flush_work() and evl_cancel_work() both begin with irq_work_sync().
BeginFlush ==
  /\ flusher = "idle"
  /\ \/ holders # {} /\ flusher' = "flush"
     \/ fate = "dying" /\ ~safe /\ flusher' = "cancel"
  /\ awaited' = stage
  /\ UNCHANGED <<safe, elementVars, stage, barrier>>

\* flush_work(), cancel_work_sync() then deal with what is on the queue.
evl_flush_work ==
  /\ flusher = "flush"
  /\ irq_work_sync
  /\ flusher' = "flush_wq"
  /\ barrier' = stage \ {"irq"}
  /\ UNCHANGED <<safe, elementVars, stage, awaited>>

evl_cancel_work ==
  /\ flusher = "cancel"
  /\ irq_work_sync
  /\ flusher' = "cancel_wq"
  /\ stage' = stage \ {"wq"}
  /\ awaited' = awaited \ {"wq"}
  /\ barrier' = stage \cap {"run"}
  /\ UNCHANGED <<safe, elementVars>>

EndFlush ==
  /\ flusher \in {"flush_wq", "cancel_wq"}
  /\ barrier = {}
  /\ flusher' = "idle"
  /\ fate' = IF flusher = "cancel_wq" THEN "cancelled" ELSE fate
  /\ UNCHANGED <<safe, refs, drvdata, indexed, warned, holders, inSysfs, stage,
                 barrier, awaited>>

\* Nothing is left of the element, or the kernel warned.
ElementEnds == fate = "disposed" \/ warned

ElementNext ==
  \/ /\ ~ElementEnds
     /\ \/ \E u \in Users :
             \/ evl_get_element_by_fundle(u)
             \/ ReadDrvdata(u) \/ evl_get_element_by_dev(u)
             \/ Drop(u)
             \/ evl_call_inband(u)
        \/ evl_hide_element \/ RemoveDevice \/ Dispose
        \/ __evl_do_irq_work \/ StartWork \/ __evl_do_work
        \/ BeginFlush \/ evl_flush_work \/ evl_cancel_work \/ EndFlush
  \/ ElementEnds /\ UNCHANGED elemVars

ElementSpec == ElementInit /\ [][ElementNext]_elemVars

-----------------------------------------------------------------------------
(***************************************************************************)
(* The element outlives all who use it: the users that got a reference,    *)
(* the operations of sysfs, and the work queued, pending or running for    *)
(* it; and each reference is somebody's.                                   *)
(***************************************************************************)
OutlivesUsers ==
  /\ refs = Cardinality(holders) + (IF safe THEN Cardinality(stage) ELSE 0)
  /\ fate = "disposed" => holders \cup inSysfs = {} /\ stage = {} /\ ~drvdata

(***************************************************************************)
(* Once evl_flush_work() or evl_cancel_work() returned, all the requests   *)
(* made before the call are over, wherever they were on their way in-band. *)
(***************************************************************************)
FlushWaits == flusher = "idle" => awaited = {}
=============================================================================
