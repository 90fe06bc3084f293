----------------------------- MODULE EvlCrossing -----------------------------
(***************************************************************************)
(* struct evl_crossing and its operations (evl/crossing.h), which evl_file *)
(* (evl/file.h) uses to keep a file alive under out-of-band users.         *)
(*                                                                         *)
(* Each atomic instruction of the code is one action: the decrement of     *)
(* oob_refs and the irq_work_queue() that follows it in                    *)
(* evl_up_crossing() are two, and so are the decrement and the wait in     *)
(* evl_pass_crossing().  An "operation" is one down/up pair; a thread that *)
(* holds several references runs several of them.                          *)
(***************************************************************************)
EXTENDS Integers, FiniteSets

CONSTANT Ops        \* out-of-band down/up pairs that may be in flight

ASSUME OpsAssumption == IsFiniteSet(Ops)

VARIABLES oob_refs,  \* atomic_t oob_refs
          oob_done,  \* count of the completion oob_done
          oob_work,  \* TRUE while the irq_work is queued
          op,        \* what each operation is doing
          passer     \* where the in-band caller of evl_pass_crossing() is

vars == <<oob_refs, oob_done, oob_work, op, passer>>

OpState     == {"out", "in", "opening"}   \* "opening": dropped the last ref
PasserState == {"away", "waiting", "passed"}

InFlight == {o \in Ops : op[o] = "in"}
Opening  == {o \in Ops : op[o] = "opening"}

Init ==
  /\ oob_refs = 1
  /\ oob_done = 0
  /\ oob_work = FALSE
  /\ op = [o \in Ops |-> "out"]
  /\ passer = "away"

\* Mutant of DownAllowed: the caution is not heeded.
DownAllowed_Always == TRUE

(***************************************************************************)
(* The caution in the header: evl_down_crossing() is never invoked once    *)
(* evl_pass_crossing() was entered.                                        *)
(***************************************************************************)
DownAllowed == passer = "away"

Down(o) ==
  /\ DownAllowed
  /\ op[o] = "out"
  /\ oob_refs' = oob_refs + 1
  /\ op' = [op EXCEPT ![o] = "in"]
  /\ UNCHANGED <<oob_done, oob_work, passer>>

\* Mutant of Up: the crossing opens with one operation still inside.
Up_Early(o) ==
  /\ op[o] = "in"
  /\ oob_refs' = oob_refs - 1
  /\ op' = [op EXCEPT ![o] = IF oob_refs - 1 <= 1 THEN "opening" ELSE "out"]
  /\ UNCHANGED <<oob_done, oob_work, passer>>

\* atomic_dec_return(&c->oob_refs) in evl_up_crossing().
Up(o) ==
  /\ op[o] = "in"
  /\ oob_refs' = oob_refs - 1
  /\ op' = [op EXCEPT ![o] = IF oob_refs - 1 = 0 THEN "opening" ELSE "out"]
  /\ UNCHANGED <<oob_done, oob_work, passer>>

\* Mutant of QueueOpening: the interrupt work is not queued.
QueueOpening_Lost(o) ==
  /\ op[o] = "opening"
  /\ op' = [op EXCEPT ![o] = "out"]
  /\ UNCHANGED <<oob_refs, oob_done, oob_work, passer>>

\* irq_work_queue(&c->oob_work): a no-op when the work is already queued.
QueueOpening(o) ==
  /\ op[o] = "opening"
  /\ oob_work' = TRUE
  /\ op' = [op EXCEPT ![o] = "out"]
  /\ UNCHANGED <<oob_refs, oob_done, passer>>

\* evl_open_crossing(), the in-band handler of the irq_work.
OpenCrossing ==
  /\ oob_work
  /\ oob_work' = FALSE
  /\ oob_done' = oob_done + 1
  /\ UNCHANGED <<oob_refs, op, passer>>

\* Mutant of PassCrossing: it does not wait for the last operation.
PassCrossing_OffByOne ==
  /\ passer = "away"
  /\ oob_refs' = oob_refs - 1
  /\ passer' = IF oob_refs - 1 > 1 THEN "waiting" ELSE "passed"
  /\ UNCHANGED <<oob_done, oob_work, op>>

\* atomic_dec_return() in evl_pass_crossing().
PassCrossing ==
  /\ passer = "away"
  /\ oob_refs' = oob_refs - 1
  /\ passer' = IF oob_refs - 1 > 0 THEN "waiting" ELSE "passed"
  /\ UNCHANGED <<oob_done, oob_work, op>>

\* wait_for_completion(&c->oob_done).
WaitDone ==
  /\ passer = "waiting"
  /\ oob_done > 0
  /\ oob_done' = oob_done - 1
  /\ passer' = "passed"
  /\ UNCHANGED <<oob_refs, oob_work, op>>

\* evl_reinit_crossing(): the crossing protects once, then starts over.
ReinitCrossing ==
  /\ passer = "passed"
  /\ oob_refs' = 1
  /\ oob_done' = 0
  /\ passer' = "away"
  /\ UNCHANGED <<oob_work, op>>

Next ==
  \/ \E o \in Ops : Down(o) \/ Up(o) \/ QueueOpening(o)
  \/ OpenCrossing
  \/ PassCrossing
  \/ WaitDone
  \/ ReinitCrossing

(***************************************************************************)
(* An operation in the danger zone comes to its evl_up_crossing(), the     *)
(* interrupt work runs, and a completed waiter is scheduled in-band.       *)
(* Nobody is obliged to enter the crossing or to pass it.                  *)
(***************************************************************************)
Fairness ==
  /\ \A o \in Ops : WF_vars(Up(o)) /\ WF_vars(QueueOpening(o))
  /\ WF_vars(OpenCrossing)
  /\ WF_vars(WaitDone)

Spec == Init /\ [][Next]_vars /\ Fairness

------------------------------------------------------------------------------

(* Type invariant: the reference count never goes below zero, the        *)
(* completion count stays a natural number.                                *)
TypeOK ==
  /\ oob_refs \in Nat
  /\ oob_done \in Nat
  /\ oob_work \in BOOLEAN
  /\ op \in [Ops -> OpState]
  /\ passer \in PasserState

(* Once evl_pass_crossing() has returned, nothing touches the crossing any *)
(* more: no operation is inside, none is between its last decrement and    *)
(* irq_work_queue(), and the interrupt work is neither queued nor about to *)
(* signal the completion of a later round.                                 *)
QuietOncePassed ==
  passer = "passed" => /\ InFlight = {}
                       /\ Opening = {}
                       /\ ~oob_work
                       /\ oob_done = 0

(* The completion is signalled at most once per round, and only when the   *)
(* last operation has left: an early or second complete() would let a      *)
(* later evl_pass_crossing() through at once.                              *)
OneOpeningPerRound ==
  /\ Cardinality(Opening) + oob_done + (IF oob_work THEN 1 ELSE 0) <= 1
  /\ Opening # {} \/ oob_work \/ oob_done > 0 => InFlight = {}

(* A caller that waits in evl_pass_crossing() returns: the last            *)
(* evl_up_crossing() always reaches its completion.                        *)
PassReturns == passer = "waiting" ~> passer = "passed"

\* The crossing implements the barrier its header describes.
Barrier ==
  INSTANCE CrossingBarrier
    WITH inside <- {o \in Ops : op[o] # "out"},
         gate <- IF passer = "away" THEN "open"
                 ELSE IF passer = "waiting" THEN "passing" ELSE "passed"

(* Every behaviour of the counter, the completion and the interrupt work   *)
(* is a behaviour of the barrier, its fairness included.                   *)
ImplementsBarrier == Barrier!Spec
==============================================================================
