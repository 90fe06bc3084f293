--------------------------- MODULE CrossingBarrier ---------------------------
(***************************************************************************)
(* What evl/crossing.h promises in its opening comment: an in-band caller  *)
(* passes a point only when no out-of-band operation which went through    *)
(* the crossing is still in flight.  There is no counter, no completion    *)
(* and no interrupt work here, only the set of operations in the danger    *)
(* zone and the gate.                                                      *)
(***************************************************************************)

CONSTANT Ops        \* the out-of-band operations which use the crossing

VARIABLES inside,   \* operations currently in the danger zone
          gate      \* "open", "passing" (a caller waits) or "passed"

vars == <<inside, gate>>

Init == inside = {} /\ gate = "open"

Enter(o) ==
  /\ gate = "open"
  /\ o \notin inside
  /\ inside' = inside \cup {o}
  /\ UNCHANGED gate

Leave(o) ==
  /\ o \in inside
  /\ inside' = inside \ {o}
  /\ UNCHANGED gate

\* The caller goes straight through an empty zone, and waits otherwise.
Close ==
  /\ gate = "open"
  /\ gate' = IF inside = {} THEN "passed" ELSE "passing"
  /\ UNCHANGED inside

Pass ==
  /\ gate = "passing"
  /\ inside = {}
  /\ gate' = "passed"
  /\ UNCHANGED inside

Reset ==
  /\ gate = "passed"
  /\ gate' = "open"
  /\ UNCHANGED inside

Next ==
  \/ \E o \in Ops : Enter(o) \/ Leave(o)
  \/ Close
  \/ Pass
  \/ Reset

SafeSpec == Init /\ [][Next]_vars

Spec == SafeSpec /\ WF_vars(Pass)
==============================================================================
