-------------------------- MODULE EvlCrossingProof ---------------------------
(***************************************************************************)
(* Proofs about EvlCrossing, for any finite set of operations.             *)
(***************************************************************************)
EXTENDS EvlCrossing, FiniteSetTheorems, TLAPS

(***************************************************************************)
(* The strengthening of TypeOK, QuietOncePassed and OneOpeningPerRound     *)
(* that every step preserves.  It says what oob_refs counts, and that the  *)
(* opening of the crossing is in one place at a time (an operation, the    *)
(* queued work, the completion), which it reaches only when the last       *)
(* operation has left a caller waiting.                                    *)
(***************************************************************************)
CountInv ==
  oob_refs = Cardinality(InFlight) + (IF passer = "away" THEN 1 ELSE 0)

NoOpening == Opening = {} /\ ~oob_work /\ oob_done = 0

OpeningInv ==
  /\ passer # "waiting" => NoOpening
  /\ passer = "passed" => InFlight = {}
  /\ InFlight # {} => NoOpening
  /\ \A o, p \in Opening : o = p
  /\ Opening # {} => ~oob_work /\ oob_done = 0
  /\ oob_work => oob_done = 0
  /\ oob_done \in {0, 1}

IInv == TypeOK /\ CountInv /\ OpeningInv

------------------------------------------------------------------------------

(* The operations in flight are finitely many, and oob_refs is zero or one *)
(* above zero exactly as the zone empties.                                 *)
LEMMA InFlightFinite ==
  /\ IsFiniteSet(InFlight)
  /\ Cardinality(InFlight) \in Nat
  /\ Cardinality(InFlight) = 0 <=> InFlight = {}
<1>1. InFlight \in SUBSET Ops
  BY DEF InFlight
<1>2. IsFiniteSet(InFlight)
  BY <1>1, OpsAssumption, FS_Subset
<1>. QED
  BY <1>2, FS_CardinalityType, FS_EmptySet

LEMMA InitIInv == Init => IInv
<1>. SUFFICES ASSUME Init PROVE IInv
  OBVIOUS
<1>1. InFlight = {} /\ Opening = {}
  BY DEF Init, InFlight, Opening
<1>2. Cardinality(InFlight) = 0
  BY <1>1, InFlightFinite
<1>3. TypeOK
  BY DEF Init, TypeOK, OpState, PasserState
<1>. QED
  BY <1>1, <1>2, <1>3 DEF Init, IInv, CountInv, OpeningInv, NoOpening

(* A step that moves no operation leaves both derived sets alone. *)
LEMMA SameOps ==
  ASSUME op' = op
  PROVE  InFlight' = InFlight /\ Opening' = Opening
BY DEF InFlight, Opening

LEMMA DownStep ==
  ASSUME IInv, NEW o \in Ops, Down(o)
  PROVE  IInv'
<1>. USE DEF IInv, Down, DownAllowed
<1>1. InFlight' = InFlight \cup {o} /\ o \notin InFlight
  BY DEF InFlight, TypeOK
<1>2. Opening' = Opening /\ Opening = {}
  BY DEF Opening, TypeOK, OpeningInv, NoOpening
<1>3. Cardinality(InFlight') = Cardinality(InFlight) + 1
  BY <1>1, InFlightFinite, FS_AddElement
<1>4. TypeOK'
  BY DEF TypeOK, OpState
<1>5. CountInv'
  BY <1>3, InFlightFinite DEF CountInv
<1>6. OpeningInv'
  BY <1>2 DEF OpeningInv, NoOpening
<1>. QED
  BY <1>4, <1>5, <1>6

LEMMA UpStep ==
  ASSUME IInv, NEW o \in Ops, Up(o)
  PROVE  IInv'
<1>. USE DEF IInv, Up
<1>1. InFlight' = InFlight \ {o} /\ o \in InFlight
  BY DEF InFlight, TypeOK
<1>2. Cardinality(InFlight') = Cardinality(InFlight) - 1
  BY <1>1, InFlightFinite, FS_RemoveElement
<1>3. IsFiniteSet(InFlight') /\ (Cardinality(InFlight') = 0 <=> InFlight' = {})
  BY <1>1, InFlightFinite, FS_RemoveElement, FS_EmptySet
<1>4. Cardinality(InFlight) >= 1
  BY <1>1, InFlightFinite
<1>5. NoOpening /\ passer # "passed"
  BY <1>1 DEF OpeningInv
<1>6. TypeOK'
  BY <1>4, InFlightFinite DEF TypeOK, OpState, CountInv
<1>7. CountInv'
  BY <1>2, <1>4, InFlightFinite DEF CountInv
<1>8. CASE oob_refs - 1 = 0
  <2>1. passer = "waiting" /\ InFlight' = {}
    BY <1>2, <1>3, <1>4, <1>5, <1>8, InFlightFinite DEF CountInv, TypeOK, PasserState
  <2>2. Opening' = {o}
    BY <1>5, <1>8 DEF Opening, NoOpening, TypeOK
  <2>. QED
    BY <1>5, <1>6, <1>7, <2>1, <2>2 DEF OpeningInv, NoOpening
<1>9. CASE oob_refs - 1 # 0
  <2>1. Opening' = {}
    BY <1>5, <1>9 DEF Opening, NoOpening, TypeOK
  <2>. QED
    BY <1>5, <1>6, <1>7, <2>1 DEF OpeningInv, NoOpening
<1>. QED
  BY <1>8, <1>9

LEMMA QueueStep ==
  ASSUME IInv, NEW o \in Ops, QueueOpening(o)
  PROVE  IInv'
<1>. USE DEF IInv, QueueOpening
<1>1. InFlight' = InFlight
  BY DEF InFlight, TypeOK
<1>2. Opening' = {} /\ Opening # {}
  BY DEF Opening, TypeOK, OpeningInv
<1>3. TypeOK'
  BY DEF TypeOK, OpState
<1>4. CountInv'
  BY <1>1 DEF CountInv
<1>5. OpeningInv'
  BY <1>1, <1>2 DEF OpeningInv, NoOpening
<1>. QED
  BY <1>3, <1>4, <1>5

LEMMA OpenStep == IInv /\ OpenCrossing => IInv'
<1>. SUFFICES ASSUME IInv, OpenCrossing PROVE IInv'
  OBVIOUS
<1>1. InFlight' = InFlight /\ Opening' = Opening
  BY SameOps DEF OpenCrossing
<1>2. TypeOK'
  <2>1. oob_done' \in Nat /\ oob_refs' \in Nat
    BY DEF IInv, TypeOK, OpenCrossing
  <2>2. oob_work' \in BOOLEAN /\ op' \in [Ops -> OpState] /\ passer' \in PasserState
    BY Zenon DEF IInv, TypeOK, OpenCrossing
  <2>. QED
    BY <2>1, <2>2 DEF TypeOK
<1>3. CountInv'
  BY <1>1 DEF IInv, CountInv, OpenCrossing
<1>4. OpeningInv'
  BY <1>1 DEF IInv, OpeningInv, NoOpening, OpenCrossing
<1>. QED
  BY <1>2, <1>3, <1>4 DEF IInv

LEMMA PassStep == IInv /\ PassCrossing => IInv'
<1>. SUFFICES ASSUME IInv, PassCrossing PROVE IInv'
  OBVIOUS
<1>. USE DEF IInv, PassCrossing
<1>1. InFlight' = InFlight /\ Opening' = Opening
  BY SameOps
<1>2. oob_refs - 1 = Cardinality(InFlight) /\ oob_refs - 1 \in Nat
  BY InFlightFinite DEF CountInv
<1>3. TypeOK'
  BY <1>2 DEF TypeOK, PasserState
<1>4. CountInv'
  BY <1>1, <1>2, InFlightFinite DEF CountInv
<1>5. passer' = "passed" => InFlight = {}
  BY <1>2, InFlightFinite
<1>6. OpeningInv'
  BY <1>1, <1>5 DEF OpeningInv, NoOpening
<1>. QED
  BY <1>3, <1>4, <1>6

LEMMA WaitStep == IInv /\ WaitDone => IInv'
<1>. SUFFICES ASSUME IInv, WaitDone PROVE IInv'
  OBVIOUS
<1>1. InFlight' = InFlight /\ Opening' = Opening
  BY SameOps DEF WaitDone
<1>2. oob_done = 1 /\ InFlight = {} /\ Opening = {} /\ ~oob_work
  BY DEF IInv, OpeningInv, NoOpening, WaitDone, TypeOK
<1>3. TypeOK'
  BY <1>2 DEF IInv, TypeOK, PasserState, WaitDone
<1>4. CountInv'
  BY <1>1 DEF IInv, CountInv, WaitDone
<1>5. OpeningInv'
  BY <1>1, <1>2 DEF OpeningInv, NoOpening, WaitDone
<1>. QED
  BY <1>3, <1>4, <1>5 DEF IInv

LEMMA ReinitStep == IInv /\ ReinitCrossing => IInv'
<1>. SUFFICES ASSUME IInv, ReinitCrossing PROVE IInv'
  OBVIOUS
<1>1. InFlight' = InFlight /\ Opening' = Opening
  BY SameOps DEF ReinitCrossing
<1>2. NoOpening /\ InFlight = {}
  BY DEF IInv, OpeningInv, ReinitCrossing
<1>3. TypeOK'
  BY DEF IInv, TypeOK, PasserState, ReinitCrossing
<1>4. CountInv'
  BY <1>1, <1>2, InFlightFinite DEF CountInv, ReinitCrossing
<1>5. OpeningInv'
  BY <1>1, <1>2 DEF OpeningInv, NoOpening, ReinitCrossing
<1>. QED
  BY <1>3, <1>4, <1>5 DEF IInv

LEMMA NextIInv == IInv /\ [Next]_vars => IInv'
<1>. SUFFICES ASSUME IInv, [Next]_vars PROVE IInv'
  OBVIOUS
<1>1. ASSUME NEW o \in Ops, Down(o) \/ Up(o) \/ QueueOpening(o) PROVE IInv'
  BY <1>1, DownStep, UpStep, QueueStep
<1>2. CASE UNCHANGED vars
  <2>1. InFlight' = InFlight /\ Opening' = Opening
    BY <1>2, SameOps DEF vars
  <2>. QED
    BY <1>2, <2>1 DEF vars, IInv, TypeOK, CountInv, OpeningInv, NoOpening
<1>. QED
  BY <1>1, <1>2, OpenStep, PassStep, WaitStep, ReinitStep DEF Next

(* The inductive invariant holds of the crossing, whatever the number of   *)
(* operations: evl_up_crossing() and evl_pass_crossing() agree on what the *)
(* counter means at every interleaving of their atomic instructions.       *)
THEOREM CrossingInvariant == Spec => []IInv
BY InitIInv, NextIInv, PTL DEF Spec

(* Type correctness; in particular oob_refs never drops below zero. *)
THEOREM CrossingTypeOK == Spec => []TypeOK
BY CrossingInvariant, PTL DEF IInv

(* When evl_pass_crossing() has returned nobody is left in the crossing,   *)
(* nor on the way to signalling it.                                        *)
THEOREM CrossingQuiet == Spec => []QuietOncePassed
<1>1. IInv => QuietOncePassed
  BY DEF IInv, OpeningInv, NoOpening, QuietOncePassed
<1>. QED
  BY <1>1, CrossingInvariant, PTL

(* One round of the crossing completes oob_done at most once, after the    *)
(* last operation left.                                                    *)
THEOREM CrossingOneOpening == Spec => []OneOpeningPerRound
<1>1. ASSUME IInv PROVE OneOpeningPerRound
  <2>. USE <1>1 DEF IInv, OpeningInv, NoOpening
  <2>1. CASE Opening = {}
    <3>1. Cardinality(Opening) = 0
      BY <2>1, FS_EmptySet
    <3>. QED
      BY <2>1, <3>1 DEF OneOpeningPerRound
  <2>2. CASE Opening # {}
    <3>1. PICK o \in Opening : TRUE
      BY <2>2
    <3>2. Opening = {o}
      BY <3>1
    <3>3. Cardinality(Opening) = 1
      BY <3>2, FS_Singleton
    <3>. QED
      BY <2>2, <3>3 DEF OneOpeningPerRound
  <2>. QED
    BY <2>1, <2>2
<1>. QED
  BY <1>1, CrossingInvariant, PTL

------------------------------------------------------------------------------

(* The refinement, step by step: an evl_up_crossing() that drops the last  *)
(* reference stutters, its operation leaves the abstract zone when the     *)
(* work is queued, and a completed wait is the abstract Pass.              *)
LEMMA StepRefines == IInv /\ [Next]_vars => [Barrier!Next]_(Barrier!vars)
<1>. SUFFICES ASSUME IInv, [Next]_vars PROVE [Barrier!Next]_(Barrier!vars)
  OBVIOUS
<1>. DEFINE inside == {o \in Ops : op[o] # "out"}
<1>. USE DEF IInv
<1>0. ASSUME op' = op PROVE inside' = inside
  BY <1>0
<1>1. ASSUME NEW o \in Ops, Down(o) PROVE Barrier!Enter(o)
  BY <1>1 DEF Down, DownAllowed, Barrier!Enter, TypeOK
<1>2. ASSUME NEW o \in Ops, Up(o), oob_refs - 1 = 0
      PROVE  UNCHANGED Barrier!vars
  <2>1. inside' = inside
    BY <1>2 DEF Up, TypeOK
  <2>. QED
    BY <1>2, <2>1 DEF Up, Barrier!vars
<1>3. ASSUME NEW o \in Ops, Up(o), oob_refs - 1 # 0
      PROVE  Barrier!Leave(o)
  BY <1>3 DEF Up, Barrier!Leave, TypeOK
<1>4. ASSUME NEW o \in Ops, QueueOpening(o) PROVE Barrier!Leave(o)
  BY <1>4 DEF QueueOpening, Barrier!Leave, TypeOK
<1>5. CASE OpenCrossing
  BY <1>5 DEF OpenCrossing, Barrier!vars
<1>6. ASSUME PassCrossing PROVE Barrier!Close
  <2>1. Opening = {}
    BY <1>6 DEF PassCrossing, OpeningInv, NoOpening
  <2>2. inside = {} <=> InFlight = {}
    BY <2>1 DEF InFlight, Opening, TypeOK, OpState
  <2>3. oob_refs - 1 > 0 <=> inside # {}
    BY <1>6, <2>2, InFlightFinite DEF CountInv, PassCrossing
  <2>. QED
    BY <1>6, <2>3 DEF PassCrossing, Barrier!Close
<1>7. ASSUME WaitDone PROVE Barrier!Pass
  <2>1. Opening = {} /\ InFlight = {}
    BY <1>7 DEF WaitDone, OpeningInv, NoOpening, TypeOK
  <2>2. inside = {}
    BY <2>1 DEF InFlight, Opening, TypeOK, OpState
  <2>. QED
    BY <1>7, <2>2 DEF WaitDone, Barrier!Pass
<1>8. ASSUME ReinitCrossing PROVE Barrier!Reset
  BY <1>8 DEF ReinitCrossing, Barrier!Reset
<1>9. CASE UNCHANGED vars
  BY <1>9 DEF vars, Barrier!vars
<1>. QED
  BY <1>1, <1>2, <1>3, <1>4, <1>5, <1>6, <1>7, <1>8, <1>9
  DEF Next, Barrier!Next

(* The crossing implements the barrier of its header comment: the safety   *)
(* part of ImplementsBarrier, for every finite set of operations.          *)
THEOREM CrossingRefinesBarrier == Spec => Barrier!SafeSpec
<1>1. Init => Barrier!Init
  BY DEF Init, Barrier!Init
<1>. QED
  BY <1>1, StepRefines, CrossingInvariant, PTL DEF Spec, Barrier!SafeSpec
==============================================================================
