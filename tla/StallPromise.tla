---------------------------- MODULE StallPromise ----------------------------
(***************************************************************************)
(* What disabling interrupts means to in-band code, whatever is done to    *)
(* the hardware: no handler runs while they are disabled, handlers run one *)
(* at a time, and an interrupt waits, raised or logged, until handled.     *)
(***************************************************************************)
CONSTANT Irqs

VARIABLES masked,    \* did in-band code disable interrupts?
          waiting,   \* raised
          logged,    \* received, not handled
          handling   \* the interrupt being handled, if any

promise == <<masked, waiting, logged, handling>>

Init == masked = FALSE /\ waiting = {} /\ logged = {} /\ handling = {}

SetMask(b) ==
  /\ handling = {}
  /\ masked' = b
  /\ UNCHANGED <<waiting, logged, handling>>

Arrive(i) ==
  /\ waiting' = waiting \cup {i}
  /\ UNCHANGED <<masked, logged, handling>>

Receive(i) ==
  /\ i \in waiting
  /\ waiting' = waiting \ {i}
  /\ logged' = logged \cup {i}
  /\ UNCHANGED <<masked, handling>>

\* The handler runs, from the log or at once.
Handle(i) ==
  /\ ~masked
  /\ handling = {}
  /\ handling' = {i}
  /\ \/ /\ i \in logged
        /\ logged' = logged \ {i}
        /\ UNCHANGED waiting
     \/ /\ i \in waiting
        /\ waiting' = waiting \ {i}
        /\ UNCHANGED logged
  /\ UNCHANGED masked

Done ==
  /\ handling' = {}
  /\ UNCHANGED <<masked, waiting, logged>>

Next ==
  \/ \E b \in BOOLEAN : SetMask(b)
  \/ \E i \in Irqs : Arrive(i) \/ Receive(i) \/ Handle(i)
  \/ Done

Spec == Init /\ [][Next]_promise
=============================================================================
