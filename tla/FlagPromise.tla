------------------------------ MODULE FlagPromise ------------------------------
(***************************************************************************)
(* What an EVL flag promises its users: a raise stays until one thread     *)
(* takes it (or somebody clears it), a thread that returns with success    *)
(* took it, and a thread may leave without it only because its wait was    *)
(* cut short.                                                              *)
(***************************************************************************)
CONSTANT Threads

VARIABLES raised,    \* the event occurred and nobody took it
          waiting,   \* the threads which called and did not return
          served     \* those whose last call returned with the event

promiseVars == <<raised, waiting, served>>

Init == raised = FALSE /\ waiting = {} /\ served = {}

Raise == raised' = TRUE /\ UNCHANGED <<waiting, served>>
Clear == raised' = FALSE /\ UNCHANGED <<waiting, served>>

Call(t) ==
  /\ waiting' = waiting \cup {t}
  /\ served' = served \ {t}
  /\ UNCHANGED raised

\* t takes the event, on entry or after a wait.
Take(t) ==
  /\ raised
  /\ raised' = FALSE
  /\ waiting' = waiting \ {t}
  /\ served' = served \cup {t}

(***************************************************************************)
(* t leaves without it: timeout, broadcast, forced out, flag deleted, or a *)
(* call which does not wait while there is nothing to take.                *)
(***************************************************************************)
Leave(t) ==
  /\ t \in waiting \/ ~raised
  /\ waiting' = waiting \ {t}
  /\ served' = served \ {t}
  /\ UNCHANGED raised

Served == \E t \in waiting : Take(t)

Next ==
  \/ Raise
  \/ Clear
  \/ \E t \in Threads : Call(t) \/ Take(t) \/ Leave(t)

SafeSpec == Init /\ [][Next]_promiseVars

\* An event for which a thread waits does not stay unnoticed.
Spec == SafeSpec /\ WF_promiseVars(Served)
==============================================================================
