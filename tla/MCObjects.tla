----------------------------- MODULE MCObjects -----------------------------
(***************************************************************************)
(* Objects of the core that share no state: timers, the scheduling classes *)
(* of threads, the locks of threads, elements with their work, sockets.    *)
(* Interleaving steps of two of them would show nothing new: in each       *)
(* behaviour the one in focus runs, and the others stay in one of their    *)
(* initial states.                                                         *)
(***************************************************************************)
EXTENDS EvlTimer, SchedClasses, EvlThread, EvlElement, EvlSocket

VARIABLE focus

objectVars == <<timerVars, classVars, threadVars, elemVars, socketVars, focus>>

\* Two timers, a of a thread that changes runqueues, b the in-band tick.
MCFlags == [t \in Timers |-> IF t = "b" THEN {"KGRAVITY"} ELSE {}]
MCRq == [t \in Timers |-> IF t = "a" THEN 0 ELSE 1]
MCGravity == [irq |-> 0, kernel |-> 1, user |-> 2]
MCClients == {<<0, "a">>, <<1, "b">>}

Still ==
  /\ focus # "timers" => scalable
  /\ focus # "elements" => ~safe
  /\ focus # "locks" => \A t, u \in Addresses :
       thread_rq[t] = 1 /\ wprio[t] = 1

ObjectsInit ==
  /\ focus \in {"timers", "classes", "locks", "elements", "sockets"}
  /\ TimerInit /\ ClassInit /\ ThreadInit /\ ElementInit /\ SocketInit
  /\ Still

ObjectsNext ==
  /\ UNCHANGED focus
  /\ \/ /\ focus = "timers"
        /\ TimerNext
        /\ UNCHANGED <<classVars, threadVars, elemVars, socketVars>>
     \/ /\ focus = "classes"
        /\ ClassNext
        /\ UNCHANGED <<timerVars, threadVars, elemVars, socketVars>>
     \/ /\ focus = "locks"
        /\ ThreadNext
        /\ UNCHANGED <<timerVars, classVars, elemVars, socketVars>>
     \/ /\ focus = "elements"
        /\ ElementNext
        /\ UNCHANGED <<timerVars, classVars, threadVars, socketVars>>
     \/ /\ focus = "sockets"
        /\ SocketNext
        /\ UNCHANGED <<timerVars, classVars, threadVars, elemVars>>

ObjectsSpec == ObjectsInit /\ [][ObjectsNext]_objectVars
=============================================================================
