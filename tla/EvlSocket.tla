----------------------------- MODULE EvlSocket -----------------------------
(***************************************************************************)
(* The receive side of a socket (evl/net/socket.h, evl/poll_head.h): the   *)
(* memory charged for the packets in its input queue, and how those who    *)
(* poll the socket hear of a packet.                                       *)
(*                                                                         *)
(* Packets are alike, of TrueSize bytes, so a queue is a number of them.   *)
(* A watcher registers with the poll head, tests the queue, and sleeps on  *)
(* a flag of its own if it is empty: that, and the queue with its lock,    *)
(* are in .c files of the core.                                            *)
(***************************************************************************)
EXTENDS Integers, FiniteSets

CONSTANTS
  Handlers,     \* CPUs that deliver packets
  Watchers,
  TrueSize,     \* skb->truesize
  rmem_max

ASSUME SocketAssumption ==
  /\ IsFiniteSet(Handlers) /\ Handlers # {}
  /\ IsFiniteSet(Watchers)
  /\ TrueSize \in Nat \ {0}
  /\ rmem_max \in Nat

VARIABLES
  rmem_count,
  input,         \* packets in the input queue
  watchpoints,   \* the watchers in the list of the poll head
  deliver,       \* where each handler is
  watch,         \* where each watcher is
  notified       \* the watchers whose flag is raised

socketVars == <<rmem_count, input, watchpoints, deliver, watch, notified>>

SocketInit ==
  /\ rmem_count = 0
  /\ input = 0
  /\ watchpoints = {}
  /\ deliver = [c \in Handlers |-> "idle"]
  /\ watch = [p \in Watchers |-> "idle"]
  /\ notified = {}

-----------------------------------------------------------------------------
Delivers(c, from, to) ==
  deliver[c] = from /\ deliver' = [deliver EXCEPT ![c] = to]

Watches(p, from, to) ==
  watch[p] = from /\ watch' = [watch EXCEPT ![p] = to]

\* Mutant of MayCharge: a full queue takes one more packet.
MayCharge_Full == rmem_count <= rmem_max

\* The test of evl_charge_socket_rmem(): a packet is dropped if it fails.
MayCharge == rmem_count < rmem_max

TestRmem(c) ==
  /\ Delivers(c, "idle", "charge")
  /\ MayCharge
  /\ UNCHANGED <<rmem_count, input, watchpoints, watch, notified>>

\* And the addition, which is not atomic with the test.
evl_charge_socket_rmem(c) ==
  /\ Delivers(c, "charge", "queue")
  /\ rmem_count' = rmem_count + TrueSize
  /\ UNCHANGED <<input, watchpoints, watch, notified>>

QueueInput(c) ==
  /\ Delivers(c, "queue", "check")
  /\ input' = input + 1
  /\ UNCHANGED <<rmem_count, watchpoints, watch, notified>>

\* Mutant of evl_signal_poll_events(): the test is inverted.
evl_signal_poll_events_Inverted(c) ==
  /\ Delivers(c, "check", IF watchpoints = {} THEN "signal" ELSE "idle")
  /\ UNCHANGED <<rmem_count, input, watchpoints, watch, notified>>

\* The list is tested without its lock first.
evl_signal_poll_events(c) ==
  /\ Delivers(c, "check", IF watchpoints = {} THEN "idle" ELSE "signal")
  /\ UNCHANGED <<rmem_count, input, watchpoints, watch, notified>>

__evl_signal_poll_events(c) ==
  /\ Delivers(c, "signal", "idle")
  /\ notified' = notified \cup watchpoints
  /\ UNCHANGED <<rmem_count, input, watchpoints, watch>>

-----------------------------------------------------------------------------
evl_poll_watch(p) ==
  /\ Watches(p, "idle", "test")
  /\ watchpoints' = watchpoints \cup {p}
  /\ UNCHANGED <<rmem_count, input, deliver, notified>>

\* Nothing to read: sleep until the flag is raised, then test again.
TestInput(p) ==
  /\ Watches(p, "test", IF input = 0 THEN "asleep" ELSE "ready")
  /\ watchpoints' = IF input = 0 THEN watchpoints ELSE watchpoints \ {p}
  /\ UNCHANGED <<rmem_count, input, deliver, notified>>

Notified(p) ==
  /\ p \in notified
  /\ Watches(p, "asleep", "test")
  /\ notified' = notified \ {p}
  /\ UNCHANGED <<rmem_count, input, watchpoints, deliver>>

\* Another watcher may have read the packet by now.
Receive(p) ==
  /\ Watches(p, "ready", IF input = 0 THEN "idle" ELSE "uncharge")
  /\ input' = IF input = 0 THEN 0 ELSE input - 1
  /\ notified' = notified \ {p}
  /\ UNCHANGED <<rmem_count, watchpoints, deliver>>

evl_uncharge_socket_rmem(p) ==
  /\ Watches(p, "uncharge", "idle")
  /\ rmem_count' = rmem_count - TrueSize
  /\ UNCHANGED <<input, watchpoints, deliver, notified>>

SocketNext ==
  \/ \E c \in Handlers :
       \/ TestRmem(c) \/ evl_charge_socket_rmem(c) \/ QueueInput(c)
       \/ evl_signal_poll_events(c) \/ __evl_signal_poll_events(c)
  \/ \E p \in Watchers :
       \/ evl_poll_watch(p) \/ TestInput(p) \/ Notified(p)
       \/ Receive(p) \/ evl_uncharge_socket_rmem(p)

SocketSpec == SocketInit /\ [][SocketNext]_socketVars

-----------------------------------------------------------------------------
Delivering(step) == {c \in Handlers : deliver[c] = step}
Watching(step) == {p \in Watchers : watch[p] = step}

(***************************************************************************)
(* The memory charged is that of the packets on their way in, queued, or   *)
(* on their way out; and it exceeds the limit by less than one packet for  *)
(* each CPU that delivers some, which is what "an overflow of truesize - 1 *)
(* is allowed, not more" comes to when they charge concurrently.           *)
(***************************************************************************)
RmemBounded ==
  /\ rmem_count = TrueSize * (Cardinality(Delivering("queue")) + input
                                + Cardinality(Watching("uncharge")))
  /\ rmem_count < rmem_max + Cardinality(Handlers) * TrueSize

(***************************************************************************)
(* No watcher sleeps on a queue with a packet in it, unless its flag is    *)
(* raised or a handler is about to look at the list of watchers: the test  *)
(* without the lock misses nobody.                                         *)
(***************************************************************************)
PollNotMissed ==
  \A p \in Watching("asleep") :
    input > 0 /\ p \notin notified =>
      \/ Delivering("check") # {}
      \/ Delivering("signal") # {}
=============================================================================
