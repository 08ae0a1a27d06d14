-------------------------- MODULE AtLeastOnceQueue --------------------------
(***************************************************************************)
(* What the outbox promises its producers, with workers, leases, retries   *)
(* and clocks left out: an accepted event stays queued until it is         *)
(* acknowledged after a delivery, or buried after enough attempts; it is   *)
(* never lost, and never leaves the state it settled in.  Deliveries may   *)
(* repeat, also after the event has settled.                               *)
(***************************************************************************)
EXTENDS Integers

CONSTANTS
  Events,       \* the events producers may enqueue
  Deliverable,  \* those some handler accepts
  Limit         \* attempts before an event may be buried

VARIABLES
  state,      \* where each event is
  tries,      \* attempts started for it
  delivered   \* the attempts that delivered it

vars == <<state, tries, delivered>>

States == {"ABSENT", "QUEUED", "DONE", "DEAD"}

Init ==
  /\ state = [e \in Events |-> "ABSENT"]
  /\ tries = [e \in Events |-> 0]
  /\ delivered = [e \in Events |-> {}]

Enqueue(e) ==
  /\ state[e] = "ABSENT"
  /\ state' = [state EXCEPT ![e] = "QUEUED"]
  /\ UNCHANGED <<tries, delivered>>

(* Attempts start for any batch of queued events. *)
Attempt(S) ==
  /\ S # {}
  /\ \A e \in S : state[e] = "QUEUED"
  /\ tries' = [e \in Events |-> IF e \in S THEN tries[e] + 1 ELSE tries[e]]
  /\ UNCHANGED <<state, delivered>>

(* An attempt delivers at most once, possibly after the event has settled. *)
Deliver(e, n) ==
  /\ e \in Deliverable
  /\ n \in 1..tries[e]
  /\ n \notin delivered[e]
  /\ delivered' = [delivered EXCEPT ![e] = @ \cup {n}]
  /\ UNCHANGED <<state, tries>>

Acknowledge(e) ==
  /\ state[e] = "QUEUED"
  /\ delivered[e] # {}
  /\ state' = [state EXCEPT ![e] = "DONE"]
  /\ UNCHANGED <<tries, delivered>>

Bury(e) ==
  /\ state[e] = "QUEUED"
  /\ tries[e] >= Limit
  /\ state' = [state EXCEPT ![e] = "DEAD"]
  /\ UNCHANGED <<tries, delivered>>

Next ==
  \/ \E e \in Events : Enqueue(e) \/ Acknowledge(e) \/ Bury(e)
  \/ \E e \in Events : \E n \in 1..tries[e] : Deliver(e, n)
  \/ \E S \in SUBSET Events : Attempt(S)

Spec == Init /\ [][Next]_vars

=============================================================================
