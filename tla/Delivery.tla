------------------------------ MODULE Delivery ------------------------------
(***************************************************************************)
(* What the outbox and its audit consumer promise together: an event is    *)
(* owed from the moment its payment commits; it has at most one effect; it *)
(* is done only once it had that effect; and it leaves the queue undone    *)
(* only by being parked for an operator, who may put it back.              *)
(* Outbox is shown to implement this specification.                        *)
(***************************************************************************)
CONSTANT Events

VARIABLES
  state,   \* [Events -> {"none", "owed", "parked", "done"}]
  applied  \* SUBSET Events, those that had their effect

vars == <<state, applied>>

Init ==
  /\ state = [e \in Events |-> "none"]
  /\ applied = {}

Change(e, from, to) ==
  /\ state[e] = from
  /\ state' = [state EXCEPT ![e] = to]
  /\ UNCHANGED applied

Owe(e) == Change(e, "none", "owed")

Park(e) == Change(e, "owed", "parked")

\* A delivery that was under way when the event was parked may still succeed.
Apply(e) ==
  /\ state[e] \in {"owed", "parked"}
  /\ e \notin applied
  /\ applied' = applied \cup {e}
  /\ UNCHANGED state

Complete(e) == e \in applied /\ Change(e, "owed", "done")

Replay(S) ==
  /\ \A e \in S : state[e] = "parked"
  /\ state' = [e \in Events |-> IF e \in S THEN "owed" ELSE state[e]]
  /\ UNCHANGED applied

Next ==
  \/ \E e \in Events : Owe(e) \/ Park(e) \/ Apply(e) \/ Complete(e)
  \/ \E S \in SUBSET Events : Replay(S)

Spec == Init /\ [][Next]_vars
=============================================================================
