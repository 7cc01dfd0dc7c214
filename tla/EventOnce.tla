------------------------------ MODULE EventOnce ------------------------------
(***************************************************************************)
(* What the outbox and the processed_events table promise together         *)
(* (shared/outbox.py, migration 009): an event exists if and only if the   *)
(* business transaction it was written in committed, and each consumer     *)
(* group handles it at most once, however often it is sent or delivered.   *)
(***************************************************************************)
EXTENDS Naturals

CONSTANTS
  Offers,  \* events that are written to the outbox
  Readers  \* consumer groups

VARIABLES
  offered,  \* events whose transaction committed
  count     \* count[g][e]: how often group g has handled event e

Init == offered = {} /\ count = [g \in Readers |-> [e \in Offers |-> 0]]

Offer(e) == offered' = offered \cup {e} /\ UNCHANGED count

Handle(g, e) ==
  /\ e \in offered /\ count[g][e] = 0
  /\ count' = [count EXCEPT ![g][e] = 1]
  /\ UNCHANGED offered

Next == \E e \in Offers : Offer(e) \/ \E g \in Readers : Handle(g, e)

Spec == Init /\ [][Next]_<<offered, count>>

==============================================================================
