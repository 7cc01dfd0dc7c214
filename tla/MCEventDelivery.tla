--------------------------- MODULE MCEventDelivery ---------------------------
(***************************************************************************)
(* Instances of EventDelivery for TLC.                                     *)
(***************************************************************************)
EXTENDS EventDelivery, TLC

CONSTANTS orch1, orch2, gold1, r1, r2

\* The orchestrator has two members, the aggregator one.
TwoGroups == [c \in Consumers |-> IF c = gold1 THEN "aggregator"
                                               ELSE "orchestrator"]

\* The aggregator listens to silver.complete only.
Topics == [g \in Groups |-> IF g \in Gold THEN Spawned ELSE Events]

\* Members of a group are interchangeable, and publishers are (in runs that
\* check no liveness).
Peers == Permutations({orch1, orch2}) \cup Permutations({r1, r2})

==============================================================================
