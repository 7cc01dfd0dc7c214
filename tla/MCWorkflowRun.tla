---------------------------- MODULE MCWorkflowRun ----------------------------
(***************************************************************************)
(* Instances of WorkflowRun for TLC.                                       *)
(***************************************************************************)
EXTENDS WorkflowRun, TLC

CONSTANTS p1, p2, p3, p4

Edge(s, d, a) == [src |-> s, dst |-> d, arm |-> a]

(* "Branches": an effect, a decision, on its true arm a gate with a chain of *)
(* two levels before another effect, on its false arm a third effect, and a  *)
(* join that needs the first effect and the second.                          *)
BranchEdges ==
  {Edge(1, 2, "plain"), Edge(2, 3, "true"), Edge(3, 4, "plain"),
   Edge(2, 5, "false"), Edge(1, 6, "plain"), Edge(4, 6, "plain")}
BranchLevels == [n \in 1..6 |-> IF n = 3 THEN 2 ELSE 1]

\* One start, two persons who approve or reject, one who stops.
OneRun == [p \in Procs |-> CASE p = p1 -> {"start"}
                             [] p \in {p2, p3} -> {"approve", "reject"}
                             [] OTHER -> {"stop"}]

(* "Chain": an e-mail, a gate that may let itself through, and a call.      *)
ChainEdges == {Edge(1, 2, "plain"), Edge(2, 3, "plain")}
\* The same three nodes, the last drawn before the one in the middle.
PlacedEdges == {Edge(1, 3, "plain"), Edge(3, 2, "plain")}
OneLevel == [n \in Nodes |-> 1]
TwoLevels == [n \in Nodes |-> IF n = 2 THEN 2 ELSE 1]

\* One start, one decision, one replay of the failed run, and one stop.
Recovery == [p \in Procs |-> CASE p = p1 -> {"start"}
                               [] p = p2 -> {"approve", "reject"}
                               [] p = p3 -> {"replay"}
                               [] OTHER -> {"stop"}]

\* The same start, sent twice.
Twice == [p \in Procs |-> {"start"}]

\* A start, and three more requests of any kind: the same POST sent again,
\* persons who race each other and the run.
Crowd == [p \in Procs |-> IF p = p1 THEN {"start"} ELSE Asks]

\* The crowd is interchangeable (its run checks no liveness).
CrowdSymmetry == Permutations({p2, p3, p4})

==============================================================================
