\* Everybody at once: duplicate starts, racing persons, oversight, failures.
CONSTANTS
  p1 = p1  p2 = p2  p3 = p3  p4 = p4
  N = 3
  Edges <- ChainEdges
  Gates = {2}
  AutoGates = {}
  Levels <- TwoLevels
  Effects = {3}
  Dedup = {3}
  Undoable = {3}
  Decisions = {}
  Joins = {}
  HighRisk = TRUE
  Procs = {p1, p2, p3, p4}
  Requests <- Crowd
  Logged = {}
  Faults = {"exec", "write", "check", "crash", "sla"}
  MaxFaults = 1
SPECIFICATION Spec
INVARIANTS ConsentInv OversightBeforeEffect
SYMMETRY CrowdSymmetry
CHECK_DEADLOCK FALSE
