\* A decision that comes while the run is still pausing.
CONSTANTS
  p1 = p1  p2 = p2  p3 = p3  p4 = p4
  N = 3
  Edges <- ChainEdges
  Gates = {2}
  AutoGates = {}
  Levels <- OneLevel
  Effects = {1, 3}
  Dedup = {1, 3}
  Undoable = {1, 3}
  Decisions = {}
  Joins = {}
  HighRisk = FALSE
  Procs = {p1, p2}
  Requests <- Recovery
  Logged = {}
  Faults = {}
  MaxFaults = 0
SPECIFICATION Spec
INVARIANT DecisionTakesEffect
CHECK_DEADLOCK FALSE
