\* A node placed before its predecessor.
CONSTANTS
  p1 = p1  p2 = p2  p3 = p3  p4 = p4
  N = 3
  Edges <- PlacedEdges
  Gates = {}
  AutoGates = {}
  Levels <- OneLevel
  Effects = {1, 3}
  Dedup = {1, 3}
  Undoable = {1, 3}
  Decisions = {}
  Joins = {}
  HighRisk = FALSE
  Procs = {p1}
  Requests <- Recovery
  Logged = {}
  Faults = {}
  MaxFaults = 0
SPECIFICATION Spec
INVARIANT RoutedAsDrawn
CHECK_DEADLOCK FALSE
