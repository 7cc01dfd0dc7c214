\* The same POST, with the same Idempotency-Key, twice.
CONSTANTS
  p1 = p1  p2 = p2  p3 = p3  p4 = p4
  N = 3
  Edges <- ChainEdges
  Gates = {}
  AutoGates = {}
  Levels <- OneLevel
  Effects = {1, 3}
  Dedup = {1, 3}
  Undoable = {1, 3}
  Decisions = {}
  Joins = {}
  HighRisk = FALSE
  Procs = {p1, p2}
  Requests <- Twice
  Logged = {}
  Faults = {}
  MaxFaults = 0
SPECIFICATION Spec
INVARIANT DedupOnce
CHECK_DEADLOCK FALSE
