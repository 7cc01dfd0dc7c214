\* A stop racing the end of its run, or its failure and its replay.
CONSTANTS
  p1 = p1  p2 = p2  p3 = p3  p4 = p4
  N = 3
  Edges <- ChainEdges
  Gates = {}
  AutoGates = {}
  Levels <- OneLevel
  Effects = {1, 3}
  Dedup = {1, 3}
  Undoable = {1, 3}
  Decisions = {}
  Joins = {}
  HighRisk = FALSE
  Procs = {p1, p3, p4}
  Requests <- Recovery
  Logged = {}
  Faults = {"exec"}
  MaxFaults = 1
SPECIFICATION Spec
PROPERTY EndedStaysEnded
CHECK_DEADLOCK FALSE
