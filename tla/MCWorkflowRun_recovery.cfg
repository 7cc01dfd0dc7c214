\* A run that is interrupted, fails and is replayed.
CONSTANTS
  p1 = p1  p2 = p2  p3 = p3  p4 = p4
  N = 3
  Edges <- ChainEdges
  Gates = {2}
  AutoGates = {2}
  Levels <- OneLevel
  Effects = {1, 3}
  Dedup = {1}
  Undoable = {1, 3}
  Decisions = {}
  Joins = {}
  HighRisk = FALSE
  Procs = {p1, p2, p3, p4}
  Requests <- Recovery
  Logged = {"workflow_failed"}
  Faults = {"exec", "execlate", "write", "emit", "interrupt", "crash", "load", "missing", "undo"}
  MaxFaults = 2
SPECIFICATION Spec
INVARIANTS TypeOK ConsentBeforeEffect DedupOnce UndoneWasFired
PROPERTIES CompletedFiresNoMore TerminalLeftByRequest
CHECK_DEADLOCK FALSE
