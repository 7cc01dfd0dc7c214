\* One run through branches and a chained gate, with persons racing it.
CONSTANTS
  p1 = p1  p2 = p2  p3 = p3  p4 = p4
  N = 6
  Edges <- BranchEdges
  Gates = {3}
  AutoGates = {}
  Levels <- BranchLevels
  Effects = {1, 4, 5}
  Dedup = {}
  Undoable = {1, 4}
  Decisions = {2}
  Joins = {6}
  HighRisk = FALSE
  Procs = {p1, p2, p3, p4}
  Requests <- OneRun
  Logged = {}
  Faults = {"exec", "branch", "sla"}
  MaxFaults = 1
SPECIFICATION FairSpec
INVARIANTS EveryLevelSigned EffectOnce RoutedAsDrawn OneArm WaitingHasNode CompletedKeepsEffects StopUndoes
PROPERTIES RunSettles
CHECK_DEADLOCK FALSE
