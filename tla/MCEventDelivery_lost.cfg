\* One dispatch that raises, and one message after it.
CONSTANTS
  orch1 = orch1  orch2 = orch2  gold1 = gold1  NoOne = NoOne
  r1 = r1  r2 = r2
  E = 2
  Keyed = {1, 2}
  Malformed = {}
  Spawned = {2}
  Publishers = {r1}
  Batch = 2
  Groups = {"orchestrator"}
  Gold = {}
  Subscribed <- Topics
  Consumers = {orch1}
  GroupOf <- TwoGroups
  Faults = {"dispatch"}
  MaxFaults = 1
SPECIFICATION Spec
INVARIANT CommittedWasDispatched
CHECK_DEADLOCK FALSE
