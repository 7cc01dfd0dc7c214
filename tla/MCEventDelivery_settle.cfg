\* Failures of the relay, of the assignment and of a commit, and what follows.
CONSTANTS
  orch1 = orch1  orch2 = orch2  gold1 = gold1  NoOne = NoOne
  r1 = r1  r2 = r2
  E = 2
  Keyed = {1, 2}
  Malformed = {}
  Spawned = {2}
  Publishers = {r1}
  Batch = 2
  Groups = {"orchestrator"}
  Gold = {}
  Subscribed <- Topics
  Consumers = {orch1, orch2}
  GroupOf <- TwoGroups
  Faults = {"send", "relay", "revoke", "commit"}
  MaxFaults = 2
SPECIFICATION FairSpec
PROPERTY Delivered
CHECK_DEADLOCK FALSE
