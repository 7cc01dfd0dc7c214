\* Two relays, two groups, one of them with two members, and two failures.
CONSTANTS
  orch1 = orch1  orch2 = orch2  gold1 = gold1  NoOne = NoOne
  r1 = r1  r2 = r2
  E = 3
  Keyed = {1, 2}
  Malformed = {3}
  Spawned = {2}
  Publishers = {r1, r2}
  Batch = 2
  Groups = {"orchestrator", "aggregator"}
  Gold = {"aggregator"}
  Consumers = {orch1, orch2, gold1}
  Subscribed <- Topics
  GroupOf <- TwoGroups
  Faults = {"direct", "send", "relay", "revoke", "deadletter", "dispatch", "commit", "task", "crash"}
  MaxFaults = 1
SPECIFICATION Spec
INVARIANTS TypeOK PublishedInTopic ResentOnlyAfterFault OnceInv
PROPERTY OnceSpec
SYMMETRY Peers
CHECK_DEADLOCK FALSE
