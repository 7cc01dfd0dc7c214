SPECIFICATION BuilderPlays
CONSTANTS
  c1 = c1   c2 = c2   c3 = c3   c4 = c4   f1 = f1   f2 = f2
  u1 = u1   t1 = t1   t2 = t2   h1 = h1   h2 = h2   r1 = r1   r2 = r2   r3 = r3
  file1 = file1   file2 = file2   content = content
  mail1 = mail1   poller1 = poller1   poller2 = poller2
  caller1 = caller1   caller2 = caller2   caller3 = caller3
  party1 = party1   party2 = party2   party3 = party3
  attempt1 = attempt1   attempt2 = attempt2   attempt3 = attempt3
  worker1 = worker1   worker2 = worker2   pod1 = pod1   pod2 = pod2
  NoCard = NoCard
  Cards = {c1, c2, c3, c4}
  FirstCards = {c1, c2, c3}
  Forks = {c1, c3}
  Edited = {c1}
  Fields = {f1, f2}
  Configured = {f1}
  MaxEdits = 3
  MaxOps = 2
  MaxActs = 2
  MaxFailures = 1
  Users = {u1}
  Tabs = {t1, t2}
  Holders = {h1, h2}
  Requests = {r1, r2, r3}
  TabOf <- MCTabOf
  HolderOf <- MCHolderOf
  Clearing = {h2}
  MaxTokens = 3
  MaxMoves = 2
  MaxTurns = 3
  MaxLines = 7
  Files = {file1, file2}
  ContentOf <- MCContentOf
  Hashable = {file1}
  NoAnswer = NoAnswer
  MaxPolls = 2
  MaxSent = 2
  MaxFaults = 1
  MaxReads = 2
  MaxMisses = 1
  Callers = {caller1, caller2, caller3}
  Windows = {1, 2}
  Amount <- MCAmount
  MaxValue = 3
  Parties = {party1, party2, party3}
  Order <- MCOrder
  Required = 3
  MaxRequests = 3
  MaxSends = 2
  Mails = {mail1}
  Pollers = {poller1, poller2}
  MaxAttempts = 2
  MaxDeaths = 1
  Attempts = {attempt1, attempt2, attempt3}
  Workers = {worker1, worker2}
  WorkerOf <- MCWorkerOf
  MaxLapses = 2
  Pods = {pod1, pod2}
  Ttl = 3
  DayBeats = 4
  MaxDays = 4
  MaxByHand = 1
  MaxTroubles = 2
INVARIANT PendingKeepsEdits
CHECK_DEADLOCK FALSE
