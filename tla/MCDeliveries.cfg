SPECIFICATION DeliveriesSpec
CONSTANTS
  g1 = g1
  Events = 2
  Group = {g1}
  Member = {m1, m2}
  GroupOf <- OneGroup
  MaxDeliveries = 2
  Relay = {r1, r2}
  BatchSize = 2
  MaxFaults = 1
  Nobody = Nobody
  j1 = j1
  j2 = j2
  RedisJob = {j1, j2}
  Malformed = {j2}
  Worker = {w1, w2}
  None = None
  Policy <- TwoDeliveries
  Concurrency = 2
  MaxCount = 2
  MaxU16 = 65535
  MaxU32 = 65535
  MaxDuration = 65535
SYMMETRY WorkerSymmetry
INVARIANTS
  CommittedIsAccountedFor
  RetryCopies
  DeadIsExhausted
  JobsAreKept
