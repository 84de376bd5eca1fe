SPECIFICATION FairSpec
CONSTANTS
  Job = {j1}
  Worker = {w1, w2}
  Policy <- ThreeDeliveries
  Native <- NativeRetry
  Concurrency = 1
  BrokerLimit = 3
  MaxCount = 3
  MaxU16 = 65535
  MaxU32 = 65535
  MaxDuration = 65535
INVARIANTS
  RemovedIsAccountedFor
  DeadLetterIsExhausted
  ChannelsAndDelaysAgree
PROPERTIES
  EveryMessageLeaves
