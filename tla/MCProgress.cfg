SPECIFICATION FairSpec
CONSTANTS
  c1 = c1
  c2 = c2
  w1 = w1
  w2 = w2
  w3 = w3
  Msg = {m1}
  Consumer = {c1, c2}
  Worker = {w1, w2, w3}
  ConsumerOf <- MCConsumerOf
  None = None
  MaxU16 = 65535
  MaxU32 = 65535
  MaxDuration = 65535
INVARIANTS
  EffectExactlyOnce
PROPERTIES
  EverythingSettles
