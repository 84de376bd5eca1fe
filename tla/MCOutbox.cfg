SPECIFICATION Spec
CONSTANTS
  m1 = m1
  m2 = m2
  m3 = m3
  Msg = {m1, m2}
  Producer = {p1}
  Relay = {r1, r2}
  Token = {t1, t2, t3, t4}
  None = None
  Priority <- MCPriority
  BatchSize = 2
  SqlAccepted = TRUE
SYMMETRY Symmetry
INVARIANTS
  RepeatedOnlyAfterFault
  OneOwner
PROPERTIES
  ConfirmedIsFinal
  LeaseIsRespected
  ImplementsAtLeastOnce
