SPECIFICATION Spec
CONSTANTS
  Browser = {b1, b2}
  SessionId = {1, 2}
  NoId = 0
  Person = {p1, p2}
  SessionTtl = 1
  MaxSessions = 1
  SessionHorizon = 2
  Login = {l1, l2}
  LoginTtl = 1
  MaxTransactions = 1
  Validation = {v1, v2}
  k1 = k1
  Kid = {k1}
  Document <- KeyDocuments
  KeyTtl = 2
  RefreshInterval = 1
  FetchTimeout = 1
  KeyHorizon = 3
  o1 = o1
  o2 = o2
  Bearer = {c1, c2}
  Opaque = {o1, o2}
  TokenExp <- Expiries
  NoExp = NoExp
  TokenLeeway = 1
  AnswerTtl = 2
  MaxAnswers = 1
  AskTimeout = 1
  TokenHorizon = 4
  Admin = {a1, a2}
  Caller = {q1}
  RecordId = {1, 2, 3}
  ApiKey = {x1}
  PepperRing <- Ring
  Expiry = {0, 1}
  KeyClockHorizon = 1
  Layers <- Stacks
  Claimed <- Claims
  Tenants = {"t1", "t2"}
  NoTenant = "none"
  Invalid = "invalid"
  MaxValues = 2
  Required <- Requirement
  Grants <- RoleGrants
  TokenKeys = {t1, t2}
  TokenTasks = {r1, r2}
  TokenOps = {"refresh", "save", "revoke"}
  OpsPerTokenTask = 2
  MaxIssued = 3
  MaxTokenSets = 1
  Unrefreshable = {2}
  States = {s1, s2}
  MaxBegins = 3
  Callbacks = {y1, y2}
  TransactionTtl = 2
  AuthorizationEnd = 3
  MaxPending = 1
  Rings <- KeyRings
  ServerConfigs <- Resources
  OtherChallenges <- Challenges
  MetadataAnswers = {"document", "not_found", "error"}
  PlainSizes = {2, 3, 300, 65535, 65536, 65537}
  KeyIds = {n1, n2, n3}
  Records = {z1, z2}
  EnvelopeOverhead = 180
CHECK_DEADLOCK FALSE
PROPERTIES
  SessionsAreOwned
  
  AccessIsEntitled
  GrantsAreBound
