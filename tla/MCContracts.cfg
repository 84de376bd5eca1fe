SPECIFICATION ContractsSpec
CONSTANTS
  Jobs <- JobTypes
  JobKeys <- KeysTried
  JobTraces <- TracesTried
  JobPayloads = {1, 4}
  JobSpace = 8
  JobNameSpace = 2
  JobKeySpace = 2
  JobTraceSpace = 2
  JobAttempts = 2
  ForeignJobs <- ForeignJobsTried
  EventContracts <- EventTypes
  PartitionKeys <- PartitionKeysTried
  MetadataIds <- KeysTried
  EventTraces <- TracesTried
  EventPayloads = {1, 4}
  EventSpace = 8
  EventTypeSpace = 2
  MetadataIdSpace = 2
  EventTraceSpace = 2
  ForeignEvents <- ForeignEventsTried
  Deployments = {1, 2}
  CatalogsTried <- CatalogsSeen
  RemoteAnswers <- AnswersSeen
  AnswerSpace = 2
  SchemaSpace = 2
  SubjectSpace = 2
  SchemaTypeSpace = 2
  RemotePolicies = {"full", "none"}
  StreamWorkers = {s1, s2}
  Changes = 3
  OversizedTokens = {2}
  LeaseTicks = 2
  StreamClock = 4
  Tenants = {"t1", "t2"}
  Slots = {1, 2}
  Fields = {"a", "b"}
  UpdatesTried <- UpdatesSeen
  StageTargets <- TargetsSeen
  CacheClients = {c1, c2}
  ValueSizes = {1, 3}
  ValueLimit = 2
  TtlsTried = {0, 1, 2}
  MaxTtl = 1
  CacheClock = 1
  MaxWrites = 3
  MetadataSpace = 2
  SchemaLimit = 2
  Identifiers <- IdentifiersSeen
  Labels <- LabelsSeen
  ParameterNames <- ParameterNamesSeen
  SchemesTried <- SchemesSeen
  RequirementsTried <- RequirementsSeen
  SchemasTried <- SchemasSeen
  RoutesTried <- RoutesSeen
  MaxCalls = 4
  Tasks = {t1, t2}
  Providers = {"redis", "sqs", "other"}
  DirectLabels = 1
  Durations = {1, 3}
  BucketsTried <- BucketsSeen
  MaxBuckets = 2
  CounterMax = 3
  MaxStarts = 4
  TicksPerSecond = 2
  MaxVisibilitySeconds = 9
  MaxLongPollSeconds = 1
  DefaultLease <- LeaseDefault
  DurationsTried = {0, 2, 3, 4, 5, 6, 8}
  ReceiveDelays = {0, 2}
  MaxU16 = 65535
  MaxU32 = 65535
  MaxDuration = 65535
  MilliTicks = 2
  NativeDelays = {0, 1, 2, 3, 6, 8}
  PoliciesTried <- PoliciesSeen
  NamesTried <- NamesSeen
  NameSpace = 2
  ManagementTried <- ManagementSeen
  QueuesTried <- QueuesSeen
  AuditAnswers <- AuditAnswersSeen
  LagPartitions = {"p1", "p2"}
  MaxOffset <- OffsetsSeen
  SnapshotLimits = {1, 2}
CHECK_DEADLOCK FALSE
INVARIANTS
  SettingsAreHonest
PROPERTIES
  ContractsAreKept
  CheckpointIsSafe
  SharedDataIsKept
  DescriptionsAreTrue
