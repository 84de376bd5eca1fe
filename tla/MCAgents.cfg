SPECIFICATION Spec
CONSTANTS
  Parts = {"pipeline", "tools", "cache", "once", "ingestion", "retrieval", "text", "sse", "batch", "exchange", "evaluation",
           "stdio", "sessions", "events", "context", "server", "listing"}
  Client = {a1, a2}
  Subject <- Subjects
  ChatRequest <- Requests
  MaxInput = 2
  MaxTools = 1
  MaxToolResults = 1
  UsageKey = {"k"}
  Usage = {1, 2, 3}
  MaxI64 = 2
  Runner = {1, 2}
  ToolName = {"t"}
  Risk = {"read_only", "privileged"}
  CallId = {"c1", "c2"}
  ToolKey = {"k"}
  Asker = {1, 2, 3}
  CacheKey = {"k1", "k2"}
  CacheTtl = 3
  TicksPerSecond = 2
  CacheCapacity = 1
  CacheHorizon = 4
  Handler = {1, 2}
  RunKey = {"k1", "k2"}
  CatalogId = {"a", "b"}
  LedgerCapacity = 1
  MaxDeliveries = 2
  Ingestor = {1}
  Document = {"d1", "d2"}
  ChunkLists <- ChunkAnswers
  MaxInputs = 2
  MaxContentBytes = 3
  Dimension = {2, 3}
  ScopeTenant = {"t1"}
  ScopeDocument = {"d1", "d2"}
  StoreAnswers <- StoredChunks
  MaxChunks = 2
  MaxContextBytes = 3
  Length = {0, 1, 128, 129, 255, 256, 512, 513, 524288, 524289}
  Count = {0, 3, 4}
  Bodies <- SseBodies
  MaxSseEventBytes = 10
  CustomId = {"a", "b", "c"}
  Endpoint = {"responses", "embeddings"}
  RowBytes = {1, 2, 3}
  MaxFileBytes = 6
  MaxRequests = 2
  MaxPushes = 3
  OutputFiles <- OutputLines
  EmbeddingBodies <- EmbeddingItems
  ExpectedEmbeddings = 2
  Caller = {1, 2}
  Ids = {1, 2}
  RequestBytes = {0, 1, 2}
  MaxRequestBytes = 1
  MaxBatchFileBytes = 1
  MaxResponseBytes = 2
  MaxDownloadBytes = 1
  ServiceAnswer <- HttpAnswers
  StdioCallers = {c1, c2}
  StdioOps = {"initialize", "restart", "close", "tool", "list"}
  OpsPerCaller = 2
  MaxChildren = 2
  MaxListPages = 2
  MaxInterleaved = 1
  RestartAttempts = 1
  NotesPerChild = 0
  HttpTasks = {h1, h2}
  HttpOps = {"initialize", "request", "close"}
  OpsPerTask = 2
  MaxSessions = 3
  RecoveryAttempts = 2
  EventLogs <- Logs
  EventLimit = 5
  ResumptionAttempts = 3
  NameBytes = 2
  UriBytes = 3
  MetadataBytes = 3
  MimeBytes = 2
  ServerBytes = 12
  ServerItems = 3
  ClientBytes = 5
  ClientItems = 2
  ContextStrings <- Strings
  ContentSizes = {0, 1, 2, 3, 4, 5, 6}
  MaxParts = 3
  McpRequests <- RequestsThatFail
  McpConnections = {1, 2}
  ResponseBytes = 512
  Resources = TRUE
  Prompts = FALSE
  ListingPages = 3
  ToolItems = 2
  ContextItems = 3
  Keys = {"k1", "k2", "k3", "k4"}
  Cursors = {"c1", "c2"}
  SuitesTried <- Suites
  InvalidIds = {""}
  MaxCases = 2
  GradesTried <- Grades
  InvalidLabels = {""}
  MaxScore = 10
  TokensTried = {0, 1, 3}
  MaxTokens = 5
CHECK_DEADLOCK FALSE
INVARIANTS
  WorkIsDoneOnce
  ProviderAnswersAreWhole
  
PROPERTIES
  SpendAndEffectsAreRecorded
  AnswersReachTheirCaller
