SPECIFICATION WebSpec
CONSTANTS
  Exchanges = {"x1", "x2"}
  RequestBodies = {1, 3}
  MaxTestRequest = 2
  MaxTestResponse = 3
  MaxCookieCount = 2
  MaxCookieBytes = 9
  Answers <- WebAnswers
  MaxAbsorbed = 3
  TraceRequests = {"r1", "r2"}
  TraceFieldsTried <- WebTraceFields
  LayerOrders = {"traceOutside", "traceInside", "noTrace"}
  MaxTraceparentLen = 2
  MaxTracestateLen = 3
  MaxCarriers = 1
  HttpConns = {h1, h2, h3}
  MaxConnections = 2
  MaxInFlight = 1
  MaxBodyBytes = 1
  BodySizes = {0, 1, 2}
  MaxAsked = 2
  Parameters = {":p", ":q"}
  BadParameter = ":"
  RoutePaths <- WebRoutePaths
  NestPrefixes <- WebPrefixes
  RequestPaths <- WebPaths
  RouteMethods = {"GET", "POST"}
  Apps = {1, 2}
  MaxRoutes = 2
  MaxMounts = 2
  MaxExtractors = 2
  AcceptItems <- WebAccept
  MaxAccept = 2
  InnerHeaders <- WebHeaders
  InnerFrames <- WebFrames
  DiskStates <- WebDisks
  FileLengths = {0, 2, 4}
  MaxFileBytes = 4
  StaticSettings <- WebSettings
  StaticRequests <- WebFileRequests
  MaxMultipartRanges = 2
  MaxRangeMembers = 3
  PartHeaderBytes = 3
  MaxFileChanges = 1
  AddressBits = 3
  ProxyNetworks <- WebNetworks
  MaxNetworks = 2
  ChainHops = {0, 1, 2}
  ForwardedHeaders <- WebChains
  EdgeRequests <- WebEdgeRequests
  LimitKeys = {k1}
  Windows <- WebWindows
  TicksPerSecond = 2
  MaxTicks = 5
  Objects <- WebObjects
  Variables <- WebVariables
  MaxVariables = 2
  MaxPathSegments = 2
CHECK_DEADLOCK FALSE
INVARIANTS
  ServerIsAccountable
  ApplicationIsConsistent
  ContentIsExact
  
