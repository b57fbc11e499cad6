SPECIFICATION Spec
CONSTANTS
  d1 = d1
  d2 = d2
  d3 = d3
  d4 = d4
  t1 = t1
  t2 = t2
  v1 = v1
  v2 = v2
  None = None
  Callers = {q1, q2}
  Limit <- MCLimit
  Window <- MCWindow
  MaxArrivals = 4
  Horizon = 8
  Requests = {q1, q2}
  Ttl = 12
  Latency = 1
  MaxTime = 18
  Home = {d1, d2}
  Away = {d3, d4}
  Tenants <- MCTenants
  Me = t1
  Places = 3
  TopK = 2
  MaxIngests = 2
  Docs = {d1, d2}
  Versions = {v1, v2}
  MaxIds = 2
  Batches = {q1, q2}
  Files <- MCFiles
  MaxFiles = 2
  Cap = 2
  MaxMounts = 2
  Attempts = 3
  MaxBlocks = 3
  MaxDeltas = 2
  Providers = {"a", "b"}
  InputTypes = {"query", "passage"}
  CachedTexts = {"s", "t"}
  Prompts = {"p", "q"}
  Replies = {"yes", "no"}
  MaxBatch = 2
  MaxCalls = 3
  Schemas <- MCSchemas
  BlockLength = 2
  BlockWindow = 2
  MaxTokens = 2
  OverlapTokens = 1
  Floor = 1
  PerToken = 3
SYMMETRY Renamed
CONSTRAINTS
  TwoReplaced
  ReportUnderWay
INVARIANTS
  WindowsAreKept
  ReadsBelongTogether
  FieldsAreTrusted
  CutsLoseNothing
  TextsKeepTheirSense
  EvaluationIsFair
  BatchIsWhole
PROPERTIES
  ModelsAreHeardOnce
CHECK_DEADLOCK FALSE
