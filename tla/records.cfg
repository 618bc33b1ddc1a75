SPECIFICATION RecordsSpec
CONSTANTS
  Parts = {"rows", "authority", "facts", "memory", "documents", "index", "reconcile", "validate", "room",
           "releases", "rates", "queries", "search"}
  Row = {w1, w2}
  RowSession = {"a1"}
  ParentWalk = 1
  MaxSteps = 8
  Subject = {w1, w2}
  Manifest = {"m1", "m2"}
  Ruling = {"op1", "op2"}
  Controller = {"c1"}
  MaxVersion = 4
  Fact = {f1, f2, f3}
  MaxFactTime = 1
  Note = {n1, n2}
  Text = {"a"}
  Publisher = {p1, p2}
  MaxBuilt = 2
  MaxSwaps = 2
  MaxLines = 5
  MaxBytes = 6
  AtomBytes = 3
  File = {"n1", "n2"}
  Revision = {"r1", "r2"}
  MaxMtime = 2
  TestFile = {1, 2, 3}
  Heavy = {3}
  Weight <- FileWeight
  ShardCap = 2
  MinShards = 1
  TreeInit <- GreenOrRed
  MaxEdits = 1
  MaxGateRuns = 2
  Name = {1, 2, 3}
  Inode = {1, 2, 3}
  LinkedOutside = {3}
  DestRoot <- Rooms
  SourceRoot <- Repo
  StoreInit <- Stores
  MaxWrites = 3
  MaxBuilds = 2
  Release = {1, 2, 3, 4}
  KeepRollback = 1
  MaxComplete = 3
  MaxPrepared = 2
  MaxTouches = 1
  Model = {"opus", "gpt", "new"}
  ProviderOf <- ByProvider
  VendoredRate <- OnCard
  Catalogs <- Served
  MinModels = 2
  RateFactor = 3
  Asker = {"a1", "a2"}
  Interval = 2
  RetryAfter = 2
  MaxTime = 4
  QRow = {1, 2, 3}
  QStream = {1, 2}
  QPlane = {1, 2}
  Pins = {"pinned", "valued"}
  FirstBoards <- Boards
  Filters <- Asked
  PageCap = 1
  MaxSeq = 1
  Provider <- AllProviders
  Entry <- Entries
  StockInit <- Stocked
  ProviderLimit = 2
  MaxHits = 3
  MaxMoves = 1
INVARIANTS PointersStand PagedMeansSeen SearchIsHonest
PROPERTIES RowsKept RollbackSawAll KnowledgeStands EvidenceIsReal RatesStand
CHECK_DEADLOCK FALSE
