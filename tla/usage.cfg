SPECIFICATION UsageSpec
CONSTANTS
  Parts = {"claude", "codex", "ledger", "cache", "processes", "accounts", "replica"}
  ClaudeFile = {"c1", "c2"}
  CodexFile = {"x1"}
  ClaudeRequest = {1}
  CodexRequest = {2, 3}
  Scanner = {"s1"}
  Day = {1}
  MaxTokens = 2
  MaxEvents = 3
  MaxEdits = 3
  Source = {"s1"}
  Observation <- TwoReadings
  Item <- OneItem
  Caller = {"a"}
  MaxCommits = 4
  MaxAnchors = 1
  MaxUsage = 1
  MaxScans = 1
  Account = {"a", "b"}
  FirstAccount = "a"
  Process = {"p1", "p2"}
  SeriesDay = {1, 2}
  MaxStamp = 4
  MaxSwitches = 2
  Src = {"f", "d"}
  Database = {"d"}
  Optional = {"f"}
  Volume <- ThreeVolumes
  MaxWritten = 2
  MaxAttempts = 2
  MaxGenerations = 1
INVARIANTS  VerifiedMeansKept
PROPERTIES FilesUntorn DashboardCatchesUp
CHECK_DEADLOCK FALSE
