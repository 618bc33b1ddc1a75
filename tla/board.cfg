SPECIFICATION Spec
CONSTANTS
  Parts = {"board", "scrape", "ops", "envelope", "rows"}
  Doc <- SomeDoc
  JobDoc = {"snapshot", "graph"}
  MaxAttempt = 2
  MaxCommit = 2
  MaxJobs = 1
  WorkRow = {1, 2, 3}
  NoSuchRow = 9
  AnalysisCap = {2, 3}
  NodeId = {1, 2, 3}
  EdgeChoice <- SomeEdges
  NodeCap = {1, 2, 3}
  EdgeCap = {1, 3}
  ByteCap = {3, 20}
  NodeUnit = 2
  Listed = {1, 2, 3}
  Chunk = 1
  Wanted = {{}, {"running"}}
  Limits = {0, 2}
  MaxMoment = 2
  MaxTouched = 1
INVARIANTS BoardReadsAgree GraphAccounts
PROPERTY EventuallyOnBoard
CHECK_DEADLOCK FALSE
