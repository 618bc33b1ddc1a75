SPECIFICATION ServicesSpec
CONSTANTS
  Parts = {"queue", "jobs", "reader", "custody", "loops", "evidence", "tokens", "advice"}
  wr1 = wr1
  wr2 = wr2
  f1 = f1
  f2 = f2
  Nobody = Nobody
  Writer = {wr1, wr2}
  Flusher = {f1, f2}
  Locked = TRUE
  MaxWrites = 4
  Launcher = {"l1", "l2"}
  MaxCustody = 2
  Wrapper = {"w1", "w2"}
  MaxStamp = 5
  Runner = {"l1", "l2"}
  RunOf <- OneRun
  Signature = {"x", "y"}
  MaxIterations = 3
  StagnationLimit = 2
  Recorder = {"r1", "r2"}
  UsageId = {"u1", "u2"}
  RunId = {"loop", "job", "sidecar"}
  Aliases <- JobAliases
  Verb = {"claim", "done"}
  EventLimits = {2, 9}
  MaxReports = 3
  AdviceRow = {1, 2, 3}
  RowKind <- SomeRows
  SupervisorLimit = 2
  ProposalLimit = 2
INVARIANTS RefreshNotLost 
PROPERTIES EventuallyShown 
CHECK_DEADLOCK FALSE
