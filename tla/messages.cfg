SPECIFICATION MCSpec
CONSTANTS
  Parts = {"inbox", "rulings", "memory"}
  MailLane = {"claude", "codex"}
  MailSession = {"a1"}
  MailLaneOf <- MCMailLaneOf
  Reader = {"a1"}
  LegacyLanes = {"claude"}
  PageLimit = 1
  EscalationCap = 1
  MaxMail = 2
  MaxMailTime = 2
  DecisionSession = {"s1", "s3"}
  Fences = {"f1"}
  WalkMax = 2
  MaxRulings = 3
  MaxDay = 1
  Family <- MCFamily
  SourceLane <- MCSourceLane
  ReviewerLane = {"claude", "codex"}
  ReplayLimit = 1
  ProposalCap = 1
  MaxOffered = 2
INVARIANTS AckedMeansShown HeadsAreNewestInForce
PROPERTIES RequestsEscalate 
CHECK_DEADLOCK FALSE
