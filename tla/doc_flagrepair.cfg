\* Two lanes share an ordinary row: objection, remedy, flag repair, handoff.
SPECIFICATION MCSpec
CONSTANTS
  a1 = a1
  a2 = a2
  ReviewSession = {a1, "b1"}
  ReviewLane = {"claude", "codex"}
  LaneOfSession <- MCLaneOf
  Rows <- MCOrdinary
  Verdicts = {"PASS", "FLAG"}
  MaxLog = 5
  MaxEpoch = 2
  HeadSession = {"a1", "b1"}
  HeadLane = {"claude", "codex"}
  HeadLaneOf <- MCHeadLaneOf
  HeadWork = {w1}
  FirstAssignee = "claude"
  CanarySession = "b1"
  MaxHeadLog = 0
  MaxPublic = 0
PROPERTIES OwnVerdictNeverCounts
CHECK_DEADLOCK FALSE
