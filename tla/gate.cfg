SPECIFICATION MCSpec
CONSTANTS
  a1 = a1
  a2 = a2
  ReviewSession = {a1, a2, "b1"}
  ReviewLane = {"claude", "codex"}
  LaneOfSession <- MCLaneOf
  Rows <- MCRows
  Verdicts = {"PASS", "FLAG"}
  MaxLog = 4
  MaxEpoch = 2
  HeadSession = {"a1", "b1"}
  HeadLane = {"claude", "codex"}
  HeadLaneOf <- MCHeadLaneOf
  HeadWork = {w1, w2}
  FirstAssignee = "claude"
  CanarySession = "b1"
  MaxHeadLog = 3
  MaxPublic = 1
SYMMETRY MCSymmetry
PROPERTIES  HeadsStand
CHECK_DEADLOCK FALSE
