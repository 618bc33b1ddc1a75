\* Two agents of one lane race for one row: claims, renewals, releases,
\* takeovers and the reaper.
SPECIFICATION MCSpec
CONSTANTS
  s1 = s1
  s2 = s2
  w1 = w1
  c1 = c1
  c2 = c2
  r1 = r1
  laneA = laneA
  laneB = laneB
  Parts = {"all"}
  NoSession = NoSession
  NoWork = NoWork
  NoClaim = NoClaim
  NoLane = NoLane
  Shared = Shared
  Session = {s1, s2}
  Work = {w1}
  Claim = {c1, c2}
  Run = {}
  Lane = {laneA}
  ActorOf <- SameLane
  Related <- Strangers
  Parent <- NoParents
  T0Work = {}
  Lease = 1
  Grace = 0
  PidlessGrace = 0
  Pids = {"up"}
  Mortal = {}
  Predicates = {}
  Classes = {}
  Verdicts = {}
  RunKinds = {}
INVARIANTS TypeOK OneHeldClaim
PROPERTIES EpochFinality ImplementsOwnership
SYMMETRY Twins
