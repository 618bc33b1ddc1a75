\* One agent parks and blocks a row under mechanical and manual predicates while
\* verdicts block and reopen it and the reaper continues it.
SPECIFICATION MCSpec
CONSTANTS
  s1 = s1
  s2 = s2
  w1 = w1
  c1 = c1
  c2 = c2
  r1 = r1
  laneA = laneA
  laneB = laneB
  Parts = {"all"}
  NoSession = NoSession
  NoWork = NoWork
  NoClaim = NoClaim
  NoLane = NoLane
  Shared = Shared
  Session = {s1}
  Work = {w1}
  Claim = {c1, c2}
  Run = {}
  Lane = {laneA}
  ActorOf <- One
  Related <- OneRelated
  Parent <- OneParent
  T0Work = {}
  Lease = 1
  Grace = 0
  PidlessGrace = 0
  Pids = {"up"}
  Mortal = {}
  Predicates = {"mechanical", "manual"}
  Classes = {"auto"}
  Verdicts = {"BLOCKED", "FLAG"}
  RunKinds = {}
INVARIANTS ReadyIsEarned DoneIsEarned
PROPERTIES NoYank
SYMMETRY ClaimSymmetry
