\* One agent that may die at any point, and a run that may back its claim; passes
\* of the reaper go on for ever.
SPECIFICATION MCFairSpec
CONSTANTS
  s1 = s1
  s2 = s2
  w1 = w1
  c1 = c1
  c2 = c2
  r1 = r1
  laneA = laneA
  laneB = laneB
  Parts = {"rows", "runs"}
  NoSession = NoSession
  NoWork = NoWork
  NoClaim = NoClaim
  NoLane = NoLane
  Shared = Shared
  Session = {s1}
  Work = {w1}
  Claim = {c1, c2}
  Run = {r1}
  Lane = {laneA}
  ActorOf <- One
  Related <- OneRelated
  Parent <- OneParent
  T0Work = {}
  Lease = 1
  Grace = 0
  PidlessGrace = 0
  Pids = {"none", "up"}
  Mortal = {s1}
  Predicates = {"mechanical"}
  Classes = {"auto"}
  Verdicts = {}
  RunKinds = {"fleet", "local"}
PROPERTIES NeverSilent  DeadRunIsOrphaned
