SPECIFICATION Spec
CONSTANTS
  Parts = {"tools", "proof", "posts", "cockpit", "groups", "ingest", "models"}
  Session = {"s1", "s2"}
  row1 = row1
  row2 = row2
  Row = {row1, row2}
  Filed = {}
  WriteScope <- OwnScope
  Covers <- OnePrefix
  MaxClaimed = 2
  MayLapse = {1}
  Cand = {"a.md", "b.db"}
  Exempt = {"b.db"}
  Named = "a.md"
  MaxToken = 1
  Client = {"c1", "c2"}
  PostLane <- OneLane
  Wishes <- SomeWishes
  MayDie = {"s9"}
  MaxPosted = 2
  MaxRestart = 1
  TransferLane = {"claude", "codex"}
  ActionId = {"a1"}
  MaxRowVersion = 2
  Chat = {"k1", "k2", "k3"}
  Thread = {"t1"}
  Worktree = {"wt1"}
  WorkId = {"w1", "w2"}
  Backlog <- CrossedBacklog
  ImportRun = {"j1", "j2"}
  JobOf <- OneEnded
  NoParent = "no parent"
  MaxAgentMoves = 2
  Caller = {"c1", "c2"}
  Requests = {{"gpu", "chat"}, {}}
  MaxInode = 2
  MaxEpoch = 2
INVARIANTS  RetryFindsItsOwn ModelsBehave
  
SYMMETRY ServingSymmetry
CHECK_DEADLOCK FALSE
