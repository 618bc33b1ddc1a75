---------------------------- MODULE TestHarness -----------------------------
(***************************************************************************)
(* The sharded test gate and the copy-on-write clean room.                 *)
(***************************************************************************)
EXTENDS Naturals, Sequences, FiniteSetsExt, SequencesExt

-----------------------------------------------------------------------------
(* The sharded test gate.  A runner (its script is outside the repository)   *)
(* plans the shards, runs them one by one, writes receipt.json and closes    *)
(* running.json; it may die at any step.  Meanwhile the tree is edited and   *)
(* committed, a reconciler reads the two files at two moments and may write  *)
(* running.json back, and a validator audits the receipt against the tree    *)
(* and looks at the tree a second time before it answers.                    *)

CONSTANTS
  TestFile,      \* test files, numbers so that names are ordered
  Heavy,         \* the ones marked memory-singleton
  Weight,        \* Weight[f]: tests times 4096 plus the file's bytes
  ShardCap,      \* MAX_FILES_PER_SHARD
  MinShards,     \* DEFAULT_SHARDS
  TreeInit,      \* trees the gate starts from
  MaxEdits, MaxGateRuns

VARIABLES
  tree,          \* what every test file does now; "none": no such file
  commit,        \* HEAD: its number and the tree it holds
  edits,
  disturbed,     \* runs during which the tree was edited
  runner,        \* the run in progress, or NoRunner
  gateRuns,
  sidecar,       \* running.json
  gateReceipt,       \* receipt.json
  artifacts,     \* runs whose JUnit files and logs are on disk
  rec,           \* the reconciler: what it read
  said,          \* its answer
  val,           \* the validator: what it audited
  accepted       \* the run the validator found nothing against, until the next edit

gateVars == <<tree, commit, edits, disturbed, runner, gateRuns, sidecar, gateReceipt, artifacts, rec, said, val, accepted>>

NoRunner == [run |-> 0]
NoSidecar == [run |-> 0, state |-> "absent"]
Waiting == [pc |-> "idle"]

-----------------------------------------------------------------------------
(* The plan. *)
Content == {"none", "green", "red", "empty"}
Discovered(t) == {f \in TestFile : t[f] # "none"}
Singletons(t) == Discovered(t) \cap Heavy
\* The aggregate hash of the files: two trees have one manifest when they are equal.
InputManifest(t) == t
Ceil(n, d) == (n + d - 1) \div d

RecommendedShardCount(n, s) ==
  LET capacity == s + Ceil(n - s, ShardCap)
  IN  Min({n, Max({MinShards, capacity})})

\* Heaviest first, then by name.
Placed(fs) == SetToSortSeq(fs, LAMBDA f, g : Weight[f] > Weight[g] \/ (Weight[f] = Weight[g] /\ f < g))
Load(group) == FoldSet(LAMBDA f, n : n + Weight[f], 0, group)

\* One bin for every singleton; every other file goes to the lightest bin with room.
ShardTestFiles(t) ==
  LET heavy == SetToSortSeq(Singletons(t), <)
      count == RecommendedShardCount(Cardinality(Discovered(t)), Len(heavy))
      start == [i \in 1..count |-> IF i <= Len(heavy) THEN {heavy[i]} ELSE {}]
      Put(bins, f) ==
        LET room == {i \in Len(heavy) + 1 .. count : Cardinality(bins[i]) < ShardCap}
            best == CHOOSE i \in room : \A j \in room :
                      Load(bins[i]) < Load(bins[j]) \/ (Load(bins[i]) = Load(bins[j]) /\ i <= j)
        IN  [bins EXCEPT ![best] = @ \cup {f}]
  IN  FoldLeft(Put, start, Placed(Discovered(t) \ Heavy))

ValidShardPlan(t, plan) ==
  /\ plan # << >> /\ \A i \in DOMAIN plan : plan[i] # {} /\ Cardinality(plan[i]) <= ShardCap
  /\ \A i, j \in DOMAIN plan : i # j => plan[i] \cap plan[j] = {}
  /\ UNION Range(plan) = Discovered(t)
  /\ Len(plan) = RecommendedShardCount(Cardinality(Discovered(t)), Cardinality(Singletons(t)))
  /\ plan = ShardTestFiles(t)

-----------------------------------------------------------------------------
(* A shard: its files as they stood when it ran, and whether a guard stopped *)
(* it.                                                                       *)
Red(s) == {f \in DOMAIN s.saw : s.saw[f] = "red"}
Ran(s) == {f \in DOMAIN s.saw : s.saw[f] \in {"green", "red"}}
\* pytest: 0 all passed, 1 some failed, 5 nothing selected; a stopped group has none of them.
ExitCode(s) ==
  CASE s.stopped -> 9
    [] ~s.stopped /\ Red(s) # {} -> 1
    [] ~s.stopped /\ Ran(s) = {} -> 5
    [] OTHER -> 0
ZeroSelection(s) == ExitCode(s) = 5 /\ ~s.stopped /\ Ran(s) = {}
Admissible(s) == ExitCode(s) \in {0, 1} \/ ZeroSelection(s)
\* JUnit replayed: what the shard's own files ended as.
Counted(ended) == Cardinality(UNION {{i} \X ended[i] : i \in DOMAIN ended})
Totals(shards) ==
  LET whole == {i \in DOMAIN shards : ~shards[i].stopped} IN
  [tests |-> Counted([i \in whole |-> Ran(shards[i])]), failures |-> Counted([i \in whole |-> Red(shards[i])])]
Incomplete(run, shards) ==
  {i \in DOMAIN shards : shards[i].stopped \/ ~Admissible(shards[i]) \/ run \notin artifacts}
\* A failure is a regression, a stopped shard a memory kill, lost files stale telemetry.
OutcomeClasses(run, shards) ==
  {<<i, IF shards[i].stopped THEN "MEMORY_KILL"
        ELSE IF run \notin artifacts THEN "STALE_TELEMETRY" ELSE "REAL_REGRESSION">> :
     i \in {j \in DOMAIN shards : shards[j].stopped \/ Red(shards[j]) # {} \/ run \notin artifacts}}
Completion(complete, incomplete, allShards, totals) ==
  IF complete THEN IF totals.failures = 0 THEN "COMPLETE_GREEN" ELSE "COMPLETE_RED"
  ELSE IF incomplete # {} THEN "INCOMPLETE_INFRA"
  ELSE IF ~allShards THEN "INCOMPLETE_CARDINALITY" ELSE "INCOMPLETE_INPUT"

-----------------------------------------------------------------------------
(* The runner and the tree. *)
GateInit ==
  /\ tree \in TreeInit /\ commit = [id |-> 1, tree |-> tree]
  /\ edits = 0 /\ disturbed = {} /\ runner = NoRunner /\ gateRuns = 0
  /\ sidecar = NoSidecar /\ gateReceipt = NoSidecar /\ artifacts = {}
  /\ rec = Waiting /\ said = NoSidecar /\ val = Waiting /\ accepted = 0

EditsTree(f, c) ==
  /\ edits < MaxEdits /\ tree[f] # c /\ edits' = edits + 1
  /\ tree' = [tree EXCEPT ![f] = c] /\ accepted' = 0
  /\ disturbed' = disturbed \cup ({runner.run} \ {0})
  /\ UNCHANGED <<commit, runner, gateRuns, sidecar, gateReceipt, artifacts, rec, said, val>>

CommitsTree ==
  /\ tree # commit.tree /\ commit' = [id |-> commit.id + 1, tree |-> tree]
  /\ UNCHANGED <<tree, edits, disturbed, runner, gateRuns, sidecar, gateReceipt, artifacts, rec, said, val, accepted>>

StartsRun ==
  /\ runner = NoRunner /\ gateRuns < MaxGateRuns /\ Discovered(tree) # {}
  /\ gateRuns' = gateRuns + 1
  /\ runner' = [run |-> gateRuns + 1, commit |-> commit.id, clean |-> tree = commit.tree,
                before |-> InputManifest(tree), plan |-> ShardTestFiles(tree), shards |-> << >>]
  /\ artifacts' = artifacts \cup {gateRuns + 1}
  /\ sidecar' = [run |-> gateRuns + 1, state |-> "RUNNING", before |-> InputManifest(tree)]
  /\ UNCHANGED <<tree, commit, edits, disturbed, gateReceipt, rec, said, val, accepted>>

RunsShard(stopped) ==
  LET next == Len(runner.shards) + 1 IN
  /\ runner # NoRunner /\ next <= Len(runner.plan)
  /\ runner' = [runner EXCEPT !.shards =
       Append(@, [files |-> runner.plan[next], stopped |-> stopped, saw |-> [f \in runner.plan[next] |-> tree[f]]])]
  /\ UNCHANGED <<tree, commit, edits, disturbed, gateRuns, sidecar, gateReceipt, artifacts, rec, said, val, accepted>>

StoppedEarly == \E i \in DOMAIN runner.shards : runner.shards[i].stopped

WritesReceipt ==
  LET after == InputManifest(tree)
      totals == Totals(runner.shards)
      incomplete == Incomplete(runner.run, runner.shards)
      allShards == Len(runner.shards) = Len(runner.plan)
      complete == incomplete = {} /\ allShards /\ after = runner.before
      completion == Completion(complete, incomplete, allShards, totals)
  IN
  /\ runner # NoRunner /\ gateReceipt.run # runner.run
  /\ Len(runner.shards) = Len(runner.plan) \/ StoppedEarly
  /\ gateReceipt' = [run |-> runner.run, commit |-> runner.commit, clean |-> runner.clean, before |-> runner.before,
                 after |-> after, plan |-> runner.plan, shards |-> runner.shards, completion |-> completion,
                 totals |-> totals, classes |-> OutcomeClasses(runner.run, runner.shards),
                 state |-> IF completion = "COMPLETE_GREEN" THEN "PASS" ELSE "FAIL"]
  /\ UNCHANGED <<tree, commit, edits, disturbed, runner, gateRuns, sidecar, artifacts, rec, said, val, accepted>>

ClosesSidecar ==
  /\ runner # NoRunner /\ gateReceipt.run = runner.run
  /\ sidecar' = [run |-> runner.run, state |-> gateReceipt.state, before |-> runner.before]
  /\ runner' = NoRunner
  /\ UNCHANGED <<tree, commit, edits, disturbed, gateRuns, gateReceipt, artifacts, rec, said, val, accepted>>

RunnerDies ==
  /\ runner # NoRunner /\ runner' = NoRunner
  /\ UNCHANGED <<tree, commit, edits, disturbed, gateRuns, sidecar, gateReceipt, artifacts, rec, said, val, accepted>>

ArtifactsLost(r) ==
  /\ r \in artifacts /\ runner.run # r /\ artifacts' = artifacts \ {r}
  /\ UNCHANGED <<tree, commit, edits, disturbed, runner, gateRuns, sidecar, gateReceipt, rec, said, val, accepted>>

-----------------------------------------------------------------------------
(* reconcile_running_sidecar. *)
ReadsSidecar(rewrite) ==
  /\ rec = Waiting /\ sidecar.run # 0
  /\ rec' = [pc |-> "gateReceipt", sidecar |-> sidecar, rewrite |-> rewrite]
  /\ UNCHANGED <<tree, commit, edits, disturbed, runner, gateRuns, sidecar, gateReceipt, artifacts, said, val, accepted>>

ReadsReceipt ==
  /\ rec.pc = "gateReceipt"
  /\ rec' = [pc |-> "probe", sidecar |-> rec.sidecar, rewrite |-> rec.rewrite, receipt |-> gateReceipt]
  /\ UNCHANGED <<tree, commit, edits, disturbed, runner, gateRuns, sidecar, gateReceipt, artifacts, said, val, accepted>>

\* Unknown when the process cannot be inspected.
RunnerIsLive(s) == {IF runner.run = s.run THEN "live" ELSE "dead", "unknown"}
PairConsistent(s, r) == r.run # 0 /\ s.run = r.run /\ s.state = r.state /\ s.before = r.before
SameRun(r, s) == r.run = s.run /\ r.before = s.before
Derived(r, s) ==
  [s EXCEPT !.state = IF SameRun(r, s) /\ r.state \in {"PASS", "FAIL"} THEN r.state ELSE "INTERRUPTED"]

\* What was not RUNNING, or whose runner lives or is unknown, is returned as read.
Reports(live) ==
  LET s == rec.sidecar
      settled == s.state # "RUNNING" \/ live # "dead"
      answer == IF settled THEN s ELSE Derived(rec.receipt, s)
  IN
  /\ rec.pc = "probe" /\ live \in RunnerIsLive(s)
  /\ said' = [run |-> answer.run, state |-> answer.state,
              consistent |-> IF answer.state = "RUNNING" THEN "unknown"
                             ELSE IF PairConsistent(answer, rec.receipt) THEN "yes" ELSE "no"]
  /\ rec' = IF settled \/ ~rec.rewrite THEN Waiting ELSE [pc |-> "rewrite", sidecar |-> answer]
  /\ UNCHANGED <<tree, commit, edits, disturbed, runner, gateRuns, sidecar, gateReceipt, artifacts, val, accepted>>

Rewrites ==
  /\ rec.pc = "rewrite" /\ sidecar' = rec.sidecar /\ rec' = Waiting
  /\ UNCHANGED <<tree, commit, edits, disturbed, runner, gateRuns, gateReceipt, artifacts, said, val, accepted>>

-----------------------------------------------------------------------------
(* audit_receipt_integrity and validate_receipt. *)
HeaderHolds(r) == r.state \in {"PASS", "FAIL"} /\ r.commit = commit.id /\ r.clean
InputStable(r) == r.before = r.after /\ r.after = InputManifest(tree)
ShardPlanHolds(r) == Discovered(tree) # {} /\ ValidShardPlan(tree, r.plan)
\* run_identity.json was written with the run's artifacts.
IdentityHolds(r) == r.run \in artifacts
CardinalityHolds(r) ==
  r.shards # << >> /\ Len(r.shards) = RecommendedShardCount(Cardinality(Discovered(tree)), Cardinality(Singletons(tree)))
ShardsHold(r) ==
  \A i \in DOMAIN r.shards :
    /\ i \in DOMAIN r.plan /\ r.shards[i].files = r.plan[i]
    /\ ~r.shards[i].stopped /\ Admissible(r.shards[i]) /\ r.run \in artifacts
    /\ (ExitCode(r.shards[i]) = 1) = (Red(r.shards[i]) # {})
CoverageExact(r) ==
  /\ UNION {r.shards[i].files : i \in DOMAIN r.shards} = Discovered(tree)
  /\ \A i, j \in DOMAIN r.shards : i # j => r.shards[i].files \cap r.shards[j].files = {}
TotalsHold(r) ==
  LET incomplete == Incomplete(r.run, r.shards)
      complete == incomplete = {} /\ InputStable(r) /\ CardinalityHolds(r)
  IN  /\ r.completion = Completion(complete, incomplete, CardinalityHolds(r), Totals(r.shards))
      /\ r.totals = Totals(r.shards)
ClassesHold(r) == r.classes = OutcomeClasses(r.run, r.shards) /\ \A c \in r.classes : c[2] = "REAL_REGRESSION"
AuditReceiptIntegrity(r) ==
  /\ HeaderHolds(r) /\ InputStable(r) /\ ShardPlanHolds(r) /\ IdentityHolds(r) /\ CardinalityHolds(r)
  /\ ShardsHold(r) /\ CoverageExact(r) /\ TotalsHold(r) /\ ClassesHold(r)

Audits ==
  /\ val = Waiting /\ gateReceipt.run # 0
  /\ val' = [pc |-> "second", receipt |-> gateReceipt,
             clean |-> gateReceipt.state = "PASS" /\ AuditReceiptIntegrity(gateReceipt)]
  /\ UNCHANGED <<tree, commit, edits, disturbed, runner, gateRuns, sidecar, gateReceipt, artifacts, rec, said, accepted>>

\* Mutant: the tree is looked at once.
LookedAtOnce(r) == r.before = r.after
StillCurrent(r) == r.after = InputManifest(tree)
ShardsGreen(r) ==
  \A i \in DOMAIN r.shards :
    /\ ExitCode(r.shards[i]) = 0 \/ ZeroSelection(r.shards[i])
    /\ Red(r.shards[i]) = {} /\ ~r.shards[i].stopped
Validates ==
  LET r == val.receipt IN
  /\ val.pc = "second" /\ val' = Waiting
  /\ accepted' = IF val.clean /\ StillCurrent(r) /\ CoverageExact(r) /\ ShardsGreen(r)
                    /\ r.totals.tests > 0 /\ r.totals.failures = 0
                 THEN r.run ELSE 0
  /\ UNCHANGED <<tree, commit, edits, disturbed, runner, gateRuns, sidecar, gateReceipt, artifacts, rec, said>>

RunnerNext ==
  \/ StartsRun \/ WritesReceipt \/ ClosesSidecar \/ RunnerDies
  \/ \E stopped \in BOOLEAN : RunsShard(stopped)
TreeNext ==
  \/ \E f \in TestFile, c \in Content : EditsTree(f, c)
  \/ CommitsTree
  \/ \E r \in artifacts : ArtifactsLost(r)
\* The reconciler never looks at the tree, the validator never at running.json.
ReconcileNext ==
  \/ RunnerNext
  \/ \E rewrite \in BOOLEAN : ReadsSidecar(rewrite)
  \/ ReadsReceipt \/ Rewrites
  \/ \E live \in {"live", "dead", "unknown"} : Reports(live)
ValidateNext == RunnerNext \/ TreeNext \/ Audits \/ Validates
GateSpec == GateInit /\ [][ReconcileNext \/ ValidateNext]_gateVars

-----------------------------------------------------------------------------
(* A receipt is accepted only for the tree as it is: when nobody edited the  *)
(* tree under the run, every test file of today's tree that selects a test   *)
(* passes, and at least one does.  The validator looks at the tree a second  *)
(* time after the audit, so an edit between the two looks is caught.         *)
AcceptedMeansGreen ==
  accepted # 0 /\ accepted \notin disturbed =>
    /\ \A f \in TestFile : tree[f] # "red"
    /\ \E f \in TestFile : tree[f] = "green"

(* The reconciler says PASS or FAIL of a run only when that run's own        *)
(* receipt said so: a run that died over the receipt of an earlier run on    *)
(* the same tree is INTERRUPTED.                                             *)
SaidIsOwn ==
  [][said' # said /\ said'.state \in {"PASS", "FAIL"} /\ rec.sidecar.state = "RUNNING"
      => rec.receipt.run = said'.run /\ rec.receipt.state = said'.state]_gateVars

-----------------------------------------------------------------------------
(* A copy-on-write clean room: the source store is walked entry by entry,    *)
(* cloned entry by entry, walked again, and compared with the clone, while   *)
(* somebody goes on writing, creating, linking and removing files.  No lock  *)
(* holds the source still.  Names are numbers, walked from the highest down  *)
(* and cloned from the lowest up.                                            *)

CONSTANTS
  Name, Inode,
  LinkedOutside,   \* inodes that also have a name outside the store
  DestRoot,        \* destinations asked for, as sequences of components
  SourceRoot,
  StoreInit,       \* stores to start from
  MaxWrites, MaxBuilds

VARIABLES
  store,           \* name -> what it is
  body,            \* inode -> its content; no content comes back
  writes,
  moments,         \* every view the source has ever offered
  dest, destBody,  \* the clone
  destMade,
  fate,            \* how each name of the source fared since the build began
  builder, builds,
  fixture          \* how the last build ended

roomVars == <<store, body, writes, moments, dest, destBody, destMade, fate, builder, builds, fixture>>

Gone == [kind |-> "none"]
FileAt(i) == [kind |-> "file", at |-> i]
LinkTo(t) == [kind |-> "link", at |-> t]
\* Link targets that are no name of the store: allowlisted, and not.
Allowlisted == 0
Escaped == 99
Target == Name \cup {Allowlisted, Escaped}
ASSUME RoomAssumption ==
  StoreInit \subseteq [Name -> {Gone} \cup {FileAt(i) : i \in Inode} \cup {LinkTo(t) : t \in Target}]
NoBuild == [pc |-> "idle"]
Named(names) == {n \in Name : names[n].kind # "none"}
NamesOf(names, i) == {n \in Name : names[n] = FileAt(i)}
NLink(i) == Cardinality(NamesOf(store, i)) + (IF i \in LinkedOutside THEN 1 ELSE 0)

\* Where a chain of links ends: one hop per name is enough unless it is a cycle.
Resolved(names, n) ==
  LET hop[k \in 0..Cardinality(Name)] ==
        IF k = 0 THEN names[n].at
        ELSE IF hop[k - 1] \in Name /\ names[hop[k - 1]].kind = "link" THEN names[hop[k - 1]].at ELSE hop[k - 1]
  IN  hop[Cardinality(Name)]
\* Hard-linked names are a group, known by the first of them in walk order.
Group(names, i) == IF Cardinality(NamesOf(names, i)) > 1 THEN Max(NamesOf(names, i)) ELSE 0
\* A file's content and its group; a link's end.
View(names, content) ==
  {IF names[n].kind = "link" THEN <<n, "link", Resolved(names, n), 0>>
   ELSE <<n, "file", content[names[n].at], Group(names, names[n].at)>> : n \in Named(names)}

RoomInit ==
  /\ store \in StoreInit /\ body = [i \in Inode |-> 0] /\ writes = 0
  /\ moments = {View(store, body)}
  /\ dest = [n \in Name |-> Gone] /\ destBody = [n \in Name |-> 0] /\ destMade = FALSE
  /\ fate = [n \in Name |-> "kept"] /\ builder = NoBuild /\ builds = 0 /\ fixture = "none"

-----------------------------------------------------------------------------
(* Others at work in the source. *)
SourceMoves(names, content, fates) ==
  /\ writes < MaxWrites /\ writes' = writes + 1
  /\ store' = names /\ body' = content /\ moments' = moments \cup {View(names, content)} /\ fate' = fates
  /\ UNCHANGED <<dest, destBody, destMade, builder, builds, fixture>>
Written(i) == [body EXCEPT ![i] = writes + 1]
\* A name is removed, and comes back, under a build.
Fares(n, from, to) == IF builder # NoBuild /\ fate[n] = from THEN [fate EXCEPT ![n] = to] ELSE fate
WritesFile(i) == NamesOf(store, i) # {} /\ SourceMoves(store, Written(i), fate)
CreatesFile(n, i) ==
  store[n] = Gone /\ NamesOf(store, i) = {} /\ SourceMoves([store EXCEPT ![n] = FileAt(i)], Written(i), fate)
HardLinks(n, i) ==
  /\ store[n] = Gone /\ NamesOf(store, i) # {}
  /\ SourceMoves([store EXCEPT ![n] = FileAt(i)], body, Fares(n, "removed", "returned"))
RemovesName(n) == store[n] # Gone /\ SourceMoves([store EXCEPT ![n] = Gone], body, Fares(n, "kept", "removed"))

-----------------------------------------------------------------------------
(* The build. *)
IsUnder(p, q) == Len(q) <= Len(p) /\ \A k \in 1..Len(q) : p[k] = q[k]
Overlap(p, q) == IsUnder(p, q) \/ IsUnder(q, p)

Refused(state) ==
  /\ fixture' = state /\ builder' = NoBuild
  /\ UNCHANGED <<store, body, writes, moments, dest, destBody, destMade, fate, builds>>
BuilderMoves(b) == builder' = b /\ UNCHANGED <<store, body, writes, moments, fate, builds, fixture>>

\* The roots are compared, then the names are listed.
BeginsBuild(root) ==
  /\ builder = NoBuild /\ builds < MaxBuilds /\ builds' = builds + 1 /\ fate' = [n \in Name |-> "kept"]
  /\ IF Overlap(root, SourceRoot) THEN fixture' = "REFUSED_SOURCE_TOPOLOGY" /\ UNCHANGED builder
     ELSE fixture' = "none" /\ builder' = [pc |-> "census", todo |-> Named(store), rows |-> {}]
  /\ UNCHANGED <<store, body, writes, moments, dest, destBody, destMade>>

RowOf(n) ==
  IF store[n].kind = "link" THEN [name |-> n, kind |-> "link", hash |-> 0, at |-> store[n].at, nlink |-> 0]
  ELSE [name |-> n, kind |-> "file", hash |-> body[store[n].at], at |-> store[n].at, nlink |-> NLink(store[n].at)]
NlinkMoved(row, rows) ==
  row.kind = "file" /\ \E r \in rows : r.kind = "file" /\ r.at = row.at /\ r.nlink # row.nlink

WalksEntry ==
  /\ builder.pc \in {"census", "again"}
  /\ \E n \in builder.todo :
       /\ \A m \in builder.todo : m <= n
       /\ IF store[n] = Gone \/ NlinkMoved(RowOf(n), builder.rows) THEN Refused("REFUSED_SOURCE_DRIFT")
          ELSE BuilderMoves([builder EXCEPT !.todo = @ \ {n}, !.rows = @ \cup {RowOf(n)}])
               /\ UNCHANGED <<dest, destBody, destMade>>

\* The rows as a store, so that links and groups are read off the rows alone.
AsNames(rows) ==
  [n \in Name |-> IF \E r \in rows : r.name = n
                  THEN LET r == CHOOSE r \in rows : r.name = n IN [kind |-> r.kind, at |-> r.at] ELSE Gone]
AsBody(rows) ==
  [i \in Inode |-> IF \E r \in rows : r.kind = "file" /\ r.at = i
                   THEN (CHOOSE r \in rows : r.kind = "file" /\ r.at = i).hash ELSE 0]
GroupsWhole(rows) ==
  \A r \in rows : r.kind = "file" /\ r.nlink > 1 =>
    Cardinality({q \in rows : q.kind = "file" /\ q.at = r.at}) = r.nlink
LinkFault(rows) ==
  LET names == AsNames(rows)
      ends == {Resolved(names, n) : n \in {m \in Named(names) : names[m].kind = "link"}}
  IN  CASE \E e \in ends : e \in Name /\ names[e].kind = "link" -> "REFUSED_SYMLINK_CYCLE"
        [] \E e \in ends : e \in Name /\ names[e].kind = "none" -> "REFUSED_SYMLINK_BROKEN"
        [] Escaped \in ends -> "REFUSED_EXTERNAL_LINK"
        [] OTHER -> "none"
\* Content is compared name by name: two names of one inode may have been read apart.
ManifestOf(rows) ==
  {IF v[2] = "link" THEN v ELSE <<v[1], v[2], (CHOOSE r \in rows : r.name = v[1]).hash, v[4]>> :
     v \in View(AsNames(rows), AsBody(rows))}
CensusFault(rows) == IF ~GroupsWhole(rows) THEN "REFUSED_SOURCE_TOPOLOGY" ELSE LinkFault(rows)

\* The first census ends: the destination must not exist, and is made.
EndsCensus ==
  /\ builder.pc = "census" /\ builder.todo = {}
  /\ LET fault == CensusFault(builder.rows) IN
     IF fault # "none" THEN Refused(fault)
     ELSE IF destMade THEN Refused("REFUSED_COW")
     ELSE /\ BuilderMoves([pc |-> "clone", todo |-> {r.name : r \in builder.rows},
                           manifest |-> ManifestOf(builder.rows), first |-> [i \in {} |-> 0]])
          /\ destMade' = TRUE /\ UNCHANGED <<dest, destBody>>

\* A link is written as the census resolved it; a file is opened as it is now.
ClonesEntry ==
  /\ builder.pc = "clone" /\ builder.todo # {}
  /\ LET n == Min(builder.todo)
         row == CHOOSE v \in builder.manifest : v[1] = n
         i == store[n].at
         rest == [builder EXCEPT !.todo = @ \ {n}]
     IN
     IF row[2] = "link"
     THEN /\ dest' = [dest EXCEPT ![n] = LinkTo(row[3])] /\ BuilderMoves(rest) /\ UNCHANGED <<destBody, destMade>>
     ELSE IF store[n].kind # "file" THEN Refused("REFUSED_COW")
     ELSE IF NLink(i) > 1 /\ i \in DOMAIN builder.first
     THEN /\ dest' = [dest EXCEPT ![n] = FileAt(builder.first[i])]
          /\ BuilderMoves(rest) /\ UNCHANGED <<destBody, destMade>>
     ELSE /\ dest' = [dest EXCEPT ![n] = FileAt(n)] /\ destBody' = [destBody EXCEPT ![n] = body[i]]
          /\ BuilderMoves([rest EXCEPT !.first =
               IF NLink(i) > 1 THEN [j \in DOMAIN @ \cup {i} |-> IF j = i THEN n ELSE @[j]] ELSE @])
          /\ UNCHANGED destMade

BeginsAgain ==
  /\ builder.pc = "clone" /\ builder.todo = {}
  /\ BuilderMoves([pc |-> "again", todo |-> Named(store), rows |-> {}, manifest |-> builder.manifest])
  /\ UNCHANGED <<dest, destBody, destMade>>

SourceStable(rows, manifest) == ManifestOf(rows) = manifest
CloneAgrees(manifest) == View(dest, destBody) = manifest

EndsBuild ==
  /\ builder.pc = "again" /\ builder.todo = {}
  /\ LET fault == CensusFault(builder.rows) IN
     Refused(IF fault # "none" THEN fault
             ELSE IF SourceStable(builder.rows, builder.manifest) /\ CloneAgrees(builder.manifest)
             THEN "FIXTURE_PASS" ELSE "REFUSED_SOURCE_DRIFT")

\* A killed builder leaves its destination behind.
BuilderDies ==
  /\ builder # NoBuild /\ builder' = NoBuild
  /\ UNCHANGED <<store, body, writes, moments, dest, destBody, destMade, fate, builds, fixture>>

RoomNext ==
  \/ \E i \in Inode : WritesFile(i)
  \/ \E n \in Name, i \in Inode : CreatesFile(n, i) \/ HardLinks(n, i)
  \/ \E n \in Name : RemovesName(n)
  \/ \E root \in DestRoot : BeginsBuild(root)
  \/ WalksEntry \/ EndsCensus \/ ClonesEntry \/ BeginsAgain \/ EndsBuild \/ BuilderDies
RoomSpec == RoomInit /\ [][RoomNext]_roomVars

-----------------------------------------------------------------------------
(* A fixture that passes is a view the source really offered at one moment:  *)
(* names, contents, link ends and hard-link groups together, although every  *)
(* entry was read and cloned at a moment of its own while others wrote.  A   *)
(* name that was removed and linked back under the build is excepted: no     *)
(* content comes back, but a hard-linked name may, and two censuses that     *)
(* agree do not show it.                                                     *)
FixtureIsAMoment ==
  fixture = "FIXTURE_PASS" /\ (\A n \in Name : fate[n] # "returned") => View(dest, destBody) \in moments

\* Evidence is of something that was: a receipt is accepted for the tree as it
\* is, a verdict on a run is its own, and a fixture is one moment of its
\* source (validate, reconcile, the clean room's second census).
EvidenceIsReal == [](AcceptedMeansGreen /\ FixtureIsAMoment) /\ SaidIsOwn
=============================================================================
