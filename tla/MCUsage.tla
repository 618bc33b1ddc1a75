------------------------------ MODULE MCUsage -------------------------------
(* Usage accounting in one run: the scan store over the transcripts of each   *)
(* provider, the ledger, the dashboard cache, the provider's series and the   *)
(* replica.  `part` chooses which of them moves: they share no step, so TLC   *)
(* explores their sum.                                                        *)
EXTENDS ScanStore, UsageLedger, UsageFiles

CONSTANT Parts

VARIABLE part

usageVars == <<part, scanVars, ledgerVars, cacheVars, seriesVars, replicaVars>>

\* Two readings of one artifact, of which one may enter the ledger.
TwoReadings ==
  {[src |-> "s1", art |-> 1, cells |-> {1}, eligible |-> c, complete |-> FALSE] : c \in BOOLEAN}
OneItem == {[key |-> 1, src |-> "s1"]}
\* An encrypted volume, an image on an external volume, and that volume itself.
ThreeVolumes ==
  {[uuid |-> "v1", external |-> TRUE, writable |-> TRUE, encrypted |-> TRUE, image |-> "none"],
   [uuid |-> "v2", external |-> TRUE, writable |-> TRUE, encrypted |-> FALSE, image |-> "v3"],
   [uuid |-> "v3", external |-> TRUE, writable |-> TRUE, encrypted |-> FALSE, image |-> "none"]}

UsageInit ==
  /\ part \in Parts
  /\ ScanInit /\ LedgerInit /\ CacheInit /\ SeriesInit /\ ReplicaInit

\* The steps of one component, the others at rest.
ScanMoves(p, A) ==
  part = p /\ A /\ UNCHANGED <<part, ledgerVars, cacheVars, seriesVars, replicaVars>>
LedgerMoves(A) ==
  part = "ledger" /\ A /\ UNCHANGED <<part, scanVars, cacheVars, seriesVars, replicaVars>>
CacheMoves(A) ==
  part = "cache" /\ A /\ UNCHANGED <<part, scanVars, ledgerVars, seriesVars, replicaVars>>
SeriesMoves(p, A) ==
  part = p /\ A /\ UNCHANGED <<part, scanVars, ledgerVars, cacheVars, replicaVars>>
ReplicaMoves(A) ==
  part = "replica" /\ A /\ UNCHANGED <<part, scanVars, ledgerVars, cacheVars, seriesVars>>

UsageNext ==
  \/ ScanMoves("claude", ScanSteps(ClaudeFile) \/ ClaudeSteps)
  \/ ScanMoves("codex", ScanSteps(CodexFile) \/ LegacySteps \/ CodexSteps)
  \/ LedgerMoves(LedgerNext)
  \/ CacheMoves(CacheNext)
  \/ SeriesMoves("processes", SeriesSteps(Process))
  \/ SeriesMoves("accounts", SeriesSteps({"p1"}) \/ AccountSwitched)
  \/ ReplicaMoves(ReplicaNext)

\* Threads and clients go on, time passes, and faults come to an end.
UsageSpec ==
  /\ UsageInit /\ [][UsageNext]_usageVars
  /\ WF_usageVars(CacheMoves(ClientSteps)) /\ WF_usageVars(CacheMoves(ThreadSteps))
  /\ WF_usageVars(CacheMoves(WorkerSteps)) /\ WF_usageVars(CacheMoves(CliSteps))
  /\ WF_usageVars(CacheMoves(HoldoffElapses)) /\ WF_usageVars(CacheMoves(BackoffElapses))
  /\ WF_usageVars(CacheMoves(SnapshotAges)) /\ WF_usageVars(CacheMoves(MarkerAges))
  /\ <>[][~Faults]_cacheVars

\* When the tools fall silent and builds and scans stop failing, a dashboard
\* that is polled shows all usage in the end, although scans are refused the
\* lock, rebuilds empty the store and snapshots race them
\* (request_refresh, _run, dashboard).
EventuallyServed == part = "cache" => <>[](served = usage)

\* A dashboard that is polled answers as fresh only what it read since the last
\* scan, and catches up in the end.
DashboardCatchesUp == []FreshWasReadSince /\ EventuallyServed
=============================================================================
