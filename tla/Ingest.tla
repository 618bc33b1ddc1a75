------------------------------- MODULE Ingest -------------------------------
(***************************************************************************)
(* Importing a backlog file and a jobs.db, and the state projected from    *)
(* the database: coord/ingest.py and coord/projection.py.                  *)
(*                                                                         *)
(* The import decides about each row on reads made outside the transaction *)
(* that writes it, while agents claim, finish and move the same rows; it   *)
(* may stop anywhere and be run again.                                     *)
(***************************************************************************)
EXTENDS Integers, FiniteSets

CONSTANTS
  WorkId,    \* work ids
  Backlog,   \* WorkId -> [intent, parent]: what the backlog file says
  ImportRun, \* jobs of jobs.db
  JobOf,     \* ImportRun -> [work, over]: its row and whether it has ended
  NoParent,
  MaxAgentMoves \* bound on what agents do meanwhile

\* What a row's intent may be; _STATUS_TO_INTENT gives the backlog's.
Intent == {"absent", "planned", "queued", "running", "blocked", "done", "failed", "archived",
           "superseded", "closed", "cancelled"}

ASSUME IngestAssumption ==
  /\ MaxAgentMoves \in Nat /\ NoParent \notin WorkId
  /\ Backlog \in [WorkId -> [intent : Intent \ {"absent"}, parent : WorkId \cup {NoParent}]]
  /\ JobOf \in [ImportRun -> [work : WorkId, over : BOOLEAN]]

VARIABLES
  wrow,     \* work_items: [intent, parent]
  touched,  \* rows with a claim, a run, an artifact or a lifecycle event
  importer, \* the import: what it is about to write
  jobRun,   \* runs: state of each imported run
  alive,    \* imported runs whose process lives
  board,    \* the projection: what it has read
  moves,    \* ghost: what agents did
  raced     \* ghost: a parent was set between the importer's walk and its write

ingestVars == <<wrow, touched, importer, jobRun, alive, board, moves, raced>>

Nowhere == [intent |-> "absent", parent |-> NoParent]
IdleImporter == [doing |-> "nothing"]
NoBoard == [stage |-> "none"]

IngestInit ==
  /\ wrow = [w \in WorkId |-> Nowhere] /\ touched = {} /\ importer = IdleImporter
  /\ jobRun = [r \in ImportRun |-> "none"] /\ alive \in SUBSET ImportRun
  /\ board = NoBoard /\ moves = 0 /\ raced = FALSE

Present(w) == wrow[w].intent # "absent"

-----------------------------------------------------------------------------
(* Agents.                                                                 *)

AgentMoves(w, new) ==
  /\ moves < MaxAgentMoves /\ moves' = moves + 1
  /\ wrow' = [wrow EXCEPT ![w] = new] /\ touched' = touched \cup {w}
  /\ UNCHANGED <<importer, jobRun, alive, board>>
AgentWorks(w, i) == Present(w) /\ AgentMoves(w, [wrow[w] EXCEPT !.intent = i]) /\ UNCHANGED raced
AgentCreates(w) == ~Present(w) /\ AgentMoves(w, [Nowhere EXCEPT !.intent = "queued"]) /\ UNCHANGED raced

\* _walk_parent_chain_for_cycle_unlocked: p and what is above it.
ClosedUpward(S) == \A b \in S : wrow[b].parent \in S \cup {NoParent}
Chain(p) ==
  {a \in WorkId : \A S \in SUBSET WorkId : ClosedUpward(S) /\ p \in S \cup {NoParent} => a \in S}
\* _parent_edge_is_cycle_safe.
CycleSafe(p, w) == w \notin Chain(p)

\* upsert_work of a parent, checked inside its transaction.
AgentSetsParent(w, p) ==
  /\ Present(w) /\ wrow[w].parent # p /\ CycleSafe(p, w)
  /\ AgentMoves(w, [wrow[w] EXCEPT !.parent = p])
  /\ raced' = (raced \/ importer.doing = "fill")

JobEnds(r) ==
  /\ r \in alive /\ alive' = alive \ {r}
  /\ UNCHANGED <<wrow, touched, importer, jobRun, board, moves, raced>>

-----------------------------------------------------------------------------
(* The backlog.                                                            *)

\* _has_live_pid_backed_local_run.
LiveLocalRun(w) == \E r \in ImportRun : JobOf[r].work = w /\ jobRun[r] = "live" /\ r \in alive

\* The intent a row would be written with: kept running while a local run
\* lives, and left out when the row has a lifecycle of its own.
ReplayIntent(w) ==
  IF Present(w) /\ w \in touched THEN "left out"
  ELSE IF Backlog[w].intent \in {"blocked", "done"} /\ LiveLocalRun(w) THEN "running"
  ELSE Backlog[w].intent

\* bootstrap_from_backlog reads what it needs for one row.
ReadsBacklogRow(w) ==
  /\ importer = IdleImporter
  /\ importer' = [doing |-> "replay", row |-> w, intent |-> ReplayIntent(w),
                  parent |-> IF Backlog[w].parent # NoParent /\ Present(Backlog[w].parent)
                             THEN Backlog[w].parent ELSE NoParent]
  /\ UNCHANGED <<wrow, touched, jobRun, alive, board, moves, raced>>

\* Mutant: a projection writes what it was given.
Unprotected(w, f) == [intent |-> IF f.intent = "left out" THEN wrow[w].intent ELSE f.intent, parent |-> f.parent]
\* upsert_projection_work: intent and parent of an existing row are protected.
ProjectedRow(w, f) ==
  IF Present(w) THEN wrow[w]
  ELSE [intent |-> IF f.intent = "left out" THEN "planned" ELSE f.intent, parent |-> f.parent]

WritesBacklogRow ==
  LET w == importer.row IN
  /\ importer.doing = "replay"
  /\ Present(w) \/ importer.parent = NoParent \/ CycleSafe(importer.parent, w)
  /\ wrow' = [wrow EXCEPT ![w] = ProjectedRow(w, importer)]
  /\ importer' = IdleImporter
  /\ UNCHANGED <<touched, jobRun, alive, board, moves, raced>>

\* The second pass links a child that came before its parent.
Relinks(w) ==
  /\ importer = IdleImporter
  /\ Present(w) /\ wrow[w].parent = NoParent
  /\ Backlog[w].parent # NoParent /\ Present(Backlog[w].parent) /\ CycleSafe(Backlog[w].parent, w)
  /\ wrow' = [wrow EXCEPT ![w].parent = Backlog[w].parent]
  /\ UNCHANGED <<touched, importer, jobRun, alive, board, moves, raced>>

-----------------------------------------------------------------------------
(* backfill_grouping.                                                      *)

\* The parent is walked outside any transaction.
WalksParent(w) ==
  /\ importer = IdleImporter
  /\ Present(w) /\ wrow[w].parent = NoParent
  /\ Backlog[w].parent # NoParent /\ Present(Backlog[w].parent) /\ CycleSafe(Backlog[w].parent, w)
  /\ importer' = [doing |-> "fill", row |-> w, parent |-> Backlog[w].parent]
  /\ UNCHANGED <<wrow, touched, jobRun, alive, board, moves, raced>>

\* UPDATE ... parent_id=COALESCE(parent_id, ?): nothing is walked again.
FillsParent ==
  LET w == importer.row IN
  /\ importer.doing = "fill"
  /\ wrow' = [wrow EXCEPT ![w].parent = IF @ = NoParent THEN importer.parent ELSE @]
  /\ importer' = IdleImporter
  /\ UNCHANGED <<touched, jobRun, alive, board, moves, raced>>

-----------------------------------------------------------------------------
(* jobs.db.                                                                *)

\* bootstrap_from_jobs_db: the row of a job, if there is none, then its run.
\* appear_run with an explicit run id: a finished run stays finished.
Appears(r) == IF jobRun[r] = "done" THEN "done" ELSE "live"
ImportsJob(r) ==
  LET w == JobOf[r].work IN
  /\ importer = IdleImporter
  /\ wrow' = IF Present(w) THEN wrow
             ELSE [wrow EXCEPT ![w].intent = IF JobOf[r].over THEN "archived" ELSE "queued"]
  /\ jobRun' = [jobRun EXCEPT ![r] = Appears(r)]
  /\ touched' = touched \cup {w}
  /\ importer' = IF JobOf[r].over THEN [doing |-> "finalize", run |-> r] ELSE IdleImporter
  /\ UNCHANGED <<alive, board, moves, raced>>

\* finalize_run, a transaction of its own.
FinalizesJob ==
  /\ importer.doing = "finalize"
  /\ jobRun' = [jobRun EXCEPT ![importer.run] = "done"]
  /\ importer' = IdleImporter
  /\ UNCHANGED <<wrow, touched, alive, board, moves, raced>>

\* The import stops, wherever it is.
ImporterDies ==
  /\ importer # IdleImporter
  /\ importer' = IdleImporter
  /\ UNCHANGED <<wrow, touched, jobRun, alive, board, moves, raced>>

-----------------------------------------------------------------------------
(* build_state_from_coord.                                                 *)

\* board_rows, then the live runs.
ReadsBoard ==
  /\ board.stage = "none"
  /\ board' = [stage |-> "rows", rows |-> [w \in {v \in WorkId : Present(v)} |-> wrow[w].intent]]
  /\ UNCHANGED <<wrow, touched, importer, jobRun, alive, moves, raced>>

\* _live_runs_by_work and _orphan_live_runs: runs on record whose process lives.
LiveRuns == {r \in ImportRun : jobRun[r] = "live" /\ r \in alive}
\* _to_board_row: a live run makes an unfinished row running.
Shown(w, intent, runs) ==
  IF (\E r \in runs : JobOf[r].work = w) /\ intent \notin {"done", "archived"} THEN "running" ELSE intent
ReadsRuns ==
  /\ board.stage = "rows"
  /\ board' = [stage |-> "built", runs |-> LiveRuns,
               rows |-> [w \in DOMAIN board.rows |-> Shown(w, board.rows[w], LiveRuns)],
               orphans |-> {r \in LiveRuns : JobOf[r].work \notin DOMAIN board.rows}]
  /\ UNCHANGED <<wrow, touched, importer, jobRun, alive, moves, raced>>
BoardServed ==
  /\ board.stage = "built" /\ board' = NoBoard
  /\ UNCHANGED <<wrow, touched, importer, jobRun, alive, moves, raced>>

IngestNext ==
  \/ \E w \in WorkId :
       \/ \E i \in {"running", "done"} : AgentWorks(w, i)
       \/ AgentCreates(w) \/ \E p \in WorkId : AgentSetsParent(w, p)
       \/ ReadsBacklogRow(w) \/ Relinks(w) \/ WalksParent(w)
  \/ WritesBacklogRow \/ FillsParent \/ FinalizesJob \/ ImporterDies
  \/ \E r \in ImportRun : JobEnds(r) \/ ImportsJob(r)
  \/ ReadsBoard \/ ReadsRuns \/ BoardServed

IngestSpec == IngestInit /\ [][IngestNext]_ingestVars

-----------------------------------------------------------------------------
(* Properties.                                                             *)

\* The import never rewinds what agents did, although it decides on old reads:
\* a row that exists keeps its intent and any parent it has, a run that ended
\* never comes back, and a parent cycle is closed only by a backfill that
\* another writer overtook between its walk and its write.
ImportRewindsNothing ==
  [][/\ \A w \in WorkId : Present(w) /\ moves' = moves =>
          /\ wrow'[w].intent = wrow[w].intent
          /\ wrow[w].parent # NoParent => wrow'[w].parent = wrow[w].parent
     /\ \A r \in ImportRun : jobRun[r] = "done" => jobRun'[r] = "done"
     /\ raced' \/ \A w \in WorkId : CycleSafe(wrow[w].parent, w)]_ingestVars
=============================================================================
