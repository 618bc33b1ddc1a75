------------------------------ MODULE WorkRows ------------------------------
(***************************************************************************)
(* The maintenance verbs on work rows of coord/coord_db.py: creating and   *)
(* amending rows, retiring and archiving them, correcting their context,   *)
(* releasing classified blocks and sweeping false completions.             *)
(*                                                                         *)
(* Every verb is one BEGIN IMMEDIATE transaction, most of them behind a    *)
(* compare-and-swap on the row's version: a stale call is refused and      *)
(* changes nothing.  The sweep reads before its transaction opens.         *)
(***************************************************************************)
EXTENDS Integers, Sequences, FiniteSets

CONSTANTS
  Row,         \* work ids
  RowSession,  \* sessions
  ParentWalk,  \* _PARENT_CYCLE_WALK_MAX_DEPTH
  MaxSteps     \* bound on the verbs called

Nobody == "nobody"
ASSUME WorkRowsAssumption ==
  ParentWalk \in Nat /\ MaxSteps \in Nat /\ Nobody \notin Row

VARIABLES
  wrow,      \* work_items: [intent, parent, reason, note, pred, archived]
  holders,   \* sessions with a held claim on each row
  claimed,   \* rows that ever had a claim
  traces,    \* rows with a run, an event or an artifact
  badSignal, \* rows whose done signal file declares itself incomplete
  receipt,   \* idempotency keys of events the verbs wrote
  sweep,     \* rows a running sweep found, with what it saw
  steps

rowVars == <<wrow, holders, claimed, traces, badSignal, receipt, sweep, steps>>

Absent == [intent |-> "absent", parent |-> Nobody, reason |-> "none", note |-> FALSE,
           pred |-> FALSE, archived |-> FALSE]
Terminal == {"done", "superseded", "archived"}
NoSweep == [rows |-> {}, seen |-> << >>, on |-> FALSE]

RowsInit ==
  /\ wrow = [w \in Row |-> Absent]
  /\ holders = [w \in Row |-> {}]
  /\ claimed = {} /\ traces = {} /\ badSignal = {} /\ receipt = {}
  /\ sweep = NoSweep
  /\ steps = 0

Exists(w) == wrow[w].intent # "absent"
Step == steps < MaxSteps /\ steps' = steps + 1

-----------------------------------------------------------------------------
(* Creating and amending.                                                  *)

\* _walk_parent_chain_for_cycle_unlocked: the rows met on the way up from p,
\* of which it looks at one more than the depth it walks.
Ancestors(p) ==
  {a \in Row : \E n \in 1..ParentWalk + 1 : \E way \in [1..n -> Row] :
     /\ way[1] = p /\ way[n] = a
     /\ \A i \in 1..n - 1 : way[i + 1] = wrow[way[i]].parent}

\* Mutant: a row is checked against its new parent only.
NotItsOwnParent(w, p) == p # w
\* _validate_relation_invariants_unlocked.  The parent need not exist yet.
ParentAllowed(w, p) == w \notin Ancestors(p)

\* create_work: refuses an id that is taken, inside the transaction.
CreateRow(w, p) ==
  /\ Step /\ ~Exists(w) /\ ParentAllowed(w, p)
  /\ wrow' = [wrow EXCEPT ![w] = [Absent EXCEPT !.intent = "planned", !.parent = p]]
  /\ UNCHANGED <<holders, claimed, traces, badSignal, receipt, sweep>>

\* upsert_work on a row that exists; a projection may not touch the parent.
AmendParent(w, p) ==
  /\ Step /\ Exists(w) /\ wrow[w].parent # p /\ ParentAllowed(w, p)
  /\ wrow' = [wrow EXCEPT ![w].parent = p]
  /\ UNCHANGED <<holders, claimed, traces, badSignal, receipt, sweep>>

\* apply_legacy_handoff_work with a target: every held claim ends, whoever
\* holds it, and the row, finished or not, waits in the target state.
LegacyTransition(w, target) ==
  /\ Step /\ Exists(w)
  /\ wrow' = [wrow EXCEPT ![w].intent = target]
  /\ holders' = [holders EXCEPT ![w] = {}]
  /\ UNCHANGED <<claimed, traces, badSignal, receipt, sweep>>

\* backfill_work_context and correct_work_context_pointer: a note is filled
\* once and never replaced.
BackfillContext(w) ==
  /\ Step /\ Exists(w) /\ wrow[w].intent \notin Terminal /\ ~wrow[w].note
  /\ wrow' = [wrow EXCEPT ![w].note = TRUE]
  /\ traces' = traces \cup {w}
  /\ UNCHANGED <<holders, claimed, badSignal, receipt, sweep>>

\* The pointer must be dangling and its replacement must resolve.
PointerDangles(w) == Exists(w) /\ wrow[w].note
CorrectContextPointer(w) ==
  /\ Step /\ PointerDangles(w)
  /\ traces' = traces \cup {w}
  /\ UNCHANGED <<wrow, holders, claimed, badSignal, receipt, sweep>>

-----------------------------------------------------------------------------
(* Claims, as far as the verbs look at them.                               *)

TakeRow(s, w) ==
  /\ Step /\ wrow[w].intent \in {"planned", "queued", "running"} /\ holders[w] = {}
  /\ wrow' = [wrow EXCEPT ![w].intent = "running"]
  /\ holders' = [holders EXCEPT ![w] = {s}]
  /\ claimed' = claimed \cup {w}
  /\ UNCHANGED <<traces, badSignal, receipt, sweep>>

\* The claim expires: its row goes back to the queue.
ClaimExpires(w) ==
  /\ Step /\ holders[w] # {}
  /\ holders' = [holders EXCEPT ![w] = {}]
  /\ wrow' = [wrow EXCEPT ![w].intent = IF @ = "running" THEN "queued" ELSE @]
  /\ UNCHANGED <<claimed, traces, badSignal, receipt, sweep>>

BlockRow(w, class) ==
  /\ Step /\ holders[w] # {} /\ wrow[w].intent = "running"
  /\ wrow' = [wrow EXCEPT ![w].intent = "blocked", ![w].reason = class]
  /\ UNCHANGED <<holders, claimed, traces, badSignal, receipt, sweep>>

FinishRow(w) ==
  /\ Step /\ holders[w] # {} /\ wrow[w].intent = "running"
  /\ wrow' = [wrow EXCEPT ![w].intent = "done"]
  /\ holders' = [holders EXCEPT ![w] = {}]
  /\ traces' = traces \cup {w}
  /\ UNCHANGED <<claimed, badSignal, receipt, sweep>>

\* Somebody edits the file the done signal names.
SignalEdited(w) ==
  /\ Step /\ Exists(w)
  /\ badSignal' = IF w \in badSignal THEN badSignal \ {w} ELSE badSignal \cup {w}
  /\ UNCHANGED <<wrow, holders, claimed, traces, receipt, sweep>>

-----------------------------------------------------------------------------
(* Ending and reviving rows.                                               *)

Archivable(w) ==
  /\ wrow[w].intent \in {"planned", "queued"}
  /\ w \notin claimed /\ w \notin traces

\* archive_projection_work_if_unowned.
ArchiveProjection(w) ==
  /\ Step /\ Archivable(w)
  /\ wrow' = [wrow EXCEPT ![w].intent = "archived"]
  /\ UNCHANGED <<holders, claimed, traces, badSignal, receipt, sweep>>

\* reconcile_invalid_projection_work: the row lacks required fields; exactly
\* the expired claims named, no run, event, artifact or done signal.
Malformed(w) == wrow[w].intent \in {"planned", "queued"} /\ ~wrow[w].note
ReconcileInvalid(w) ==
  /\ Step /\ Malformed(w)
  /\ w \in claimed /\ holders[w] = {} /\ w \notin traces
  /\ wrow' = [wrow EXCEPT ![w].intent = "superseded"]
  /\ traces' = traces \cup {w}
  /\ UNCHANGED <<holders, claimed, badSignal, receipt, sweep>>

\* prune_terminal: old terminal rows are marked archived and kept.
PruneTerminal ==
  LET old == {w \in Row : wrow[w].intent \in Terminal /\ ~wrow[w].archived} IN
  /\ Step /\ old # {}
  /\ wrow' = [w \in Row |-> [wrow[w] EXCEPT !.archived = @ \/ w \in old]]
  /\ UNCHANGED <<holders, claimed, traces, badSignal, receipt, sweep>>

\* migrate_blocked_resume_predicate: on a blocked row nobody holds or runs.
WithoutPredicate(w) == wrow[w].intent = "blocked" /\ ~wrow[w].pred
MigratePredicate(w) ==
  /\ Step /\ WithoutPredicate(w) /\ holders[w] = {}
  /\ wrow' = [wrow EXCEPT ![w].pred = TRUE]
  /\ traces' = traces \cup {w}
  /\ UNCHANGED <<holders, claimed, badSignal, receipt, sweep>>

\* release_classified_block: the receipt is keyed by the request, which names
\* neither a version nor an operation.
ReleaseKey(s, w) == <<"release", s, w>>
ReleaseBlock(s, w) ==
  /\ Step /\ ReleaseKey(s, w) \notin receipt
  /\ wrow[w].intent = "blocked" /\ wrow[w].reason = "ready_for_owner_resume"
  /\ wrow' = [wrow EXCEPT ![w].intent = "queued", ![w].reason = "none"]
  /\ holders' = [holders EXCEPT ![w] = {}]
  /\ receipt' = receipt \cup {ReleaseKey(s, w)}
  /\ traces' = traces \cup {w}
  /\ UNCHANGED <<claimed, badSignal, sweep>>

-----------------------------------------------------------------------------
(* The sweep of false completions.                                         *)

SweepScan(s) ==
  LET found == {w \in Row : wrow[w].intent = "done" /\ w \in badSignal} IN
  /\ Step /\ ~sweep.on /\ found # {}
  /\ \E a \in Row : s \in holders[a] /\ wrow[a].intent = "running"
  /\ sweep' = [rows |-> found, seen |-> [w \in found |-> wrow[w]], on |-> TRUE]
  /\ UNCHANGED <<wrow, holders, claimed, traces, badSignal, receipt>>

\* The compare-and-swap of one finding, and its receipt: one per row, for ever.
Reopenable(w) ==
  wrow[w] = sweep.seen[w] /\ <<"reopen", w>> \notin receipt

\* reopen_done_signal_status_mismatches: every finding, or none.
SweepApply ==
  /\ Step /\ sweep.on
  /\ \A w \in sweep.rows : Reopenable(w)
  /\ wrow' = [w \in Row |-> IF w \in sweep.rows
                THEN [wrow[w] EXCEPT !.intent = "blocked", !.reason = "self_declared"]
                ELSE wrow[w]]
  /\ receipt' = receipt \cup {<<"reopen", w>> : w \in sweep.rows}
  /\ sweep' = NoSweep
  /\ UNCHANGED <<holders, claimed, traces, badSignal>>

SweepRefused ==
  /\ sweep.on /\ \E w \in sweep.rows : ~Reopenable(w)
  /\ sweep' = NoSweep
  /\ UNCHANGED <<wrow, holders, claimed, traces, badSignal, receipt, steps>>

RowsNext ==
  \/ \E w \in Row :
       \/ \E p \in Row \cup {Nobody} : CreateRow(w, p) \/ AmendParent(w, p)
       \/ \E t \in {"queued", "blocked"} : LegacyTransition(w, t)
       \/ BackfillContext(w) \/ CorrectContextPointer(w)
       \/ \E s \in RowSession : TakeRow(s, w) \/ ReleaseBlock(s, w)
       \/ ClaimExpires(w) \/ FinishRow(w) \/ SignalEdited(w)
       \/ \E c \in {"ready_for_owner_resume", "other"} : BlockRow(w, c)
       \/ ArchiveProjection(w) \/ ReconcileInvalid(w) \/ MigratePredicate(w)
  \/ PruneTerminal
  \/ \E s \in RowSession : SweepScan(s)
  \/ SweepApply \/ SweepRefused

RowsSpec == RowsInit /\ [][RowsNext]_rowVars

-----------------------------------------------------------------------------
(* What the verbs preserve.                                                *)

\* However rows are created before their parents, amended and moved, no row is
\* its own ancestor within the depth the check walks.
NotItsOwnAncestor(w) == w \notin Ancestors(wrow[w].parent)

\* A maintenance verb that ends a row ends one nobody ever worked on, or whose
\* claims all lapsed without a trace; and the sweep undoes only a completion it
\* looked at, in the form it saw.
EndedForCause ==
  [][\A w \in Row :
       /\ wrow'[w].intent = "archived" /\ wrow[w].intent # "archived" =>
            holders[w] = {} /\ w \notin traces /\ w \notin claimed
       /\ wrow'[w].intent = "superseded" /\ wrow[w].intent # "superseded" =>
            holders[w] = {} /\ w \notin traces
       /\ wrow'[w].reason = "self_declared" /\ wrow[w].reason # "self_declared" =>
            /\ wrow[w].intent = "done"
            /\ w \in sweep.rows /\ wrow[w] = sweep.seen[w]]_rowVars

\* The table of rows stays a forest, and maintenance ends only rows it may
\* end (upsert_work, the archive and supersede verbs, the sweep of done rows).
RowsKept == [](\A w \in Row : NotItsOwnAncestor(w)) /\ EndedForCause
=============================================================================
