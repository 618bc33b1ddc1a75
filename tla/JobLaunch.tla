----------------------------- MODULE JobLaunch ------------------------------
(***************************************************************************)
(* A tracked local job, from jobs/launch.py over the custody checks of     *)
(* jobs/roadmap_binding.py to the sidecar file and control record of       *)
(* jobs/sidecar_writer.py and jobs/diagnostic_marker.py.                   *)
(*                                                                         *)
(* Launchers compete for one job id.  A launcher may die at any point and  *)
(* leaves its child behind; a child writes progress under the launch id it *)
(* inherited.  wrapper_control_lock makes each sidecar call atomic except  *)
(* for a death inside it.  Ages are not modelled: a sidecar nobody writes  *)
(* may be stale.                                                           *)
(***************************************************************************)
EXTENDS Integers, FiniteSets

CONSTANTS
  Launcher,     \* launcher processes, each with a launch id of its own
  MaxCustody    \* bound on the claims taken on the work row

ASSUME JobAssumption == MaxCustody \in Nat \ {0} /\ "none" \notin Launcher

VARIABLES
  custody,   \* the claim on the row: [epoch (its fence), running]
  job,       \* per launcher: [pc, fence, child, end (the outcome it reports)]
  jobRun,    \* runs.state of each launcher's run
  sidecar,   \* the progress file
  control,   \* control record: [state, launch, attempt]
  marker,    \* the diagnostic marker file is there
  jobLock,   \* who is inside wrapper_control_lock
  reconciler, \* reconcile_dead between marker and sidecar
  reader     \* a reader of the sidecar, which takes no lock

jobVars == <<custody, job, jobRun, sidecar, control, marker, jobLock, reconciler, reader>>

Final == {"done", "failed"}
NotReading == [pc |-> "rest", before |-> << >>, payload |-> << >>, held |-> FALSE]
NoSidecar == [launch |-> "none", attempt |-> 0, state |-> "", pid |-> FALSE, dead |-> FALSE]

JobInit ==
  /\ custody = [epoch |-> 1, running |-> TRUE]
  /\ job = [l \in Launcher |-> [pc |-> "idle", fence |-> 0, child |-> "none", end |-> "none"]]
  /\ jobRun = [l \in Launcher |-> "none"]
  /\ sidecar = NoSidecar
  /\ control = [state |-> "legacy", launch |-> "none", attempt |-> 0]
  /\ marker = FALSE /\ jobLock = "none" /\ reconciler = FALSE
  /\ reader = NotReading

Alive(l) == job[l].pc \notin {"idle", "exit", "dead"}
At(l, pc) == job[l].pc = pc
Goto(l, pc) == job' = [job EXCEPT ![l].pc = pc]
Leave(l, pc) == job' = [job EXCEPT ![l] = [pc |-> pc, fence |-> 0, child |-> @.child, end |-> "none"]]
\* finalize_run: a run that ended keeps its end.
Close(l, state) ==
  jobRun' = [jobRun EXCEPT ![l] = IF @ \in {"reserved", "live"} THEN state ELSE @]
FileVars == <<sidecar, control, marker, jobLock, reconciler>>

-----------------------------------------------------------------------------
(* Custody: roadmap_binding.                                               *)

\* _query_binding: the claim the caller names is running under its fence.
Bound(fence) == custody.running /\ custody.epoch = fence

\* validate, then the launch policy.
ValidateLaunch(l) ==
  /\ At(l, "idle") /\ custody.running
  /\ job' = [job EXCEPT ![l].pc = "bound", ![l].fence = custody.epoch]
  /\ UNCHANGED <<custody, jobRun, FileVars>>

\* reserve_run: validated again, in the transaction that inserts the run.
ReserveRun(l) ==
  /\ At(l, "bound")
  /\ IF Bound(job[l].fence)
     THEN Goto(l, "reserved") /\ jobRun' = [jobRun EXCEPT ![l] = "reserved"]
     ELSE Leave(l, "exit") /\ UNCHANGED jobRun
  /\ UNCHANGED <<custody, FileVars>>

\* reserved_launch_guard: custody once more, held through Popen by the write
\* transaction.
GuardHolds(l) == jobRun[l] = "reserved" /\ Bound(job[l].fence)

SpawnChild(l) ==
  /\ At(l, "reserved")
  /\ IF GuardHolds(l)
     THEN job' = [job EXCEPT ![l].pc = "spawned", ![l].child = "running"] /\ UNCHANGED jobRun
     ELSE Leave(l, "exit") /\ Close(l, "failed")
  /\ UNCHANGED <<custody, FileVars>>

\* The child is ended and the run closed before a sidecar exists.
GiveUp(l) ==
  /\ job' = [job EXCEPT ![l] = [pc |-> "exit", fence |-> 0, child |-> "ended", end |-> "none"]]
  /\ Close(l, "failed")

\* _appear_coord_run: the reserved row becomes live, or the launch is undone.
ActivateRun(l) ==
  /\ At(l, "spawned")
  /\ IF jobRun[l] = "reserved"
     THEN Goto(l, "active") /\ jobRun' = [jobRun EXCEPT ![l] = "live"]
     ELSE GiveUp(l)
  /\ UNCHANGED <<custody, FileVars>>

-----------------------------------------------------------------------------
(* The sidecar: sidecar_writer.                                            *)

\* What appear refuses: a record half written under an active sidecar, or a
\* sidecar still active whose launcher lives.
AppearRefused ==
  /\ sidecar.state \notin Final
  /\ \/ control.state = "invalid"
     \/ control.state = "valid" /\ Alive(control.launch)

Appear(l) ==
  /\ At(l, "active") /\ jobLock = "none"
  /\ \/ AppearRefused /\ GiveUp(l) /\ UNCHANGED <<control, jobLock>>
     \/ /\ ~AppearRefused
        /\ Goto(l, "sentinel") /\ jobLock' = l
        /\ control' = [control EXCEPT !.state = IF @ = "legacy" THEN "invalid" ELSE @]
        /\ UNCHANGED jobRun
  /\ UNCHANGED <<custody, sidecar, marker, reconciler>>

\* The record of publish_wrapper_control, after its sentinel file.
PublishControl(l) ==
  /\ At(l, "sentinel") /\ Goto(l, "published")
  /\ control' = [state |-> "valid", launch |-> l,
                 attempt |-> (IF control.attempt > 0 THEN control.attempt ELSE sidecar.attempt) + 1]
  /\ UNCHANGED <<custody, jobRun, sidecar, marker, jobLock, reconciler>>

WriteAppeared(l) ==
  /\ At(l, "published") /\ Goto(l, "written")
  /\ sidecar' = [NoSidecar EXCEPT !.launch = l, !.attempt = control.attempt, !.state = "running"]
  /\ UNCHANGED <<custody, jobRun, control, marker, jobLock, reconciler>>

ClearMarker(l) ==
  /\ At(l, "written") /\ Goto(l, "polling")
  /\ marker' = FALSE /\ jobLock' = "none"
  /\ UNCHANGED <<custody, jobRun, sidecar, control, reconciler>>

\* Mutant: only a running report is kept off a finished job.
FencedFromRunning(state) == sidecar.state \in Final /\ state \notin Final
\* _terminal_fenced.
TerminalFenced(state) == sidecar.state \in Final /\ state # sidecar.state

\* _attempt_fenced: the launcher gives its attempt, a child gives none.
AttemptFenced(by) == by = "launcher" /\ sidecar.attempt # control.attempt

\* _update_locked: nothing happens unless the caller's launch is in control.
Update(l, by, state) ==
  /\ jobLock = "none"
  /\ sidecar' = IF control.state = "valid" /\ control.launch = l
                   /\ ~AttemptFenced(by) /\ ~TerminalFenced(state)
                THEN [sidecar EXCEPT !.state = state, !.pid = @ \/ by = "launcher"]
                ELSE sidecar

\* launch.main's poll.
PollChild(l) ==
  /\ At(l, "polling") /\ job[l].child = "running"
  /\ Update(l, "launcher", "running")
  /\ UNCHANGED <<custody, job, jobRun, control, marker, jobLock, reconciler>>

\* A child reporting on itself, its launcher alive or not.
ChildReports(l, state) ==
  /\ job[l].child = "running"
  /\ Update(l, "child", state)
  /\ UNCHANGED <<custody, job, jobRun, control, marker, jobLock, reconciler>>

ChildEnds(l) ==
  /\ job[l].child = "running" /\ job' = [job EXCEPT ![l].child = "ended"]
  /\ UNCHANGED <<custody, jobRun, FileVars>>

\* finalize of the sidecar: after the child's exit, or after reaping it over
\* the memory cap, on a signal, or with descendants left.
FinalizeSidecar(l, state) ==
  /\ At(l, "polling")
  /\ state = "done" => job[l].child = "ended"
  /\ Update(l, "launcher", state)
  /\ job' = [job EXCEPT ![l].pc = "ending", ![l].child = "ended", ![l].end = state]
  /\ UNCHANGED <<custody, jobRun, control, marker, jobLock, reconciler>>

\* _finalize_coord_run.
FinalizeRun(l) ==
  /\ At(l, "ending") /\ Leave(l, "exit")
  /\ Close(l, job[l].end)
  /\ UNCHANGED <<custody, FileVars>>

\* SIGKILL, or SIGTERM before the handlers are installed.
LauncherDies(l) ==
  /\ Alive(l) /\ Leave(l, "dead")
  /\ jobLock' = IF jobLock = l THEN "none" ELSE jobLock
  /\ UNCHANGED <<custody, jobRun, sidecar, control, marker, reconciler>>

-----------------------------------------------------------------------------
(* reconcile_dead.                                                         *)

\* Every process the sidecar records is gone.
RecordedGone ==
  /\ sidecar.launch \in Launcher /\ ~Alive(sidecar.launch)
  /\ sidecar.pid => job[sidecar.launch].child # "running"

MarkDead ==
  /\ jobLock = "none" /\ sidecar.state = "running" /\ RecordedGone
  /\ marker' = TRUE /\ jobLock' = "reconciler" /\ reconciler' = TRUE
  /\ UNCHANGED <<custody, job, jobRun, sidecar, control>>

WriteDead ==
  /\ reconciler
  /\ sidecar' = [sidecar EXCEPT !.state = "failed", !.dead = TRUE]
  /\ jobLock' = "none" /\ reconciler' = FALSE
  /\ UNCHANGED <<custody, job, jobRun, control, marker>>

ReconcilerDies ==
  /\ reconciler /\ jobLock' = "none" /\ reconciler' = FALSE
  /\ UNCHANGED <<custody, job, jobRun, sidecar, control, marker>>

-----------------------------------------------------------------------------
(* read_sidecar_with_authority.                                            *)

\* observe_authority: the control record, the marker and the file.
Observed == <<control, marker, sidecar>>

\* evaluate_authority on a payload: of the launch in control, unmarked, and
\* not itself diagnostic.
Authoritative(payload) ==
  /\ control.state = "valid" /\ payload.launch = control.launch
  /\ ~marker /\ ~payload.dead

ObserveBefore ==
  /\ reader.pc = "rest"
  /\ reader' = [NotReading EXCEPT !.pc = "observed", !.before = Observed]
  /\ UNCHANGED <<custody, job, jobRun, FileVars>>

ReadPayload ==
  /\ reader.pc = "observed" /\ sidecar # NoSidecar
  /\ reader' = [reader EXCEPT !.pc = "read", !.payload = sidecar, !.held = Authoritative(sidecar)]
  /\ UNCHANGED <<custody, job, jobRun, FileVars>>

Trusts(payload) == Observed = reader.before /\ Authoritative(payload)

Evaluate ==
  /\ reader.pc = "read"
  /\ reader' = [NotReading EXCEPT !.held = reader.held,
                  !.pc = IF Trusts(reader.payload) THEN "trusted" ELSE "diagnostic"]
  /\ UNCHANGED <<custody, job, jobRun, FileVars>>

JobReader == ObserveBefore \/ ReadPayload \/ Evaluate

-----------------------------------------------------------------------------
\* The claim ends, and a new one is taken (ClaimLifecycle).
ClaimEnds ==
  /\ custody.running /\ custody' = [custody EXCEPT !.running = FALSE]
  /\ UNCHANGED <<job, jobRun, FileVars>>
ClaimTaken ==
  /\ ~custody.running /\ custody.epoch < MaxCustody
  /\ custody' = [epoch |-> custody.epoch + 1, running |-> TRUE]
  /\ UNCHANGED <<job, jobRun, FileVars>>
\* The reaper closes a run it finds dead.
RunOrphaned(l) ==
  /\ jobRun[l] \in {"reserved", "live"} /\ ~custody.running
  /\ jobRun' = [jobRun EXCEPT ![l] = "orphaned"]
  /\ UNCHANGED <<custody, job, FileVars>>

JobSteps ==
  \/ \E l \in Launcher :
       \/ ValidateLaunch(l) \/ ReserveRun(l) \/ SpawnChild(l) \/ ActivateRun(l)
       \/ Appear(l) \/ PublishControl(l) \/ WriteAppeared(l) \/ ClearMarker(l)
       \/ PollChild(l) \/ ChildEnds(l) \/ LauncherDies(l) \/ RunOrphaned(l)
       \/ FinalizeRun(l)
       \/ \E s \in Final : FinalizeSidecar(l, s)
       \/ \E s \in Final \cup {"running"} : ChildReports(l, s)
  \/ MarkDead \/ WriteDead \/ ReconcilerDies
  \/ ClaimEnds \/ ClaimTaken

JobNext ==
  \/ JobSteps /\ UNCHANGED reader
  \/ JobReader

JobSpec == JobInit /\ [][JobNext]_jobVars

-----------------------------------------------------------------------------
(* Properties.                                                             *)

\* A process starts only while the claim it was launched under is running
\* under the same fence, whatever happens between the first check and Popen
\* (reserved_launch_guard).
LaunchedInCustody ==
  [][\A l \in Launcher :
       job[l].child = "none" /\ job'[l].child = "running" => Bound(job[l].fence)]_jobVars

\* A finished job stays as it finished until a later attempt replaces it:
\* neither the launcher, a child it left behind, a launcher of an older
\* attempt nor the reconciler changes the outcome (_terminal_fenced,
\* _update_locked, appear).
TerminalSticks ==
  [][sidecar.state \in Final /\ sidecar'.state # sidecar.state =>
       sidecar'.attempt > sidecar.attempt]_jobVars

\* A reader without a lock trusts a payload only if it was authoritative at
\* the instant it was read, although control record, file and marker change
\* one after another (read_sidecar_with_authority).
TrustedWasHeld == reader.pc = "trusted" => reader.held

\* A job starts in custody, its outcome stands, and a reader trusts only what
\* held when it was read (reserved_launch_guard, _terminal_fenced,
\* read_sidecar_with_authority).
JobOutcomeStands == LaunchedInCustody /\ TerminalSticks /\ []TrustedWasHeld
=============================================================================
