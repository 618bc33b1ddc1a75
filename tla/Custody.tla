------------------------------ MODULE Custody -------------------------------
(***************************************************************************)
(* The gated launch of jobs/pglaunch.py under a wrapper that reports with  *)
(* sidecar_writer.wrapper_write.  The launcher forks a child behind a      *)
(* pipe, writes the custody file, waits for two tokens of the wrapper and  *)
(* only then lets the child execute; when the wrapper is gone it ends the  *)
(* child and closes the sidecar of that launch.                            *)
(*                                                                         *)
(* Wrappers compete for one job id.  The wrapper script is not part of the *)
(* repository: its steps are what the launcher waits for.                  *)
(***************************************************************************)
EXTENDS Integers, FiniteSets

CONSTANTS
  Wrapper,    \* wrapper processes, each with its launch id, launcher and child
  MaxStamp    \* bound on the clock

VARIABLES
  wrap,      \* [pc, started] of each wrapper
  guard,     \* [pc, rc] of its launcher
  work,      \* its child: none, gated, running or ended
  pgfile,    \* workload_release_state in the custody file
  token,     \* the release file
  telemetry, \* the sidecar: [launch, state, release, started, ended]
  inControl, \* launch id of the control record
  stamp      \* the clock

custodyVars == <<wrap, guard, work, pgfile, token, telemetry, inControl, stamp>>

Over == {"done", "failed"}

CustodyInit ==
  /\ wrap = [w \in Wrapper |-> [pc |-> "idle", started |-> 0]]
  /\ guard = [w \in Wrapper |-> [pc |-> "none", rc |-> 0]]
  /\ work = [w \in Wrapper |-> "none"]
  /\ pgfile = [w \in Wrapper |-> "none"]
  /\ token = [w \in Wrapper |-> "none"]
  /\ telemetry = [launch |-> "none", state |-> "", release |-> "none", started |-> 0, ended |-> 0]
  /\ inControl = "none" /\ stamp = 1

WrapperLives(w) == wrap[w].pc \notin {"idle", "exit", "dead"}
Guard(w, pc) == guard' = [guard EXCEPT ![w].pc = pc]
Ticks == IF stamp < MaxStamp THEN stamp' = stamp + 1 ELSE UNCHANGED stamp

-----------------------------------------------------------------------------
(* wrapper_write.                                                          *)

\* The wrapper script begins: COORD_WRAPPER_STARTED_AT.
WrapperBegins(w) ==
  /\ wrap[w].pc = "idle" /\ stamp < MaxStamp
  /\ wrap' = [wrap EXCEPT ![w] = [pc |-> "begun", started |-> stamp]]
  /\ Ticks
  /\ UNCHANGED <<guard, work, pgfile, token, telemetry, inControl>>

\* A start is refused while the wrapper in control lives, and changes nothing
\* when it began before the run on record began or ended.
StartRefused == inControl \in Wrapper /\ WrapperLives(inControl)
StartOutdated(w) ==
  \/ wrap[w].started < telemetry.started
  \/ telemetry.state \in Over /\ wrap[w].started <= telemetry.ended

StartJob(w) ==
  /\ wrap[w].pc = "begun"
  /\ \/ /\ StartRefused
        /\ wrap' = [wrap EXCEPT ![w].pc = "exit"]
        /\ UNCHANGED <<telemetry, inControl>>
     \/ /\ ~StartRefused
        /\ wrap' = [wrap EXCEPT ![w].pc = "started"]
        /\ IF StartOutdated(w) THEN UNCHANGED <<telemetry, inControl>>
           ELSE /\ inControl' = w
                /\ telemetry' = [launch |-> w, state |-> "running", release |-> "none",
                                 started |-> wrap[w].started, ended |-> 0]
  /\ UNCHANGED <<guard, work, pgfile, token, stamp>>

\* A heartbeat copies the custody file into the sidecar (_copy_pgid_file).
Heartbeat(w) ==
  /\ wrap[w].pc \in {"filed", "authorized", "watching"} /\ inControl = w
  /\ telemetry.state \notin Over
  /\ telemetry' = [telemetry EXCEPT !.release = pgfile[w]]
  /\ UNCHANGED <<wrap, guard, work, pgfile, token, inControl, stamp>>

\* The wrapper reports the launcher's exit code, and is done.
ReportEnd(w) ==
  /\ wrap[w].pc \in {"filed", "authorized", "watching"} /\ guard[w].pc = "end"
  /\ LET state == IF guard[w].rc = 0 THEN "done" ELSE "failed" IN
     IF inControl = w /\ (telemetry.state \in Over => telemetry.state = state)
     THEN /\ telemetry' = [telemetry EXCEPT !.state = state, !.release = pgfile[w],
                                            !.ended = stamp]
          /\ Ticks
     ELSE UNCHANGED <<telemetry, stamp>>
  /\ wrap' = [wrap EXCEPT ![w].pc = "exit"]
  /\ UNCHANGED <<guard, work, pgfile, token, inControl>>

\* The wrapper spawns the launcher, and answers each state of the custody
\* file it has seen with the next token.
SpawnLauncher(w) ==
  /\ wrap[w].pc = "started"
  /\ wrap' = [wrap EXCEPT ![w].pc = "filed"] /\ Guard(w, "fork")
  /\ UNCHANGED <<work, pgfile, token, telemetry, inControl, stamp>>

GiveToken(w) ==
  /\ token[w] = "none"
  /\ \/ /\ wrap[w].pc = "filed" /\ pgfile[w] = "awaiting_wrapper"
        /\ wrap' = [wrap EXCEPT ![w].pc = "authorized"]
        /\ token' = [token EXCEPT ![w] = "authorize"]
     \/ /\ wrap[w].pc = "authorized" /\ pgfile[w] = "authorized"
        /\ wrap' = [wrap EXCEPT ![w].pc = "watching"]
        /\ token' = [token EXCEPT ![w] = "execute"]
  /\ UNCHANGED <<guard, work, pgfile, telemetry, inControl, stamp>>

WrapperDies(w) ==
  /\ WrapperLives(w)
  /\ wrap' = [wrap EXCEPT ![w].pc = "dead"]
  /\ UNCHANGED <<guard, work, pgfile, token, telemetry, inControl, stamp>>

-----------------------------------------------------------------------------
(* The launcher.                                                           *)

\* _fork_gated_child: the child waits on the pipe.
ForkGated(w) ==
  /\ guard[w].pc = "fork" /\ Guard(w, "file")
  /\ work' = [work EXCEPT ![w] = "gated"]
  /\ UNCHANGED <<wrap, pgfile, token, telemetry, inControl, stamp>>

WriteCustody(w) ==
  /\ guard[w].pc = "file" /\ Guard(w, "await_authorize")
  /\ pgfile' = [pgfile EXCEPT ![w] = "awaiting_wrapper"]
  /\ UNCHANGED <<wrap, work, token, telemetry, inControl, stamp>>

\* _wait_for_release: the token of this phase, and the wrapper there.
TakeToken(w) ==
  /\ WrapperLives(w)
  /\ \/ /\ guard[w].pc = "await_authorize" /\ token[w] = "authorize"
        /\ Guard(w, "authorizing")
     \/ /\ guard[w].pc = "await_execute" /\ token[w] = "execute"
        /\ Guard(w, "releasing")
  /\ token' = [token EXCEPT ![w] = "none"]
  /\ UNCHANGED <<wrap, work, pgfile, telemetry, inControl, stamp>>

WriteAuthorized(w) ==
  /\ guard[w].pc = "authorizing" /\ Guard(w, "await_execute")
  /\ pgfile' = [pgfile EXCEPT ![w] = "authorized"]
  /\ UNCHANGED <<wrap, work, token, telemetry, inControl, stamp>>

\* _release_child_gate.
OpenGate(w) ==
  /\ guard[w].pc = "releasing" /\ WrapperLives(w) /\ Guard(w, "watch")
  /\ work' = [work EXCEPT ![w] = "running"]
  /\ UNCHANGED <<wrap, pgfile, token, telemetry, inControl, stamp>>

ChildExits(w) ==
  /\ work[w] = "running" /\ work' = [work EXCEPT ![w] = "ended"]
  /\ UNCHANGED <<wrap, guard, pgfile, token, telemetry, inControl, stamp>>

\* The child is over: 0 unless it failed or left descendants to be reaped.
LauncherExits(w, rc) ==
  /\ guard[w].pc = "watch" /\ work[w] = "ended"
  /\ guard' = [guard EXCEPT ![w] = [pc |-> "end", rc |-> rc]]
  /\ UNCHANGED <<wrap, work, pgfile, token, telemetry, inControl, stamp>>

\* Every wait looks at the wrapper (_wrapper_parent_alive).
SeesLoss(w) ==
  ~WrapperLives(w)
  /\ guard[w].pc \in {"await_authorize", "await_execute", "releasing", "watch"}

\* _reap_group on the loss of the wrapper.
ReapOnLoss(w) ==
  /\ SeesLoss(w) /\ (guard[w].pc = "watch" => work[w] = "running")
  /\ guard' = [guard EXCEPT ![w] = [pc |-> "lost", rc |-> 125]]
  /\ work' = [work EXCEPT ![w] = "ended"]
  /\ UNCHANGED <<wrap, pgfile, token, telemetry, inControl, stamp>>

\* The sidecar is this launch's, with the custody the launcher last wrote; in
\* the gap before the first copy it has none.
ExactLaunch(w) ==
  /\ telemetry.launch = w
  /\ \/ telemetry.release = pgfile[w]
     \/ telemetry.release = "none" /\ pgfile[w] = "awaiting_wrapper"

\* _terminalize_wrapper_loss.
RecordLoss(w) ==
  /\ guard[w].pc = "lost" /\ Guard(w, "end")
  /\ IF ExactLaunch(w) /\ telemetry.state \notin Over
     THEN telemetry' = [telemetry EXCEPT !.state = "failed", !.ended = stamp] /\ Ticks
     ELSE UNCHANGED <<telemetry, stamp>>
  /\ UNCHANGED <<wrap, work, pgfile, token, inControl>>

\* SIGTERM or SIGINT: the handler reaps and leaves.
LauncherSignalled(w) ==
  /\ guard[w].pc \in {"await_authorize", "authorizing", "await_execute", "releasing", "watch"}
  /\ guard' = [guard EXCEPT ![w] = [pc |-> "end", rc |-> 143]]
  /\ work' = [work EXCEPT ![w] = "ended"]
  /\ UNCHANGED <<wrap, pgfile, token, telemetry, inControl, stamp>>

LauncherSteps(w) ==
  \/ ForkGated(w) \/ WriteCustody(w) \/ TakeToken(w) \/ WriteAuthorized(w) \/ OpenGate(w)
  \/ \E rc \in {0, 1} : LauncherExits(w, rc)
  \/ ReapOnLoss(w) \/ RecordLoss(w)

CustodyNext ==
  \E w \in Wrapper :
    \/ WrapperBegins(w) \/ StartJob(w) \/ Heartbeat(w) \/ ReportEnd(w)
    \/ SpawnLauncher(w) \/ GiveToken(w) \/ WrapperDies(w)
    \/ ChildExits(w) \/ LauncherSignalled(w)
    \/ LauncherSteps(w)

\* The launcher runs on whatever happens to its wrapper.
CustodyFairness == \A w \in Wrapper : WF_custodyVars(LauncherSteps(w))
CustodySpec == CustodyInit /\ [][CustodyNext]_custodyVars /\ CustodyFairness

-----------------------------------------------------------------------------
(* Properties.                                                             *)

\* A running job is reported finished, by its wrapper or by a launcher that
\* lost its wrapper, only when the workload of that launch is over: a launcher
\* that is late never closes the sidecar of a newer launch
\* (_terminalize_wrapper_loss, wrapper_write).
FinishedMeansStopped ==
  [][telemetry.state = "running" /\ telemetry'.state \in Over =>
       telemetry'.launch = telemetry.launch /\ work[telemetry.launch] # "running"]_custodyVars

\* A workload does not outlive its wrapper: when the wrapper is gone, the
\* launcher ends the process group (pglaunch.main).
NoUnattendedWorkload ==
  \A w \in Wrapper : wrap[w].pc = "dead" ~> work[w] # "running"

\* A workload is attended from its launch to its end: it is reported finished
\* only when it is, and does not outlive its wrapper.
WorkloadAttended == FinishedMeansStopped /\ NoUnattendedWorkload
=============================================================================
