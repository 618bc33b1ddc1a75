----------------------------- MODULE MCServices -----------------------------
(* The cockpit's refresh queue, tracked jobs, the gated launch, loops and the *)
(* evidence they leave in one run.  `part` chooses which of them moves: they  *)
(* share no step, so TLC explores their sum.                                  *)
EXTENDS ProjectionQueue, JobLaunch, Custody, Loops

CONSTANTS Parts, wr1, wr2, f1, f2

VARIABLE part

\* Both runners record under one run id; a job's run is also known by its sidecar.
OneRun == [l \in Runner |-> "loop"]
JobAliases == [r \in RunId |-> IF r = "loop" THEN {r} ELSE RunId \ {"loop"}]
PlainRow == [status |-> "queued", lapsed |-> FALSE, old |-> FALSE, context |-> FALSE, sparse |-> FALSE,
             epic |-> FALSE, priority |-> 1, signal |-> TRUE, contract |-> "none"]
SomeRows ==
  {PlainRow, [PlainRow EXCEPT !.priority = 5], [PlainRow EXCEPT !.context = TRUE], [PlainRow EXCEPT !.epic = TRUE],
   [PlainRow EXCEPT !.sparse = TRUE], [PlainRow EXCEPT !.signal = FALSE], [PlainRow EXCEPT !.contract = "valid"],
   [PlainRow EXCEPT !.status = "running", !.lapsed = TRUE], [PlainRow EXCEPT !.status = "running", !.old = TRUE],
   [PlainRow EXCEPT !.status = "running"], [PlainRow EXCEPT !.status = "blocked", !.sparse = TRUE],
   [PlainRow EXCEPT !.status = "blocked", !.context = TRUE],
   [PlainRow EXCEPT !.status = "needs_verification", !.priority = 2], [PlainRow EXCEPT !.status = "done"]}

loopsVars == <<loopVars, adviceVars>>
svcVars == <<part, vars, jobVars, custodyVars, loopsVars>>

ServicesInit ==
  /\ part \in Parts /\ Init /\ JobInit /\ CustodyInit /\ LoopInit
  /\ IF part = "advice" THEN AdviceInit ELSE seen = << >> /\ autonomy = FALSE /\ report = NoReport

\* The steps of one component, the others at rest.
QueueMoves(A) == part = "queue" /\ A /\ UNCHANGED <<part, jobVars, custodyVars, loopsVars>>
JobsMove(A) == part = "jobs" /\ A /\ UNCHANGED <<part, vars, custodyVars, loopsVars>>
ReaderMoves(A) == part = "reader" /\ A /\ UNCHANGED <<part, vars, custodyVars, loopsVars>>
CustodyMoves(A) == part = "custody" /\ A /\ UNCHANGED <<part, vars, jobVars, loopsVars>>
LoopsMove(p, A) == part = p /\ A /\ UNCHANGED <<part, vars, jobVars, custodyVars, adviceVars>>
AdviceMoves(A) == part = "advice" /\ A /\ UNCHANGED <<part, vars, jobVars, custodyVars, loopVars>>

ServicesNext ==
  \/ QueueMoves(Next)
  \/ JobsMove(JobSteps /\ UNCHANGED reader)
  \/ ReaderMoves(JobNext /\ UNCHANGED custody)
  \/ CustodyMoves(CustodyNext)
  \/ LoopsMove("loops", LoopNext)
  \/ LoopsMove("evidence", EvidenceNext)
  \/ LoopsMove("tokens", TokensNext)
  \/ AdviceMoves(AdviceNext)

\* The fairness of FairSpec and CustodySpec, each for its component.
ServicesSpec ==
  /\ ServicesInit /\ [][ServicesNext]_svcVars
  /\ WF_svcVars(QueueMoves(\E f \in Flusher : FlushStep(f)))
  /\ <>[][\A f \in Flusher : ~FlushDies(f)]_vars
  /\ \A w \in Wrapper : WF_svcVars(CustodyMoves(LauncherSteps(w)))

\* A tracked job starts in custody, is attended while it runs, and the outcome
\* recorded for it is its own and stands (sidecar_writer, pglaunch).
JobsStand == JobOutcomeStands /\ WorkloadAttended
=============================================================================
