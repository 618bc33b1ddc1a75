---------------------------- MODULE ReaperProofs ----------------------------
(***************************************************************************)
(* The lifecycle and the reaper, for every number of agents, rows, claims  *)
(* and runs: type correctness, who owns a row, what its completion and its *)
(* continuations rest on, and the maintenance of the table of rows.        *)
(* Every step of the system changes the claims table in one of two ways:   *)
(* a quiet step renews, suspends or ends claims that are held; an epoch    *)
(* step also inserts one claim, on a row that is not done, whose held      *)
(* claims it ends and whose leases had all expired.  All that is said of   *)
(* ownership follows from that.  A row is done only by the completion of   *)
(* the claim that held it, readiness is recorded only for the predicate a  *)
(* row has now, and a continuation that queues a row leaves nobody holding *)
(* it.                                                                     *)
(***************************************************************************)
EXTENDS Reaper, WorkRows, FiniteOrders

-----------------------------------------------------------------------------
(* Rows that stay rows of their table.                                     *)

\* Renewals write the lease of a session or of a claim and nothing else.
LEMMA LeaseType ==
        /\ Lease \in Int
        /\ \A r \in SessionRow : [r EXCEPT !.left = Lease] \in SessionRow
        /\ \A r \in ClaimRow : [r EXCEPT !.left = Lease] \in ClaimRow
<1>1. Lease \in Int
  BY TimeAssumption DEF TimeAssumption
<1> QED BY <1>1 DEF SessionRow, ClaimRow

\* Renewing a family of sessions leaves both tables well formed.
LEMMA RenewType ==
  ASSUME LifeTypeOK, NEW F
  PROVE /\ RenewedSessions(F) \in [Session -> SessionRow]
        /\ RenewedClaims(F) \in [Claim -> ClaimRow]
BY LeaseType DEF LifeTypeOK, RenewedSessions, RenewedClaims

\* A work row with another intent is a work row.
LEMMA IntentType ==
  ASSUME NEW r \in WorkRow, NEW i \in Intent
  PROVE WithIntent(r, i) \in WorkRow
BY DEF WithIntent, WorkRow

\* So is one with another predicate.
LEMMA PredicateType ==
  ASSUME NEW r \in WorkRow, NEW p \in Predicates \cup {"none"}
  PROVE WithPredicate(r, p) \in WorkRow
<1>1. p # "none" => p \in PredicateKind
  BY InputAssumption DEF InputAssumption
<1>2. CASE p # "none"
  BY <1>1, <1>2 DEF WithPredicate, WorkRow
<1> QED BY <1>2 DEF WithPredicate

\* A claim with another status, held or ended, is a claim.
LEMMA StatusType ==
  ASSUME NEW r \in ClaimRow, NEW st \in HeldStatus \cup EndedStatus
  PROVE /\ WithEnd(r, st) \in ClaimRow
        /\ [r EXCEPT !.status = st] \in ClaimRow
<1>1. st \in {"none"} \cup HeldStatus \cup EndedStatus
  OBVIOUS
<1>2. [r EXCEPT !.status = st] \in ClaimRow
  BY <1>1 DEF ClaimRow
<1>3. \A q \in ClaimRow : [q EXCEPT !.left = 0] \in ClaimRow
  BY DEF ClaimRow
<1>4. WithEnd(r, st) = [[r EXCEPT !.status = st] EXCEPT !.left = 0]
  BY DEF WithEnd
<1> QED BY <1>2, <1>3, <1>4

\* The expiry sweep.
LEMMA SweepType ==
  ASSUME LifeTypeOK, NEW W
  PROVE /\ SweptClaims(W) \in [Claim -> ClaimRow]
        /\ SweptRows(W) \in [Work -> WorkRow]
<1>1. \A c \in Claim : WithEnd(claim[c], "unclaimed") \in ClaimRow
  BY StatusType DEF LifeTypeOK, EndedStatus
<1>2. \A w \in Work : WithIntent(row[w], "queued") \in WorkRow
  BY IntentType DEF LifeTypeOK, Intent
<1> QED BY <1>1, <1>2 DEF LifeTypeOK, SweptClaims, SweptRows

\* Marking a run terminal leaves it a run.
LEMMA OverType ==
  ASSUME LifeTypeOK
  PROVE \A r \in Run : [run[r] EXCEPT !.state = "over"] \in RunRow
BY DEF LifeTypeOK, RunRow

-----------------------------------------------------------------------------
(* Sessions.                                                               *)

\* register_session, renew_lease and end_session keep the schema.
LEMMA SessionVerbType ==
  ASSUME LifeTypeOK, NEW s \in Session, SessionVerb(s)
  PROVE LifeTypeOK'
<1>1. ASSUME NEW p \in Pids, RegisterSession(s, p) PROVE LifeTypeOK'
  <2>1. [state |-> "active", left |-> Lease,
         pid |-> IF p = "none" THEN sess[s].pid ELSE p] \in SessionRow
    BY LeaseType, InputAssumption DEF LifeTypeOK, SessionRow, InputAssumption
  <2>2. sess' \in [Session -> SessionRow]
    BY <1>1, <2>1, RenewType DEF RegisterSession
  <2> QED BY <1>1, <2>2, RenewType DEF LifeTypeOK, RegisterSession
<1>2. CASE RenewLease(s)
  BY <1>2, RenewType DEF LifeTypeOK, RenewLease
<1>3. CASE EndSession(s)
  <2>1. sess' \in [Session -> SessionRow]
    BY <1>3 DEF LifeTypeOK, EndSession, SessionRow
  <2>2. run' \in [Run -> RunRow]
    BY <1>3, OverType DEF LifeTypeOK, EndSession, OrphanedRuns
  <2> QED BY <1>3, <2>1, <2>2 DEF LifeTypeOK, EndSession
<1> QED BY <1>1, <1>2, <1>3 DEF SessionVerb

-----------------------------------------------------------------------------
(* Claims.                                                                 *)

\* claim_work, heartbeat_claim, release_claim and complete_claim keep the schema.
LEMMA ClaimVerbType ==
  ASSUME LifeTypeOK, NEW s \in Session, ClaimVerb(s)
  PROVE LifeTypeOK'
<1>1. ASSUME NEW w \in Work, ClaimReentrant(s, w) PROVE LifeTypeOK'
  <2>1. PICK c \in Claim : claim' = [SweptClaims({w}) EXCEPT ![c].left = Lease]
    BY <1>1 DEF ClaimReentrant, OwnLive, HeldOn
  <2>2. claim' \in [Claim -> ClaimRow]
    <3>1. [SweptClaims({w})[c] EXCEPT !.left = Lease] \in ClaimRow
      BY SweepType, LeaseType
    <3> QED BY <2>1, <3>1, SweepType
  <2>3. row' \in [Work -> WorkRow]
    BY <1>1, IntentType DEF LifeTypeOK, ClaimReentrant, Intent
  <2> QED BY <1>1, <2>2, <2>3 DEF LifeTypeOK, ClaimReentrant
<1>2. ASSUME NEW w \in Work, ClaimResume(s, w) PROVE LifeTypeOK'
  <2>1. PICK c \in Claim : claim' = [SweptClaims({w}) EXCEPT
                                       ![c].status = "running", ![c].left = Lease]
    BY <1>2 DEF ClaimResume, OwnLive, HeldOn
  <2>2. claim' \in [Claim -> ClaimRow]
    <3>1. [SweptClaims({w})[c] EXCEPT !.status = "running"] \in ClaimRow
      BY SweepType, StatusType DEF HeldStatus
    <3>2. [[SweptClaims({w})[c] EXCEPT !.status = "running"] EXCEPT !.left = Lease] \in ClaimRow
      BY <3>1, LeaseType
    <3>3. claim' = [SweptClaims({w}) EXCEPT ![c] =
                      [[SweptClaims({w})[c] EXCEPT !.status = "running"] EXCEPT !.left = Lease]]
      BY <2>1, SweepType
    <3> QED BY <3>2, <3>3, SweepType
  <2>3. row' \in [Work -> WorkRow]
    BY <1>2, IntentType DEF LifeTypeOK, ClaimResume, Intent
  <2> QED BY <1>2, <2>2, <2>3 DEF LifeTypeOK, ClaimResume
<1>3. ASSUME NEW w \in Work, NEW c \in Claim, ClaimNew(s, w, c) PROVE LifeTypeOK'
  <2>1. [status |-> "running", work |-> w, session |-> s, left |-> Lease] \in ClaimRow
    BY LeaseType DEF ClaimRow, HeldStatus
  <2>2. claim' \in [Claim -> ClaimRow]
    BY <1>3, <2>1, SweepType DEF ClaimNew
  <2>3. WithIntent(SweptRows({w})[w], "running") \in WorkRow
    BY SweepType, IntentType DEF Intent
  <2>4. [WithIntent(SweptRows({w})[w], "running") EXCEPT !.author = ActorOf[s]] \in WorkRow
    BY <2>3, IdentityAssumption DEF WorkRow, IdentityAssumption
  <2>5. row' \in [Work -> WorkRow]
    BY <1>3, <2>4 DEF LifeTypeOK, ClaimNew
  <2> QED BY <1>3, <2>2, <2>5 DEF LifeTypeOK, ClaimNew
<1>4. ASSUME NEW c \in Claim, HeartbeatClaim(s, c) PROVE LifeTypeOK'
  BY <1>4, RenewType DEF LifeTypeOK, HeartbeatClaim
<1>5. ASSUME NEW c \in Claim, NEW st \in {"released", "unclaimed"}, ReleaseToQueue(s, c, st)
      PROVE LifeTypeOK'
  <2>1. claim' \in [Claim -> ClaimRow]
    BY <1>5, StatusType DEF LifeTypeOK, ReleaseToQueue, EndedStatus
  <2>2. row' \in [Work -> WorkRow]
    BY <1>5, IntentType DEF LifeTypeOK, ReleaseToQueue, Intent
  <2> QED BY <1>5, <2>1, <2>2 DEF LifeTypeOK, ReleaseToQueue
<1>6. ASSUME NEW c \in Claim, NEW st \in {"paused", "blocked"},
             NEW p \in Predicates \cup {"none"}, Suspend(s, c, st, p)
      PROVE LifeTypeOK'
  <2> DEFINE w == claim[c].work
  <2>1. claim' \in [Claim -> ClaimRow]
    BY <1>6, StatusType DEF LifeTypeOK, Suspend, HeldStatus
  <2>2. ASSUME w \in Work PROVE WithPredicate(row[w], p) \in WorkRow
    BY <2>2, PredicateType DEF LifeTypeOK
  <2>3. ASSUME w \in Work PROVE WithIntent(WithPredicate(row[w], p), st) \in WorkRow
    BY <2>2, <2>3, IntentType DEF Intent
  <2>4. ASSUME w \in Work, NEW k \in Reason
        PROVE [WithIntent(WithPredicate(row[w], p), st) EXCEPT !.reason = k] \in WorkRow
    BY <2>3, <2>4 DEF WorkRow
  <2>5. ASSUME w \in Work PROVE row[w].reason \in Reason
    BY <2>5 DEF LifeTypeOK, WorkRow
  <2>6. row' \in [Work -> WorkRow]
    BY <1>6, <2>4, <2>5 DEF LifeTypeOK, Suspend, Reason
  <2> QED BY <1>6, <2>1, <2>6 DEF LifeTypeOK, Suspend
<1>7. ASSUME NEW c \in Claim, CompleteClaim(s, c) PROVE LifeTypeOK'
  <2>1. claim' \in [Claim -> ClaimRow]
    BY <1>7, StatusType DEF LifeTypeOK, CompleteClaim, EndedStatus
  <2>2. row' \in [Work -> WorkRow]
    BY <1>7, IntentType DEF LifeTypeOK, CompleteClaim, Intent
  <2>3. \A x \in Session : [sess[x] EXCEPT !.state = "ended"] \in SessionRow
    BY DEF LifeTypeOK, SessionRow
  <2>4. sess' \in [Session -> SessionRow]
    BY <1>7, <2>3 DEF LifeTypeOK, CompleteClaim, TerminalizedSessions
  <2>5. run' \in [Run -> RunRow]
    BY <1>7, OverType DEF LifeTypeOK, CompleteClaim, TerminalizedRuns
  <2> QED BY <1>7, <2>1, <2>2, <2>4, <2>5 DEF LifeTypeOK, CompleteClaim
<1> QED BY <1>1, <1>2, <1>3, <1>4, <1>5, <1>6, <1>7 DEF ClaimVerb

-----------------------------------------------------------------------------
(* Rows, runs and the environment.                                         *)

\* The verbs on a work row (create, classify, recover, hand off, verdict, run)
\* keep the schema.
LEMMA RowVerbType ==
  ASSUME LifeTypeOK, NEW s \in Session, RowVerb(s)
  PROVE LifeTypeOK'
<1>1. ASSUME NEW w \in Work, NEW a \in Lane \cup {Shared}, CreateWork(w, a) PROVE LifeTypeOK'
  <2>1. [row[w] EXCEPT !.intent = "planned", !.assignee = a] \in WorkRow
    BY ZenonT(40) DEF LifeTypeOK, WorkRow, Intent
  <2>2. row' \in [Work -> WorkRow]
    BY <1>1, <2>1 DEF LifeTypeOK, CreateWork
  <2> QED BY <1>1, <2>2 DEF LifeTypeOK, CreateWork
<1>2. ASSUME NEW w \in Work, ConflictSweep(w) PROVE LifeTypeOK'
  BY <1>2, SweepType DEF LifeTypeOK, ConflictSweep
<1>3. ASSUME NEW w \in Work, ResumeParked(s, w) PROVE LifeTypeOK'
  <2>1. WithIntent(row[w], "queued") \in WorkRow
    BY IntentType DEF LifeTypeOK, Intent
  <2>2. [WithIntent(row[w], "queued") EXCEPT !.ready = @ \/ row[w].pred = "manual"] \in WorkRow
    BY <2>1 DEF WorkRow
  <2>3. row' \in [Work -> WorkRow]
    BY <1>3, <2>2 DEF LifeTypeOK, ResumeParked
  <2> QED BY <1>3, <2>3 DEF LifeTypeOK, ResumeParked
<1>4. ASSUME NEW w \in Work, NEW k \in Classes, ClassifyBlocked(s, w, k) PROVE LifeTypeOK'
  <2>1. k \in Reason
    BY InputAssumption DEF InputAssumption, ReasonClass, Reason
  <2>2. [row[w] EXCEPT !.reason = k] \in WorkRow
    BY <2>1 DEF LifeTypeOK, WorkRow
  <2>3. row' \in [Work -> WorkRow]
    BY <1>4, <2>2 DEF LifeTypeOK, ClassifyBlocked
  <2> QED BY <1>4, <2>3 DEF LifeTypeOK, ClassifyBlocked
<1>5. ASSUME NEW w \in Work, RecoverOrphanedBlock(s, w) PROVE LifeTypeOK'
  <2>1. row' \in [Work -> WorkRow]
    BY <1>5, IntentType DEF LifeTypeOK, RecoverOrphanedBlock, Intent
  <2> QED BY <1>5, <2>1, SweepType DEF LifeTypeOK, RecoverOrphanedBlock
<1>6. ASSUME NEW w \in Work, NEW l \in Lane, NEW t \in {"queued", "blocked"}, Handoff(s, w, l, t)
      PROVE LifeTypeOK'
  <2>1. \A c \in Claim : WithEnd(claim[c], "released") \in ClaimRow
    BY StatusType DEF LifeTypeOK, EndedStatus
  <2>2. claim' \in [Claim -> ClaimRow]
    BY <1>6, <2>1, SweepType DEF Handoff
  <2>3. WithIntent(row[w], t) \in WorkRow
    BY IntentType DEF LifeTypeOK, Intent
  <2>4. [WithIntent(row[w], t) EXCEPT !.assignee = l] \in WorkRow
    BY <2>3 DEF WorkRow
  <2>5. row' \in [Work -> WorkRow]
    BY <1>6, <2>4 DEF LifeTypeOK, Handoff
  <2> QED BY <1>6, <2>2, <2>5 DEF LifeTypeOK, Handoff
<1>7. ASSUME NEW w \in Work, NEW v \in Verdicts, PostVerdict(s, w, v) PROVE LifeTypeOK'
  <2>1. v \in VerdictValue /\ ActorOf[s] \in Lane
    BY InputAssumption, IdentityAssumption DEF InputAssumption, IdentityAssumption
  <2>2. row[w] \in WorkRow
    BY DEF LifeTypeOK
  <2>3. ASSUME v = "PASS" PROVE WithVerdict(row[w], v, ActorOf[s]) \in WorkRow
    <3>1. [row[w] EXCEPT !.verdict = "pass", !.reviewer = ActorOf[s], !.stale = FALSE,
             !.reason = IF row[w].reason = "review" THEN "none" ELSE row[w].reason] \in WorkRow
      BY <2>1, <2>2, ZenonT(40) DEF WorkRow, Reason
    <3> QED BY <2>3, <3>1 DEF WithVerdict
  <2>4. ASSUME v # "PASS" PROVE WithVerdict(row[w], v, ActorOf[s]) \in WorkRow
    <3>1. WithIntent(row[w], "queued") \in WorkRow /\ WithIntent(row[w], "blocked") \in WorkRow
      BY <2>2, IntentType DEF Intent
    <3>2. \A q \in WorkRow : [q EXCEPT !.verdict = "negative", !.reviewer = NoLane] \in WorkRow
      BY DEF WorkRow
    <3> QED BY <2>1, <2>4, <3>1, <3>2 DEF WithVerdict, VerdictValue
  <2>5. row' \in [Work -> WorkRow]
    BY <1>7, <2>3, <2>4 DEF LifeTypeOK, PostVerdict
  <2> QED BY <1>7, <2>5 DEF LifeTypeOK, PostVerdict
<1>8. ASSUME NEW w \in Work, NEW r \in Run, NEW k \in RunKinds, AppearRun(s, w, r, k)
      PROVE LifeTypeOK'
  <2>1. PICK c \in Claim \cup {NoClaim} :
          run' = [run EXCEPT ![r] = [state |-> "live", kind |-> k, work |-> w,
                                     session |-> s, claim |-> c, up |-> TRUE]]
    BY <1>8 DEF AppearRun, Binding, HeldOn
  <2>2. [state |-> "live", kind |-> k, work |-> w, session |-> s, claim |-> c, up |-> TRUE]
          \in RunRow
    BY InputAssumption DEF InputAssumption, RunRow
  <2>3. run' \in [Run -> RunRow]
    BY <2>1, <2>2 DEF LifeTypeOK
  <2> QED BY <1>8, <2>3 DEF LifeTypeOK, AppearRun
<1> QED BY <1>1, <1>2, <1>3, <1>4, <1>5, <1>6, <1>7, <1>8 DEF RowVerb

\* What a launched job does to its run and its claim keeps the schema.
LEMMA RunStepType ==
  ASSUME LifeTypeOK, RunStep
  PROVE LifeTypeOK'
<1>1. ASSUME NEW r \in Run, FinalizeRun(r) PROVE LifeTypeOK'
  BY <1>1, OverType DEF LifeTypeOK, FinalizeRun
<1>2. ASSUME NEW r \in Run, SidecarRenew(r) PROVE LifeTypeOK'
  <2>1. claim' \in [Claim -> ClaimRow]
    BY <1>2, LeaseType DEF LifeTypeOK, SidecarRenew
  <2> QED BY <1>2, <2>1 DEF LifeTypeOK, SidecarRenew
<1>3. ASSUME NEW r \in Run, RunDies(r) PROVE LifeTypeOK'
  <2>1. [run[r] EXCEPT !.up = FALSE] \in RunRow
    BY DEF LifeTypeOK, RunRow
  <2> QED BY <1>3, <2>1 DEF LifeTypeOK, RunDies
<1> QED BY <1>1, <1>2, <1>3 DEF RunStep

\* Time, predicates coming true and processes dying keep the schema.
LEMMA EnvironmentType ==
  ASSUME LifeTypeOK, Environment
  PROVE LifeTypeOK'
<1>1. CASE Tick
  <2>1. SessionFloor \in Int
    BY TimeAssumption DEF TimeAssumption, SessionFloor
  <2>2. \A l, f \in Int : CountDown(l, f) \in Int
    BY DEF CountDown
  <2>3. \A s \in Session : [sess[s] EXCEPT !.left = CountDown(@, SessionFloor)] \in SessionRow
    BY <2>1, <2>2 DEF LifeTypeOK, SessionRow
  <2>4. \A c \in Claim : [claim[c] EXCEPT !.left = CountDown(@, -1)] \in ClaimRow
    BY <2>2 DEF LifeTypeOK, ClaimRow
  <2>5. \A w \in Work : [row[w] EXCEPT !.stale = row[w].intent = "running"] \in WorkRow
    BY ZenonT(40) DEF LifeTypeOK, WorkRow
  <2>6. sess' \in [Session -> SessionRow]
    BY <1>1, <2>3 DEF LifeTypeOK, Tick
  <2>7. claim' \in [Claim -> ClaimRow]
    BY <1>1, <2>4 DEF LifeTypeOK, Tick
  <2>8. row' \in [Work -> WorkRow]
    BY <1>1, <2>5 DEF LifeTypeOK, Tick
  <2> QED BY <1>1, <2>6, <2>7, <2>8 DEF LifeTypeOK, Tick
<1>2. ASSUME NEW w \in Work, PredicateMet(w) PROVE LifeTypeOK'
  <2>1. [row[w] EXCEPT !.met = TRUE] \in WorkRow
    BY DEF LifeTypeOK, WorkRow
  <2> QED BY <1>2, <2>1 DEF LifeTypeOK, PredicateMet
<1>3. ASSUME NEW s \in Session, ProcessExit(s) PROVE LifeTypeOK'
  <2>1. [sess[s] EXCEPT !.pid = "down"] \in SessionRow
    BY DEF LifeTypeOK, SessionRow
  <2> QED BY <1>3, <2>1 DEF LifeTypeOK, ProcessExit
<1>4. ASSUME NEW s \in Mortal, Crash(s) PROVE LifeTypeOK'
  <2>1. s \in Session
    BY InputAssumption DEF InputAssumption
  <2>2. [sess[s] EXCEPT !.pid = IF @ = "up" THEN "down" ELSE @] \in SessionRow
    BY <2>1 DEF LifeTypeOK, SessionRow
  <2> QED BY <1>4, <2>1, <2>2 DEF LifeTypeOK, Crash
<1> QED BY <1>1, <1>2, <1>3, <1>4 DEF Environment

\* Every verb, job step and environment step keeps the schema.
LEMMA LifeNextType ==
  ASSUME LifeTypeOK, LifeNext
  PROVE LifeTypeOK'
BY SessionVerbType, ClaimVerbType, RowVerbType, RunStepType, EnvironmentType DEF LifeNext

-----------------------------------------------------------------------------
(* The reaper.                                                             *)

\* What the continuation scan reads of a row is a scan row.
LEMMA ScannedType ==
  ASSUME LifeTypeOK, NEW w \in Work
  PROVE Scanned(w) \in ScanRow
<1>1. BlockedClaim(w) \in Claim \cup {NoClaim}
  BY DEF BlockedClaim, BlockedOn, HeldOn
<1>2. row[w].intent \in Intent
  BY DEF LifeTypeOK, WorkRow
<1>3. (SafeCandidate(w) /\ (BlockedOn(w) # {} \/ HeldOn(w) = {})) \in BOOLEAN
  BY DEF SafeCandidate
<1> QED BY <1>1, <1>2, <1>3 DEF Scanned, ScanRow

\* Every transaction of a reaper pass keeps the schema and its own snapshots.
LEMMA ReaperStepType ==
  ASSUME TypeOK, ReaperStep
  PROVE TypeOK'
<1>1. CASE Snapshot
  BY <1>1 DEF TypeOK, LifeTypeOK, Snapshot, Phase, lifeVars
<1>2. CASE ReapZombies
  <2>1. claim' \in [Claim -> ClaimRow]
    <3>1. \A c \in Claim : WithEnd(claim[c], "unclaimed") \in ClaimRow
      BY StatusType DEF TypeOK, LifeTypeOK, EndedStatus
    <3> QED BY <1>2, <3>1 DEF TypeOK, LifeTypeOK, ReapZombies
  <2>2. row' \in [Work -> WorkRow]
    <3>1. \A w \in Work : WithIntent(row[w], "queued") \in WorkRow
      BY IntentType DEF TypeOK, LifeTypeOK, Intent
    <3> QED BY <1>2, <3>1 DEF TypeOK, LifeTypeOK, ReapZombies
  <2>3. run' \in [Run -> RunRow]
    BY <1>2, OverType DEF TypeOK, LifeTypeOK, ReapZombies
  <2>4. sess' \in [Session -> SessionRow]
    <3>1. \A s \in Session : [sess[s] EXCEPT !.state = "reaped"] \in SessionRow
      BY DEF TypeOK, LifeTypeOK, SessionRow
    <3> QED BY <1>2, <3>1 DEF TypeOK, LifeTypeOK, ReapZombies
  <2> QED BY <1>2, <2>1, <2>2, <2>3, <2>4 DEF TypeOK, LifeTypeOK, ReapZombies, Phase
<1>3. CASE ContinuationScan
  <2>1. scan' \subseteq ScanRow
    BY <1>3, ScannedType DEF TypeOK, ContinuationScan
  <2> QED BY <1>3, <2>1 DEF TypeOK, LifeTypeOK, ContinuationScan, Phase
<1>4. ASSUME NEW m \in scan, ContinuationEval(m) PROVE TypeOK'
  BY <1>4 DEF TypeOK, LifeTypeOK, ContinuationEval, Phase, lifeVars
<1>5. ASSUME NEW m \in cur, ContinuationApply(m) PROVE TypeOK'
  <2>1. m \in ScanRow /\ m.work \in Work /\ m.claim \in Claim \cup {NoClaim}
    BY DEF TypeOK, ScanRow
  <2>2. [row[m.work] EXCEPT !.ready = TRUE, !.stale = FALSE] \in WorkRow
    <3>1. \A r \in WorkRow : [r EXCEPT !.ready = TRUE, !.stale = FALSE] \in WorkRow
      BY DEF WorkRow
    <3> QED BY <2>1, <3>1 DEF TypeOK, LifeTypeOK
  <2>3. \A r \in WorkRow : [r EXCEPT !.intent = "queued", !.reason = "none"] \in WorkRow
    BY ZenonT(40) DEF WorkRow, Intent, Reason
  <2>4. row' \in [Work -> WorkRow]
    <3>1. Continued(m) \in WorkRow
      BY <2>2, <2>3 DEF Continued
    <3> QED BY <1>5, <2>1, <3>1 DEF TypeOK, LifeTypeOK, ContinuationApply
  <2>5. claim' \in [Claim -> ClaimRow]
    <3>1. m.claim # NoClaim => WithEnd(claim[m.claim], "released") \in ClaimRow
      BY <2>1, StatusType DEF TypeOK, LifeTypeOK, EndedStatus
    <3>2. claim' = ReleaseBlockedClaim(m)
      BY <1>5 DEF ContinuationApply
    <3> QED BY <2>1, <3>1, <3>2 DEF TypeOK, LifeTypeOK, ReleaseBlockedClaim
  <2> QED BY <1>5, <2>4, <2>5 DEF TypeOK, LifeTypeOK, ContinuationApply, Phase
<1>6. ASSUME NEW m \in cur, ContinuationMismatch(m) PROVE TypeOK'
  BY <1>6 DEF TypeOK, LifeTypeOK, ContinuationMismatch, Phase, lifeVars
<1>7. CASE ContinuationEnd
  BY <1>7 DEF TypeOK, LifeTypeOK, ContinuationEnd, Phase
<1>8. CASE RunProbe
  BY <1>8 DEF TypeOK, LifeTypeOK, RunProbe, Phase, lifeVars
<1>9. CASE OrphanProbed
  <2>1. run' \in [Run -> RunRow]
    BY <1>9, OverType DEF TypeOK, LifeTypeOK, OrphanProbed
  <2> QED BY <1>9, <2>1 DEF TypeOK, LifeTypeOK, OrphanProbed, Phase
<1>10. CASE FleetRenew
  <2>1. claim' \in [Claim -> ClaimRow]
    BY <1>10, LeaseType DEF TypeOK, LifeTypeOK, FleetRenew
  <2> QED BY <1>10, <2>1 DEF TypeOK, LifeTypeOK, FleetRenew, Phase
<1>11. CASE DebtScan
  BY <1>11 DEF TypeOK, LifeTypeOK, DebtScan, Phase, lifeVars
<1>12. CASE Normalize
  <2>1. row' \in [Work -> WorkRow]
    BY <1>12, IntentType DEF TypeOK, LifeTypeOK, Normalize, Intent
  <2> QED BY <1>12, <2>1 DEF TypeOK, LifeTypeOK, Normalize, Phase
<1>13. CASE SweepAll
  BY <1>13, SweepType DEF TypeOK, LifeTypeOK, SweepAll, Phase
<1> QED
  BY <1>1, <1>2, <1>3, <1>4, <1>5, <1>6, <1>7, <1>8, <1>9, <1>10, <1>11, <1>12, <1>13
     DEF ReaperStep

\* The empty database is well formed.
LEMMA InitType == Init => TypeOK
BY DEF Init, LifeInit, TypeOK, LifeTypeOK, SessionRow, ClaimRow, WorkRow, RunRow,
       Intent, Reason, Phase

\* Every step, a pass that is killed included, keeps the schema.
LEMMA NextType == TypeOK /\ [Next]_vars => TypeOK'
<1> SUFFICES ASSUME TypeOK, [Next]_vars PROVE TypeOK'
  OBVIOUS
<1>1. CASE LifeNext /\ UNCHANGED reaperVars
  BY <1>1, LifeNextType DEF TypeOK, reaperVars
<1>2. CASE ReaperStep
  BY <1>2, ReaperStepType
<1>3. CASE ReaperAbort
  BY <1>3 DEF TypeOK, LifeTypeOK, ReaperAbort, Phase
<1>4. CASE UNCHANGED vars
  BY <1>4 DEF TypeOK, LifeTypeOK, vars
<1> QED BY <1>1, <1>2, <1>3, <1>4 DEF Next

\* Whatever verbs agents call and wherever a pass of the reaper is cut off, the
\* tables hold rows of their schema and the snapshots of the pass name rows,
\* runs and sessions that exist.
THEOREM TypeCorrect == Spec => []TypeOK
BY InitType, NextType, PTL DEF Spec

-----------------------------------------------------------------------------
(* Ownership.                                                              *)

\* What a step may make of a claim: a row that is not held is not touched, a
\* held one keeps its work and its session.
Successor(r, q) ==
  /\ r.status \notin HeldStatus => q = r
  /\ r.status \in HeldStatus =>
       /\ q.work = r.work /\ q.session = r.session
       /\ q.status \in HeldStatus \cup EndedStatus

QuietStep == \A c \in Claim : Successor(claim[c], claim'[c])

\* The takeover of row w by the new claim c.
EpochStep(w, c) ==
  /\ row[w].intent # "done"
  /\ claim[c].status = "none"
  /\ claim'[c].status = "running" /\ claim'[c].work = w
  /\ \A d \in Claim \ {c} : Successor(claim[d], claim'[d])
  /\ \A d \in HeldOn(w) : Expired(d) /\ claim'[d].status \in EndedStatus
  /\ \A d \in Claim \ {c} : claim[d].work # w => claim'[d] = claim[d]

ClaimStep == QuietStep \/ \E w \in Work, c \in Claim : EpochStep(w, c)

-----------------------------------------------------------------------------
(* Rows of the claims table.                                               *)

\* A renewed claim succeeds the one it was.
LEMMA LeaseSuccessor ==
  ASSUME NEW r \in ClaimRow, r.status \in HeldStatus, NEW l \in Int
  PROVE Successor(r, [r EXCEPT !.left = l])
BY DEF Successor, ClaimRow

\* So does one that is suspended, resumed or ended.
LEMMA StatusSuccessor ==
  ASSUME NEW r \in ClaimRow, r.status \in HeldStatus,
         NEW st \in HeldStatus \cup EndedStatus
  PROVE /\ Successor(r, [r EXCEPT !.status = st])
        /\ Successor(r, WithEnd(r, st))
        /\ WithEnd(r, st).status = st
<1>1. Successor(r, [r EXCEPT !.status = st])
  BY DEF Successor, ClaimRow
<1>2. /\ WithEnd(r, st).status = st
      /\ WithEnd(r, st).work = r.work
      /\ WithEnd(r, st).session = r.session
  BY DEF WithEnd, ClaimRow
<1> QED BY <1>1, <1>2 DEF Successor

\* A claim nobody writes succeeds itself.
LEMMA SameSuccessor ==
  ASSUME NEW r \in ClaimRow
  PROVE Successor(r, r)
<1>1. r.status \in HeldStatus \cup EndedStatus \cup {"none"}
  BY DEF ClaimRow
<1> QED BY <1>1 DEF Successor

\* The expiry sweep ends expired claims of its rows and touches no other claim.
LEMMA SweepSuccessor ==
  ASSUME LifeTypeOK, NEW W, NEW c \in Claim
  PROVE /\ Successor(claim[c], SweptClaims(W)[c])
        /\ Expired(c) /\ claim[c].work \in W => SweptClaims(W)[c].status = "unclaimed"
        /\ ~(Expired(c) /\ claim[c].work \in W) => SweptClaims(W)[c] = claim[c]
<1>1. claim[c] \in ClaimRow
  BY DEF LifeTypeOK
<1>2. CASE Expired(c) /\ claim[c].work \in W
  <2>1. SweptClaims(W)[c] = WithEnd(claim[c], "unclaimed")
    BY <1>2 DEF SweptClaims
  <2>2. claim[c].status \in HeldStatus
    BY <1>2 DEF Expired, Held
  <2> QED BY <1>1, <1>2, <2>1, <2>2, StatusSuccessor DEF EndedStatus
<1>3. CASE ~(Expired(c) /\ claim[c].work \in W)
  <2>1. SweptClaims(W)[c] = claim[c]
    BY <1>3 DEF SweptClaims
  <2> QED BY <1>1, <1>3, <2>1, SameSuccessor
<1> QED BY <1>2, <1>3

\* A renewal of a family is quiet.
LEMMA RenewQuiet ==
  ASSUME LifeTypeOK, NEW F, claim' = RenewedClaims(F)
  PROVE QuietStep
<1> SUFFICES ASSUME NEW c \in Claim PROVE Successor(claim[c], claim'[c])
  BY DEF QuietStep
<1>1. claim[c] \in ClaimRow
  BY DEF LifeTypeOK
<1>2. CASE Held(c) /\ claim[c].session \in F
  <2>1. claim'[c] = [claim[c] EXCEPT !.left = Lease]
    BY <1>2 DEF RenewedClaims
  <2> QED BY <1>1, <1>2, <2>1, LeaseSuccessor, LeaseType DEF Held
<1>3. CASE ~(Held(c) /\ claim[c].session \in F)
  BY <1>1, <1>3, SameSuccessor DEF RenewedClaims
<1> QED BY <1>2, <1>3

\* A step that leaves the claims table alone is quiet.
LEMMA SameQuiet ==
  ASSUME LifeTypeOK, claim' = claim
  PROVE QuietStep
BY SameSuccessor DEF LifeTypeOK, QuietStep

\* So is one that writes a single held claim.
LEMMA OneQuiet ==
  ASSUME LifeTypeOK, NEW c \in Claim, NEW q, Successor(claim[c], q),
         claim' = [claim EXCEPT ![c] = q]
  PROVE QuietStep
<1>1. \A d \in Claim : claim'[d] = IF d = c THEN q ELSE claim[d]
  BY DEF LifeTypeOK
<1> QED BY <1>1, SameSuccessor DEF LifeTypeOK, QuietStep

\* So is a step that ends the expired claims of some rows and renews, suspends or
\* ends others.
LEMMA SweptQuiet ==
  ASSUME LifeTypeOK, NEW W, NEW c \in Claim, NEW q, Successor(claim[c], q),
         claim' = [SweptClaims(W) EXCEPT ![c] = q]
  PROVE QuietStep
<1>1. \A d \in Claim : claim'[d] = IF d = c THEN q ELSE SweptClaims(W)[d]
  BY DEF SweptClaims
<1> QED BY <1>1, SweepSuccessor DEF QuietStep

-----------------------------------------------------------------------------
(* Every step is quiet or starts one epoch.                                *)

\* claim_work, in its re-entrant, resuming and inserting form.
LEMMA ClaimWorkStep ==
  ASSUME LifeTypeOK, NEW s \in Session, NEW w \in Work,
         \/ ClaimReentrant(s, w) \/ ClaimResume(s, w)
         \/ \E c \in Claim : ClaimNew(s, w, c)
  PROVE ClaimStep
<1>1. CASE ClaimReentrant(s, w)
  <2>1. PICK c \in OwnLive(s, w, {"running"}) :
          claim' = [SweptClaims({w}) EXCEPT ![c].left = Lease]
    BY <1>1 DEF ClaimReentrant
  <2>2. c \in Claim /\ claim[c].status \in HeldStatus /\ ~Expired(c) /\ claim[c] \in ClaimRow
    BY DEF LifeTypeOK, OwnLive, HeldOn, Held, Live, Expired, ClaimRow
  <2>3. SweptClaims({w})[c] = claim[c]
    BY <2>2, SweepSuccessor
  <2>4. Successor(claim[c], [claim[c] EXCEPT !.left = Lease])
    BY <2>2, LeaseSuccessor, LeaseType
  <2>5. claim' = [SweptClaims({w}) EXCEPT ![c] = [claim[c] EXCEPT !.left = Lease]]
    BY <2>1, <2>2, <2>3 DEF SweptClaims
  <2> QED BY <2>2, <2>4, <2>5, SweptQuiet DEF ClaimStep
<1>2. CASE ClaimResume(s, w)
  <2>1. PICK c \in OwnLive(s, w, {"paused", "blocked"}) :
          claim' = [SweptClaims({w}) EXCEPT ![c].status = "running", ![c].left = Lease]
    BY <1>2 DEF ClaimResume
  <2> DEFINE q == [[claim[c] EXCEPT !.status = "running"] EXCEPT !.left = Lease]
  <2>2. c \in Claim /\ claim[c].status \in HeldStatus /\ ~Expired(c) /\ claim[c] \in ClaimRow
    BY DEF LifeTypeOK, OwnLive, HeldOn, Held, Live, Expired, ClaimRow
  <2>3. SweptClaims({w})[c] = claim[c]
    BY <2>2, SweepSuccessor
  <2>4. Successor(claim[c], q)
    <3>1. [claim[c] EXCEPT !.status = "running"] \in ClaimRow
      BY <2>2, StatusType DEF HeldStatus
    <3> QED BY <2>2, <3>1, LeaseType DEF Successor, ClaimRow, HeldStatus
  <2>5. claim' = [SweptClaims({w}) EXCEPT ![c] = q]
    BY <2>1, <2>2, <2>3 DEF SweptClaims
  <2> QED BY <2>2, <2>4, <2>5, SweptQuiet DEF ClaimStep
<1>3. ASSUME NEW c \in Claim, ClaimNew(s, w, c) PROVE ClaimStep
  <2> DEFINE q == [status |-> "running", work |-> w, session |-> s, left |-> Lease]
  <2>1. /\ claim[c].status = "none" /\ IndexAdmits(w)
        /\ claim' = [SweptClaims({w}) EXCEPT ![c] = q]
    BY <1>3 DEF ClaimNew
  <2>2. \A d \in Claim : claim'[d] = IF d = c THEN q ELSE SweptClaims({w})[d]
    BY <2>1 DEF SweptClaims
  <2>3. \A d \in Claim \ {c} : Successor(claim[d], claim'[d])
    BY <2>2, SweepSuccessor
  <2>4. \A d \in HeldOn(w) : Expired(d) /\ claim'[d].status \in EndedStatus
    <3> SUFFICES ASSUME NEW d \in HeldOn(w)
                 PROVE Expired(d) /\ claim'[d].status \in EndedStatus
      OBVIOUS
    <3>1. d \in Claim /\ Held(d) /\ claim[d].work = w /\ Expired(d)
      BY <2>1 DEF HeldOn, IndexAdmits
    <3>2. d # c
      BY <2>1, <3>1 DEF Held, HeldStatus
    <3> QED BY <2>2, <3>1, <3>2, SweepSuccessor DEF EndedStatus
  <2>5. \A d \in Claim \ {c} : claim[d].work # w => claim'[d] = claim[d]
    BY <2>2, SweepSuccessor
  <2>6. claim'[c].status = "running" /\ claim'[c].work = w
    BY <2>2
  <2>7. row[w].intent # "done"
    <3>1. CASE SweepRequeues(w)
      BY <3>1 DEF SweepRequeues
    <3>2. CASE ~SweepRequeues(w)
      <4>1. SweptRows({w})[w] = row[w]
        BY <3>2 DEF SweptRows
      <4> QED BY <1>3, <4>1 DEF ClaimNew
    <3> QED BY <3>1, <3>2
  <2>8. EpochStep(w, c)
    BY <2>1, <2>3, <2>4, <2>5, <2>6, <2>7 DEF EpochStep
  <2> QED BY <2>8 DEF ClaimStep
<1> QED BY <1>1, <1>2, <1>3

\* The verbs of a claim's holder.
LEMMA ClaimVerbStep ==
  ASSUME LifeTypeOK, NEW s \in Session, ClaimVerb(s)
  PROVE ClaimStep
<1>1. ASSUME NEW c \in Claim, HeartbeatClaim(s, c) PROVE ClaimStep
  BY <1>1, RenewQuiet DEF HeartbeatClaim, ClaimStep
<1>2. ASSUME NEW c \in Claim, NEW st \in {"released", "unclaimed"}, ReleaseToQueue(s, c, st)
      PROVE ClaimStep
  <2>1. claim[c] \in ClaimRow /\ claim[c].status \in HeldStatus
    BY <1>2 DEF LifeTypeOK, ReleaseToQueue, MayRelease, Live, Held
  <2>2. Successor(claim[c], WithEnd(claim[c], st))
    BY <2>1, StatusSuccessor DEF EndedStatus
  <2> QED BY <1>2, <2>2, OneQuiet DEF ReleaseToQueue, ClaimStep
<1>3. ASSUME NEW c \in Claim, NEW st \in {"paused", "blocked"},
             NEW p \in Predicates \cup {"none"}, Suspend(s, c, st, p)
      PROVE ClaimStep
  <2>1. claim[c] \in ClaimRow /\ claim[c].status \in HeldStatus
    BY <1>3 DEF LifeTypeOK, Suspend, MayRelease, Live, Held
  <2>2. Successor(claim[c], [claim[c] EXCEPT !.status = st])
    BY <2>1, StatusSuccessor DEF HeldStatus
  <2>3. claim' = [claim EXCEPT ![c] = [claim[c] EXCEPT !.status = st]]
    BY <1>3 DEF LifeTypeOK, Suspend
  <2> QED BY <2>2, <2>3, OneQuiet DEF ClaimStep
<1>4. ASSUME NEW c \in Claim, CompleteClaim(s, c) PROVE ClaimStep
  <2>1. claim[c] \in ClaimRow /\ claim[c].status \in HeldStatus
    BY <1>4 DEF LifeTypeOK, CompleteClaim, MayComplete, HeldStatus
  <2>2. Successor(claim[c], WithEnd(claim[c], "completed"))
    BY <2>1, StatusSuccessor DEF EndedStatus
  <2>3. claim' = [claim EXCEPT ![c] = WithEnd(claim[c], "completed")]
    BY <1>4 DEF CompleteClaim
  <2> QED BY <2>2, <2>3, OneQuiet DEF ClaimStep
<1> QED BY <1>1, <1>2, <1>3, <1>4, ClaimWorkStep DEF ClaimVerb

\* The verbs on a row: the sweeps of a conflict and of a recovery, and a handoff,
\* end claims; the others do not touch the table.
LEMMA RowVerbStep ==
  ASSUME LifeTypeOK, NEW s \in Session, RowVerb(s)
  PROVE QuietStep
<1>1. ASSUME NEW w \in Work, claim' = SweptClaims({w}) PROVE QuietStep
  BY <1>1, SweepSuccessor DEF QuietStep
<1>2. ASSUME NEW w \in Work, NEW l \in Lane, NEW t \in {"queued", "blocked"}, Handoff(s, w, l, t)
      PROVE QuietStep
  <2> SUFFICES ASSUME NEW c \in Claim PROVE Successor(claim[c], claim'[c])
    BY DEF QuietStep
  <2>1. CASE c \in HeldOn(w) /\ Live(c)
    <3>1. claim[c] \in ClaimRow /\ claim[c].status \in HeldStatus
      BY <2>1 DEF LifeTypeOK, Live, Held
    <3>2. claim'[c] = WithEnd(claim[c], "released")
      BY <1>2, <2>1 DEF Handoff
    <3> QED BY <3>1, <3>2, StatusSuccessor DEF EndedStatus
  <2>2. CASE ~(c \in HeldOn(w) /\ Live(c))
    <3>1. claim'[c] = SweptClaims({w})[c]
      BY <1>2, <2>2 DEF Handoff
    <3> QED BY <3>1, SweepSuccessor
  <2> QED BY <2>1, <2>2
<1>3. ASSUME NEW w \in Work, ConflictSweep(w) PROVE QuietStep
  BY <1>1, <1>3 DEF ConflictSweep
<1>4. ASSUME NEW w \in Work, RecoverOrphanedBlock(s, w) PROVE QuietStep
  BY <1>1, <1>4 DEF RecoverOrphanedBlock
<1>5. ASSUME NEW w \in Work,
             \/ \E a \in Lane \cup {Shared} : CreateWork(w, a)
             \/ ResumeParked(s, w)
             \/ \E k \in Classes : ClassifyBlocked(s, w, k)
             \/ \E v \in Verdicts : PostVerdict(s, w, v)
             \/ \E r \in Run, k \in RunKinds : AppearRun(s, w, r, k)
      PROVE QuietStep
  <2>1. claim' = claim
    BY <1>5 DEF CreateWork, ResumeParked, ClassifyBlocked, PostVerdict, AppearRun
  <2> QED BY <2>1, SameQuiet
<1> QED BY <1>2, <1>3, <1>4, <1>5 DEF RowVerb

\* Sessions, jobs and the environment renew leases or let them run down.
LEMMA OtherStep ==
  ASSUME LifeTypeOK,
         (\E s \in Session : SessionVerb(s)) \/ RunStep \/ Environment
  PROVE QuietStep
<1>1. ASSUME NEW s \in Session, SessionVerb(s) PROVE QuietStep
  BY <1>1, RenewQuiet, SameQuiet DEF SessionVerb, RegisterSession, RenewLease, EndSession
<1>2. ASSUME NEW r \in Run, SidecarRenew(r) PROVE QuietStep
  <2> DEFINE c == run[r].claim
  <2>1. c \in Claim /\ claim[c] \in ClaimRow /\ claim[c].status \in HeldStatus
    BY <1>2 DEF LifeTypeOK, SidecarRenew, RunRow, HeldStatus
  <2>2. Successor(claim[c], [claim[c] EXCEPT !.left = Lease])
    BY <2>1, LeaseSuccessor, LeaseType
  <2>3. claim' = [claim EXCEPT ![c] = [claim[c] EXCEPT !.left = Lease]]
    BY <1>2, <2>1 DEF LifeTypeOK, SidecarRenew
  <2> QED BY <2>1, <2>2, <2>3, OneQuiet
<1>3. ASSUME NEW r \in Run, FinalizeRun(r) \/ RunDies(r) PROVE QuietStep
  BY <1>3, SameQuiet DEF FinalizeRun, RunDies
<1>4. CASE Tick
  <2> SUFFICES ASSUME NEW c \in Claim PROVE Successor(claim[c], claim'[c])
    BY DEF QuietStep
  <2>1. claim[c] \in ClaimRow
    BY DEF LifeTypeOK
  <2>2. CASE Held(c)
    <3>1. claim'[c] = [claim[c] EXCEPT !.left = CountDown(claim[c].left, -1)]
      BY <1>4, <2>2 DEF Tick
    <3>2. CountDown(claim[c].left, -1) \in Int
      BY <2>1 DEF CountDown, ClaimRow
    <3> QED BY <2>1, <2>2, <3>1, <3>2, LeaseSuccessor DEF Held
  <2>3. CASE ~Held(c)
    BY <1>4, <2>1, <2>3, SameSuccessor DEF Tick
  <2> QED BY <2>2, <2>3
<1>5. CASE Environment /\ ~Tick
  BY <1>5, SameQuiet DEF Environment, PredicateMet, ProcessExit, Crash
<1> QED BY <1>1, <1>2, <1>3, <1>4, <1>5 DEF RunStep

\* The transactions of a reaper pass.  The continuation releases the claim that
\* its compare-and-set found blocked on the row.
LEMMA ReaperClaimStep ==
  ASSUME TypeOK, ReaperStep \/ ReaperAbort
  PROVE QuietStep
<1> USE DEF TypeOK
<1>1. CASE ReapZombies
  <2> SUFFICES ASSUME NEW c \in Claim PROVE Successor(claim[c], claim'[c])
    BY DEF QuietStep
  <2>1. claim[c] \in ClaimRow
    BY DEF LifeTypeOK
  <2>2. CASE c \in ReapedClaims
    <3>1. claim'[c] = WithEnd(claim[c], "unclaimed") /\ claim[c].status \in HeldStatus
      BY <1>1, <2>2 DEF ReapZombies, ReapedClaims, Held
    <3> QED BY <2>1, <3>1, StatusSuccessor DEF EndedStatus
  <2>3. CASE c \notin ReapedClaims
    BY <1>1, <2>1, <2>3, SameSuccessor DEF ReapZombies
  <2> QED BY <2>2, <2>3
<1>2. ASSUME NEW m \in cur, ContinuationApply(m) PROVE QuietStep
  <2>1. CASE m.requeue /\ m.claim # NoClaim
    <3>1. m.claim \in Claim /\ claim[m.claim].status \in HeldStatus
      <4>1. m.claim = BlockedClaim(m.work)
        BY <1>2 DEF ContinuationApply, CasHolds
      <4>2. m.claim \in BlockedOn(m.work)
        BY <2>1, <4>1 DEF BlockedClaim
      <4> QED BY <4>2 DEF BlockedOn, HeldOn, Held
    <3>2. claim' = [claim EXCEPT ![m.claim] = WithEnd(claim[m.claim], "released")]
      BY <1>2, <2>1 DEF ContinuationApply, ReleaseBlockedClaim
    <3>3. Successor(claim[m.claim], WithEnd(claim[m.claim], "released"))
      BY <3>1, StatusSuccessor DEF LifeTypeOK, EndedStatus
    <3> QED BY <3>1, <3>2, <3>3, OneQuiet
  <2>2. CASE ~(m.requeue /\ m.claim # NoClaim)
    BY <1>2, <2>2, SameQuiet DEF ContinuationApply, ReleaseBlockedClaim
  <2> QED BY <2>1, <2>2
<1>3. CASE FleetRenew
  <2> SUFFICES ASSUME NEW c \in Claim PROVE Successor(claim[c], claim'[c])
    BY DEF QuietStep
  <2>1. claim[c] \in ClaimRow
    BY DEF LifeTypeOK
  <2>2. CASE claim'[c] = claim[c]
    BY <2>1, <2>2, SameSuccessor
  <2>3. CASE claim'[c] # claim[c]
    <3>1. claim[c].status = "running" /\ claim'[c] = [claim[c] EXCEPT !.left = Lease]
      BY <1>3, <2>3 DEF FleetRenew
    <3> QED BY <2>1, <3>1, LeaseSuccessor, LeaseType DEF HeldStatus
  <2> QED BY <2>2, <2>3
<1>4. CASE SweepAll
  BY <1>4, SweepSuccessor DEF SweepAll, QuietStep
<1>5. CASE claim' = claim
  BY <1>5, SameQuiet
<1>6. ASSUME NEW m \in scan, ContinuationEval(m) PROVE claim' = claim
  BY <1>6 DEF ContinuationEval, lifeVars
<1>7. ASSUME NEW m \in cur, ContinuationMismatch(m) PROVE claim' = claim
  BY <1>7 DEF ContinuationMismatch, lifeVars
<1>8. ASSUME \/ Snapshot \/ ContinuationScan \/ ContinuationEnd \/ RunProbe
             \/ OrphanProbed \/ DebtScan \/ Normalize \/ ReaperAbort
      PROVE claim' = claim
  BY <1>8 DEF Snapshot, ContinuationScan, ContinuationEnd, RunProbe, OrphanProbed,
              DebtScan, Normalize, ReaperAbort, lifeVars
<1> QED BY <1>1, <1>2, <1>3, <1>4, <1>5, <1>6, <1>7, <1>8 DEF ReaperStep

\* Every step of the system, stuttering included, is a claim step.
LEMMA EveryClaimStep ==
  ASSUME TypeOK, [Next]_vars
  PROVE ClaimStep
<1>1. CASE LifeNext
  BY <1>1, ClaimVerbStep, RowVerbStep, OtherStep DEF TypeOK, LifeNext, ClaimStep
<1>2. CASE ReaperStep \/ ReaperAbort
  BY <1>2, ReaperClaimStep DEF ClaimStep
<1>3. CASE UNCHANGED vars
  BY <1>3, SameQuiet DEF TypeOK, vars, ClaimStep
<1> QED BY <1>1, <1>2, <1>3 DEF Next

-----------------------------------------------------------------------------
(* One held claim per row, and epochs that end once.                       *)

\* The inductive invariant: a held claim names a row that exists, and no row has
\* two of them.
HeldNamesRow == \A c \in Claim : Held(c) => claim[c].work \in Work
OwnInv == TypeOK /\ HeldNamesRow /\ OneHeldClaim

\* A claim held after a step was held before it on the same row, or it is the one
\* that the step inserted.
LEMMA HeldBefore ==
  ASSUME TypeOK, TypeOK', NEW c \in Claim, Held(c)', Successor(claim[c], claim'[c])
  PROVE Held(c) /\ claim'[c].work = claim[c].work
BY DEF Held, Successor

\* A takeover ends every claim that was held on the row.
LEMMA ClaimStepPreserves ==
  ASSUME OwnInv, TypeOK', ClaimStep
  PROVE HeldNamesRow' /\ OneHeldClaim'
<1> USE DEF OwnInv
<1>1. CASE QuietStep
  <2>1. \A c \in Claim : Held(c)' => Held(c) /\ claim'[c].work = claim[c].work
    BY <1>1, HeldBefore DEF QuietStep
  <2>2. HeldNamesRow'
    BY <2>1 DEF HeldNamesRow
  <2>3. OneHeldClaim'
    BY <2>1 DEF OneHeldClaim, HeldOn
  <2> QED BY <2>2, <2>3
<1>2. ASSUME NEW w \in Work, NEW c \in Claim, EpochStep(w, c)
      PROVE HeldNamesRow' /\ OneHeldClaim'
  <2>1. \A d \in Claim \ {c} : Held(d)' =>
          Held(d) /\ claim'[d].work = claim[d].work /\ claim[d].work # w
    <3> SUFFICES ASSUME NEW d \in Claim \ {c}, Held(d)'
                 PROVE Held(d) /\ claim'[d].work = claim[d].work /\ claim[d].work # w
      OBVIOUS
    <3>1. Held(d) /\ claim'[d].work = claim[d].work
      BY <1>2, HeldBefore DEF EpochStep
    <3>2. claim'[d].status \notin EndedStatus
      BY DEF Held, HeldStatus, EndedStatus
    <3>3. d \notin HeldOn(w)
      BY <1>2, <3>2 DEF EpochStep
    <3> QED BY <3>1, <3>3 DEF HeldOn
  <2>2. claim'[c].work = w
    BY <1>2 DEF EpochStep
  <2>3. HeldNamesRow'
    BY <2>1, <2>2 DEF HeldNamesRow
  <2>4. OneHeldClaim'
    BY <2>1, <2>2 DEF OneHeldClaim, HeldOn
  <2> QED BY <2>3, <2>4
<1> QED BY <1>1, <1>2 DEF ClaimStep

\* The inductive invariant holds in every reachable state: the guard of the
\* INSERT is enough, no other writer can make a second claim held.
THEOREM OwnInvHolds == Spec => []OwnInv
<1>1. Init => OwnInv
  <2> SUFFICES ASSUME Init PROVE OwnInv
    OBVIOUS
  <2>1. TypeOK
    BY InitType
  <2>2. \A c \in Claim : ~Held(c)
    BY DEF Init, LifeInit, Held, HeldStatus
  <2> QED BY <2>1, <2>2 DEF OwnInv, HeldNamesRow, OneHeldClaim, HeldOn
<1>2. OwnInv /\ [Next]_vars => OwnInv'
  BY NextType, EveryClaimStep, ClaimStepPreserves DEF OwnInv
<1> QED BY <1>1, <1>2, PTL DEF Spec

\* At most one claim on a row is held, under any number of agents and whatever
\* mix of expiry, reaping, continuation and takeover.
THEOREM OneHeldClaimHolds == Spec => []OneHeldClaim
<1>1. OwnInv => OneHeldClaim
  BY DEF OwnInv
<1> QED BY <1>1, OwnInvHolds, PTL

\* No step writes a claim whose epoch is over, and none moves a claim to another
\* row or another session.
THEOREM EpochFinalityHolds == Spec => EpochFinality
<1>1. TypeOK /\ [Next]_vars =>
        [\A c \in Claim :
           /\ claim[c].status \in EndedStatus => claim'[c] = claim[c]
           /\ claim[c].status # "none" =>
                claim'[c].work = claim[c].work /\ claim'[c].session = claim[c].session]_vars
  <2> SUFFICES ASSUME TypeOK, [Next]_vars, NEW c \in Claim, claim[c].status # "none"
               PROVE /\ claim[c].status \in EndedStatus => claim'[c] = claim[c]
                     /\ claim'[c].work = claim[c].work /\ claim'[c].session = claim[c].session
    BY DEF EndedStatus
  <2>1. Successor(claim[c], claim'[c])
    BY EveryClaimStep DEF ClaimStep, QuietStep, EpochStep
  <2>2. claim[c].status \in HeldStatus \/ claim[c].status \in EndedStatus
    BY DEF TypeOK, LifeTypeOK, ClaimRow
  <2>3. claim[c].status \in EndedStatus => claim[c].status \notin HeldStatus
    BY DEF EndedStatus, HeldStatus
  <2> QED BY <2>1, <2>2, <2>3 DEF Successor
<1> QED BY <1>1, TypeCorrect, PTL DEF Spec, EpochFinality

-----------------------------------------------------------------------------
(* The claim tables implement Ownership.                                   *)

\* The holders, the owner and the ended epochs of a claims table, so that the
\* tables before and after a step can be compared.
HoldersIn(t, w) == {c \in Claim : t[c].status \in HeldStatus /\ t[c].work = w}
OwnerIn(t, w) == IF HoldersIn(t, w) = {} THEN NoClaim ELSE CHOOSE c \in HoldersIn(t, w) : TRUE
EndedIn(t) == {c \in Claim : t[c].status \in EndedStatus}
Sound(t) ==
  /\ t \in [Claim -> ClaimRow]
  /\ \A c \in Claim : t[c].status \in HeldStatus => t[c].work \in Work
  /\ \A w \in Work : \A c, d \in HoldersIn(t, w) : c = d

\* The owner of a row is its held claim.
LEMMA OwnerIsHolder ==
  ASSUME NEW t, Sound(t), NEW w \in Work
  PROVE /\ \A c \in HoldersIn(t, w) : OwnerIn(t, w) = c
        /\ HoldersIn(t, w) = {} => OwnerIn(t, w) = NoClaim
        /\ OwnerIn(t, w) # NoClaim => OwnerIn(t, w) \in HoldersIn(t, w)
BY DEF Sound, OwnerIn

\* A quiet step keeps owners or ends epochs.
LEMMA QuietTables ==
  ASSUME NEW t, NEW u, Sound(t), Sound(u),
         \A c \in Claim : Successor(t[c], u[c]),
         NEW W, W = {w \in Work : HoldersIn(t, w) # {} /\ HoldersIn(u, w) = {}}
  PROVE /\ \A w \in Work : OwnerIn(u, w) = IF w \in W THEN NoClaim ELSE OwnerIn(t, w)
        /\ EndedIn(u) = EndedIn(t) \cup ({OwnerIn(t, w) : w \in W} \ {NoClaim})
<1>1. \A w \in Work : HoldersIn(u, w) \subseteq HoldersIn(t, w)
  BY DEF HoldersIn, Successor
<1>2. ASSUME NEW w \in Work
      PROVE OwnerIn(u, w) = IF w \in W THEN NoClaim ELSE OwnerIn(t, w)
  <2>1. CASE HoldersIn(u, w) = {}
    BY <2>1, OwnerIsHolder
  <2>2. CASE HoldersIn(u, w) # {}
    <3>1. PICK c : c \in HoldersIn(u, w)
      BY <2>2
    <3>2. OwnerIn(t, w) = c /\ OwnerIn(u, w) = c
      BY <1>1, <3>1, OwnerIsHolder
    <3> QED BY <2>2, <3>2
  <2> QED BY <2>1, <2>2
<1>3. ASSUME NEW c \in EndedIn(u), c \notin EndedIn(t)
      PROVE c \in {OwnerIn(t, w) : w \in W} \ {NoClaim}
  <2>1. c \in Claim /\ t[c].status \in HeldStatus
    BY <1>3 DEF EndedIn, Successor
  <2>2. PICK w \in Work : w = t[c].work
    BY <2>1 DEF Sound
  <2>3. c \in HoldersIn(t, w) /\ OwnerIn(t, w) = c
    BY <2>1, <2>2, OwnerIsHolder DEF HoldersIn
  <2>4. c \notin HoldersIn(u, w)
    BY <1>3 DEF EndedIn, HoldersIn, HeldStatus, EndedStatus
  <2>5. HoldersIn(u, w) = {}
    BY <1>1, <2>3, <2>4 DEF Sound
  <2> QED BY <2>1, <2>3, <2>5, IdentityAssumption DEF IdentityAssumption
<1>4. ASSUME NEW c \in EndedIn(t) PROVE c \in EndedIn(u)
  <2>1. c \in Claim /\ t[c].status \notin HeldStatus
    BY DEF EndedIn, HeldStatus, EndedStatus
  <2>2. u[c] = t[c]
    BY <2>1 DEF Successor
  <2> QED BY <2>2 DEF EndedIn
<1>5. ASSUME NEW w \in W, OwnerIn(t, w) # NoClaim PROVE OwnerIn(t, w) \in EndedIn(u)
  <2>1. PICK c : c = OwnerIn(t, w)
    OBVIOUS
  <2>2. c \in Claim /\ t[c].status \in HeldStatus /\ t[c].work = w
    BY <1>5, <2>1, OwnerIsHolder DEF HoldersIn
  <2>3. u[c].work = w /\ u[c].status \in HeldStatus \cup EndedStatus
    BY <2>2 DEF Successor
  <2>4. u[c].status \notin HeldStatus
    BY <2>2, <2>3 DEF HoldersIn
  <2> QED BY <2>1, <2>2, <2>3, <2>4 DEF EndedIn
<1> QED BY <1>2, <1>3, <1>4, <1>5

\* An epoch step gives one row a new owner, and ends the epoch it finds there.
LEMMA EpochTables ==
  ASSUME NEW t, NEW u, Sound(t), Sound(u), NEW w \in Work, NEW c \in Claim,
         t[c].status = "none", u[c].status = "running", u[c].work = w,
         \A d \in Claim \ {c} : Successor(t[d], u[d]),
         \A d \in HoldersIn(t, w) : u[d].status \in EndedStatus,
         \A d \in Claim \ {c} : t[d].work # w => u[d] = t[d]
  PROVE /\ \A v \in Work : OwnerIn(u, v) = IF v = w THEN c ELSE OwnerIn(t, v)
        /\ EndedIn(u) = EndedIn(t) \cup ({OwnerIn(t, w)} \ {NoClaim})
        /\ c \notin EndedIn(t) /\ \A v \in Work : OwnerIn(t, v) # c
<1>1. c \in HoldersIn(u, w)
  BY DEF HoldersIn, HeldStatus
<1>2. OwnerIn(u, w) = c
  BY <1>1, OwnerIsHolder
<1>3. ASSUME NEW v \in Work, v # w PROVE OwnerIn(u, v) = OwnerIn(t, v)
  <2>1. HoldersIn(u, v) \subseteq HoldersIn(t, v)
    <3> SUFFICES ASSUME NEW d \in HoldersIn(u, v) PROVE d \in HoldersIn(t, v)
      OBVIOUS
    <3>1. d \in Claim \ {c}
      BY <1>3 DEF HoldersIn
    <3> QED BY <3>1 DEF HoldersIn, Successor
  <2>2. HoldersIn(t, v) \subseteq HoldersIn(u, v)
    <3> SUFFICES ASSUME NEW d \in HoldersIn(t, v) PROVE d \in HoldersIn(u, v)
      OBVIOUS
    <3>1. d \in Claim \ {c} /\ t[d].work # w
      BY <1>3 DEF HoldersIn, HeldStatus
    <3> QED BY <3>1 DEF HoldersIn
  <2>3. HoldersIn(u, v) = HoldersIn(t, v)
    BY <2>1, <2>2
  <2> QED BY <2>3 DEF OwnerIn
<1>4. c \notin EndedIn(t)
  BY DEF EndedIn, EndedStatus
<1>5. ASSUME NEW v \in Work PROVE OwnerIn(t, v) # c
  <2>1. c \notin HoldersIn(t, v)
    BY DEF HoldersIn, HeldStatus
  <2> QED BY <2>1, OwnerIsHolder, IdentityAssumption DEF IdentityAssumption
<1>6. ASSUME NEW d \in EndedIn(u), d \notin EndedIn(t) PROVE d = OwnerIn(t, w) /\ d # NoClaim
  <2>1. d \in Claim \ {c}
    BY <1>6 DEF EndedIn, EndedStatus
  <2>2. t[d].work = w
    BY <1>6, <2>1 DEF EndedIn
  <2>3. t[d].status \in HeldStatus
    BY <1>6, <2>1 DEF EndedIn, Successor
  <2>4. d \in HoldersIn(t, w)
    BY <2>1, <2>2, <2>3 DEF HoldersIn
  <2> QED BY <2>1, <2>4, OwnerIsHolder, IdentityAssumption DEF IdentityAssumption
<1>7. ASSUME NEW d \in EndedIn(t) PROVE d \in EndedIn(u)
  <2>1. d \in Claim \ {c} /\ t[d].status \notin HeldStatus
    BY <1>4 DEF EndedIn, HeldStatus, EndedStatus
  <2>2. u[d] = t[d]
    BY <2>1 DEF Successor
  <2> QED BY <2>2 DEF EndedIn
<1>8. OwnerIn(t, w) # NoClaim => OwnerIn(t, w) \in EndedIn(u)
  <2>1. OwnerIn(t, w) # NoClaim => OwnerIn(t, w) \in HoldersIn(t, w)
    BY OwnerIsHolder
  <2> QED BY <2>1 DEF HoldersIn, EndedIn
<1> QED BY <1>2, <1>3, <1>4, <1>5, <1>6, <1>7, <1>8

\* The invariant says that the table of claims is sound, now and next.
LEMMA OwnInvSound ==
  ASSUME OwnInv, OwnInv'
  PROVE Sound(claim) /\ Sound(claim')
BY DEF OwnInv, TypeOK, LifeTypeOK, HeldNamesRow, OneHeldClaim, HeldOn, Held, Sound, HoldersIn

\* A quiet step is a Release of Ownership, of no row in the usual case.
LEMMA QuietImplements ==
  ASSUME OwnInv, OwnInv', QuietStep
  PROVE Own!Next
<1> DEFINE W == {w \in Work : HoldersIn(claim, w) # {} /\ HoldersIn(claim', w) = {}}
<1>1. /\ \A w \in Work : OwnerIn(claim', w) = IF w \in W THEN NoClaim ELSE OwnerIn(claim, w)
      /\ EndedIn(claim') = EndedIn(claim) \cup ({OwnerIn(claim, w) : w \in W} \ {NoClaim})
  BY OwnInvSound, QuietTables DEF QuietStep
<1>2. Own!Release(W)
  <2>1. [w \in Work |-> OwnerIn(claim', w)] =
          [w \in Work |-> IF w \in W THEN NoClaim ELSE [v \in Work |-> OwnerIn(claim, v)][w]]
    BY <1>1
  <2>2. {[v \in Work |-> OwnerIn(claim, v)][w] : w \in W} = {OwnerIn(claim, w) : w \in W}
    OBVIOUS
  <2> HIDE DEF W
  <2> QED BY <1>1, <2>1, <2>2
          DEF Own!Release, Owner, HeldOn, Held, OwnerIn, HoldersIn, EndedIn
<1>3. W \in SUBSET Work
  OBVIOUS
<1> HIDE DEF W
<1> QED BY <1>2, <1>3 DEF Own!Next, Own!Release, Owner, HeldOn, Held

\* An epoch step is an Acquire: the owner it replaces, if any, has lapsed.
LEMMA EpochImplements ==
  ASSUME OwnInv, OwnInv', NEW w \in Work, NEW c \in Claim, EpochStep(w, c)
  PROVE Own!Next
<1> DEFINE lapsed == {d \in Claim : Held(d) /\ claim[d].left < 0}
<1>1. HoldersIn(claim, w) = HeldOn(w)
  BY DEF HoldersIn, HeldOn, Held
<1>2. /\ \A v \in Work : OwnerIn(claim', v) = IF v = w THEN c ELSE OwnerIn(claim, v)
      /\ EndedIn(claim') = EndedIn(claim) \cup ({OwnerIn(claim, w)} \ {NoClaim})
      /\ c \notin EndedIn(claim) /\ \A v \in Work : OwnerIn(claim, v) # c
  BY <1>1, OwnInvSound, EpochTables DEF EpochStep
<1>3. OwnerIn(claim, w) = NoClaim \/ OwnerIn(claim, w) \in lapsed
  <2>1. OwnerIn(claim, w) # NoClaim => OwnerIn(claim, w) \in HeldOn(w)
    BY <1>1, OwnInvSound, OwnerIsHolder
  <2>2. \A d \in HeldOn(w) : d \in Claim /\ Held(d) /\ claim[d].left < 0
    BY DEF EpochStep, HeldOn, Expired
  <2> QED BY <2>1, <2>2
<1>4. [v \in Work |-> OwnerIn(claim', v)] = [[v \in Work |-> OwnerIn(claim, v)] EXCEPT ![w] = c]
  BY <1>2
<1>5. Own!Acquire(w, c)
  <2>1. c \notin {[v \in Work |-> OwnerIn(claim, v)][x] : x \in Work}
    BY <1>2
  <2>2. [v \in Work |-> OwnerIn(claim, v)][w] = OwnerIn(claim, w)
    OBVIOUS
  <2> QED BY <1>2, <1>3, <1>4, <2>1, <2>2
          DEF Own!Acquire, Own!Owners, Owner, HeldOn, Held, OwnerIn, HoldersIn, EndedIn
<1> QED BY <1>5 DEF Own!Next, Own!Acquire, Own!Owners, Owner, HeldOn, Held

\* The claim tables implement Ownership: every verb, sweep, reap and continuation
\* is a release, a takeover of a lapsed lease, or no change of ownership at all.
THEOREM ImplementsOwnershipHolds == Spec => ImplementsOwnership
<1>1. Init => Own!Init
  <2> SUFFICES ASSUME Init PROVE Own!Init
    OBVIOUS
  <2>1. \A c \in Claim : claim[c].status = "none"
    BY DEF Init, LifeInit
  <2> QED BY <2>1 DEF Own!Init, Owner, HeldOn, Held, HeldStatus, EndedStatus
<1>2. OwnInv /\ OwnInv' /\ [Next]_vars => [Own!Next]_Own!ownVars
  BY EveryClaimStep, QuietImplements, EpochImplements DEF OwnInv, ClaimStep
<1> QED BY <1>1, <1>2, OwnInvHolds, PTL DEF Spec, ImplementsOwnership, Own!Spec

-----------------------------------------------------------------------------
(* Completion.                                                             *)

\* A step that completes no claim makes no row done.
DoneKept == \A w \in Work : row'[w].intent = "done" => row[w].intent = "done"

-----------------------------------------------------------------------------
(* Writes of a row.                                                        *)

\* WithIntent writes the intent it is given and keeps the disposition columns.
LEMMA WithIntentIs ==
  ASSUME NEW r \in WorkRow, NEW i \in Intent
  PROVE WithIntent(r, i).intent = i
BY DEF WithIntent, WorkRow

\* A write of one row keeps done rows apart unless it writes done.
LEMMA OneRowDone ==
  ASSUME LifeTypeOK, NEW w \in Work, NEW q, row' = [row EXCEPT ![w] = q],
         q.intent = "done" => row[w].intent = "done"
  PROVE DoneKept
BY DEF LifeTypeOK, DoneKept

\* The sweep writes queued or nothing.
LEMMA SweptDone ==
  ASSUME LifeTypeOK, NEW W, NEW w \in Work
  PROVE /\ SweptRows(W)[w] \in WorkRow
        /\ SweptRows(W)[w].intent = "done" => row[w].intent = "done"
<1>1. row[w] \in WorkRow /\ WithIntent(row[w], "queued").intent = "queued"
  BY WithIntentIs DEF LifeTypeOK, Intent
<1>2. SweptRows(W)[w] = WithIntent(row[w], "queued") \/ SweptRows(W)[w] = row[w]
  BY DEF SweptRows
<1> QED BY <1>1, <1>2, SweepType

\* A verdict queues the row, blocks it, or leaves its intent alone.
LEMMA VerdictDone ==
  ASSUME NEW r \in WorkRow, NEW v \in VerdictValue, NEW l \in Lane
  PROVE WithVerdict(r, v, l).intent = "done" => r.intent = "done"
<1>1. CASE v = "PASS"
  BY <1>1 DEF WithVerdict, WorkRow
<1>2. CASE v = "FLAG"
  BY <1>2 DEF WithVerdict, WithIntent, WorkRow
<1>3. CASE v = "BLOCKED"
  BY <1>3 DEF WithVerdict, WithIntent, WorkRow
<1> QED BY <1>1, <1>2, <1>3 DEF VerdictValue

-----------------------------------------------------------------------------
(* Every step but a completion keeps DoneKept.                             *)

\* The claim verbs other than complete_claim.
LEMMA ClaimVerbDone ==
  ASSUME LifeTypeOK, NEW s \in Session, ClaimVerb(s),
         \A c \in Claim : ~CompleteClaim(s, c)
  PROVE DoneKept
<1>1. ASSUME NEW w \in Work, ClaimReentrant(s, w) \/ ClaimResume(s, w) PROVE DoneKept
  <2>1. row' = [row EXCEPT ![w] = WithIntent(row[w], "running")]
    BY <1>1 DEF ClaimReentrant, ClaimResume
  <2>2. WithIntent(row[w], "running").intent = "running"
    BY WithIntentIs DEF LifeTypeOK, Intent
  <2> QED BY <2>1, <2>2, OneRowDone
<1>2. ASSUME NEW w \in Work, NEW c \in Claim, ClaimNew(s, w, c) PROVE DoneKept
  <2> DEFINE q == [WithIntent(SweptRows({w})[w], "running") EXCEPT !.author = ActorOf[s]]
  <2>1. row' = [row EXCEPT ![w] = q]
    BY <1>2 DEF ClaimNew
  <2>2. q.intent = "running"
    BY SweptDone DEF WithIntent, WorkRow
  <2> QED BY <2>1, <2>2, OneRowDone
<1>3. ASSUME NEW c \in Claim, HeartbeatClaim(s, c) PROVE DoneKept
  BY <1>3 DEF HeartbeatClaim, DoneKept
<1>4. ASSUME NEW c \in Claim, NEW st \in {"released", "unclaimed"}, ReleaseToQueue(s, c, st)
      PROVE DoneKept
  <2>1. \A w \in Work : WithIntent(row[w], "queued").intent = "queued"
    BY WithIntentIs DEF LifeTypeOK, Intent
  <2> QED BY <1>4, <2>1 DEF LifeTypeOK, ReleaseToQueue, DoneKept
<1>5. ASSUME NEW c \in Claim, NEW st \in {"paused", "blocked"},
             NEW p \in Predicates \cup {"none"}, Suspend(s, c, st, p)
      PROVE DoneKept
  <2>1. \A r \in WorkRow : WithPredicate(r, p) \in WorkRow
    BY PredicateType
  <2>2. \A r \in WorkRow, k \in Reason : [WithIntent(r, st) EXCEPT !.reason = k].intent = st
    BY DEF WithIntent, WorkRow
  <2>3. \A r \in WorkRow, k \in Reason :
          [WithIntent(WithPredicate(r, p), st) EXCEPT !.reason = k].intent = st
    BY <2>1, <2>2
  <2>4. \A w \in Work : row[w] \in WorkRow /\ row[w].reason \in Reason
    BY DEF LifeTypeOK, WorkRow
  <2> QED BY <1>5, <2>3, <2>4 DEF LifeTypeOK, Suspend, DoneKept, Reason
<1> QED BY <1>1, <1>2, <1>3, <1>4, <1>5 DEF ClaimVerb

\* The verbs on a row.
LEMMA RowVerbDone ==
  ASSUME LifeTypeOK, NEW s \in Session, RowVerb(s)
  PROVE DoneKept
<1>1. ASSUME NEW w \in Work, NEW a \in Lane \cup {Shared}, CreateWork(w, a) PROVE DoneKept
  <2>1. \A v \in Work : row'[v].intent = row[v].intent \/ row'[v].intent = "planned"
    BY <1>1 DEF LifeTypeOK, CreateWork, WorkRow
  <2> QED BY <2>1 DEF DoneKept
<1>2. ASSUME NEW w \in Work, ConflictSweep(w) PROVE DoneKept
  BY <1>2, SweptDone DEF ConflictSweep, DoneKept
<1>3. ASSUME NEW w \in Work, ResumeParked(s, w) PROVE DoneKept
  <2> DEFINE q == [WithIntent(row[w], "queued") EXCEPT !.ready = @ \/ row[w].pred = "manual"]
  <2>1. q.intent = "queued"
    BY DEF LifeTypeOK, WithIntent, WorkRow
  <2>2. row' = [row EXCEPT ![w] = q]
    BY <1>3 DEF ResumeParked
  <2> QED BY <2>1, <2>2, OneRowDone
<1>4. ASSUME NEW w \in Work, NEW k \in Classes, ClassifyBlocked(s, w, k) PROVE DoneKept
  <2>1. \A v \in Work : row'[v].intent = row[v].intent
    BY <1>4 DEF LifeTypeOK, ClassifyBlocked, WorkRow
  <2> QED BY <2>1 DEF DoneKept
<1>5. ASSUME NEW w \in Work, RecoverOrphanedBlock(s, w) PROVE DoneKept
  <2>1. WithIntent(row[w], "queued").intent = "queued"
    BY WithIntentIs DEF LifeTypeOK, Intent
  <2> QED BY <1>5, <2>1, OneRowDone DEF RecoverOrphanedBlock
<1>6. ASSUME NEW w \in Work, NEW l \in Lane, NEW t \in {"queued", "blocked"}, Handoff(s, w, l, t)
      PROVE DoneKept
  <2> DEFINE q == [WithIntent(row[w], t) EXCEPT !.assignee = l]
  <2>1. q.intent = t
    BY DEF LifeTypeOK, WithIntent, WorkRow
  <2>2. row' = [row EXCEPT ![w] = q]
    BY <1>6 DEF Handoff
  <2> QED BY <2>1, <2>2, OneRowDone
<1>7. ASSUME NEW w \in Work, NEW v \in Verdicts, PostVerdict(s, w, v) PROVE DoneKept
  <2>1. v \in VerdictValue /\ ActorOf[s] \in Lane /\ row[w] \in WorkRow
    BY InputAssumption, IdentityAssumption DEF InputAssumption, IdentityAssumption, LifeTypeOK
  <2>2. row' = [row EXCEPT ![w] = WithVerdict(row[w], v, ActorOf[s])]
    BY <1>7 DEF PostVerdict
  <2> QED BY <2>1, <2>2, VerdictDone, OneRowDone
<1>8. ASSUME NEW w \in Work, NEW r \in Run, NEW k \in RunKinds, AppearRun(s, w, r, k)
      PROVE DoneKept
  BY <1>8 DEF AppearRun, DoneKept
<1> QED BY <1>1, <1>2, <1>3, <1>4, <1>5, <1>6, <1>7, <1>8 DEF RowVerb

\* Sessions, jobs and the environment.
LEMMA OtherDone ==
  ASSUME LifeTypeOK, (\E s \in Session : SessionVerb(s)) \/ RunStep \/ Environment
  PROVE DoneKept
<1>1. CASE row' = row
  BY <1>1 DEF DoneKept
<1>2. CASE Tick
  <2>1. \A w \in Work : row'[w].intent = row[w].intent
    BY <1>2 DEF LifeTypeOK, Tick, WorkRow
  <2> QED BY <2>1 DEF DoneKept
<1>3. ASSUME NEW w \in Work, PredicateMet(w) PROVE DoneKept
  <2>1. \A v \in Work : row'[v].intent = row[v].intent
    BY <1>3 DEF LifeTypeOK, PredicateMet, WorkRow
  <2> QED BY <2>1 DEF DoneKept
<1>4. ASSUME NEW s \in Session, SessionVerb(s) PROVE row' = row
  BY <1>4 DEF SessionVerb, RegisterSession, RenewLease, EndSession
<1>5. ASSUME RunStep PROVE row' = row
  BY <1>5 DEF RunStep, FinalizeRun, SidecarRenew, RunDies
<1>6. ASSUME NEW s \in Session, ProcessExit(s) \/ Crash(s) PROVE row' = row
  BY <1>6 DEF ProcessExit, Crash
<1>7. Mortal \subseteq Session
  BY InputAssumption DEF InputAssumption
<1> QED BY <1>1, <1>2, <1>3, <1>4, <1>5, <1>6, <1>7 DEF Environment

\* The reaper.
LEMMA ReaperDone ==
  ASSUME TypeOK, ReaperStep \/ ReaperAbort
  PROVE DoneKept
<1> USE DEF TypeOK
<1>1. \A w \in Work : row[w] \in WorkRow /\ WithIntent(row[w], "queued").intent = "queued"
  BY WithIntentIs DEF LifeTypeOK, Intent
<1>2. CASE ReapZombies
  BY <1>1, <1>2 DEF ReapZombies, DoneKept
<1>3. CASE Normalize
  BY <1>1, <1>3 DEF Normalize, DoneKept
<1>4. CASE SweepAll
  BY <1>4, SweptDone DEF SweepAll, DoneKept
<1>5. ASSUME NEW m \in cur, ContinuationApply(m) PROVE DoneKept
  <2>1. m.work \in Work
    BY DEF ScanRow
  <2>2. /\ [row[m.work] EXCEPT !.ready = TRUE, !.stale = FALSE].intent = row[m.work].intent
        /\ [row[m.work] EXCEPT !.ready = TRUE, !.stale = FALSE] \in WorkRow
    <3>1. \A r \in WorkRow : /\ [r EXCEPT !.ready = TRUE, !.stale = FALSE].intent = r.intent
                             /\ [r EXCEPT !.ready = TRUE, !.stale = FALSE] \in WorkRow
      BY DEF WorkRow
    <3> QED BY <1>1, <2>1, <3>1
  <2>3. \A r \in WorkRow : [r EXCEPT !.intent = "queued", !.reason = "none"].intent = "queued"
    BY DEF WorkRow
  <2>4. Continued(m).intent = "done" => row[m.work].intent = "done"
    BY <2>2, <2>3 DEF Continued
  <2>5. row' = [row EXCEPT ![m.work] = Continued(m)]
    BY <1>5 DEF ContinuationApply
  <2> QED BY <2>1, <2>4, <2>5, OneRowDone
<1>6. CASE row' = row
  BY <1>6 DEF DoneKept
<1>7. ASSUME NEW m \in scan, ContinuationEval(m) PROVE row' = row
  BY <1>7 DEF ContinuationEval, lifeVars
<1>8. ASSUME NEW m \in cur, ContinuationMismatch(m) PROVE row' = row
  BY <1>8 DEF ContinuationMismatch, lifeVars
<1>9. ASSUME \/ Snapshot \/ ContinuationScan \/ ContinuationEnd \/ RunProbe
             \/ OrphanProbed \/ FleetRenew \/ DebtScan \/ ReaperAbort
      PROVE row' = row
  BY <1>9 DEF Snapshot, ContinuationScan, ContinuationEnd, RunProbe, OrphanProbed,
              FleetRenew, DebtScan, ReaperAbort, lifeVars
<1> QED BY <1>2, <1>3, <1>4, <1>5, <1>6, <1>7, <1>8, <1>9 DEF ReaperStep

-----------------------------------------------------------------------------
(* Done rows.                                                              *)

\* A step that makes no row done leaves done rows completed and unheld: an epoch
\* starts only on a row that is not done, and completed claims stay completed.
LEMMA DoneKeptPreserves ==
  ASSUME OwnInv, OwnInv', DoneIsEarned, ClaimStep, DoneKept
  PROVE DoneIsEarned'
<1> SUFFICES ASSUME NEW w \in Work, row'[w].intent = "done"
             PROVE HasArtifact(w)' /\ HeldOn(w)' = {}
  BY DEF DoneIsEarned
<1>1. row[w].intent = "done" /\ HasArtifact(w) /\ HeldOn(w) = {}
  BY DEF DoneKept, DoneIsEarned
<1>2. \A c \in Claim : claim[c].status = "completed" => claim'[c] = claim[c]
  BY DEF ClaimStep, QuietStep, EpochStep, Successor, HeldStatus
<1>3. HasArtifact(w)'
  BY <1>1, <1>2 DEF HasArtifact
<1>4. ASSUME NEW c \in Claim, claim'[c].status \in HeldStatus, claim'[c].work = w
      PROVE claim[c].status \in HeldStatus /\ claim[c].work = w
  <2>1. CASE QuietStep
    BY <1>4, <2>1 DEF QuietStep, Successor
  <2>2. ASSUME NEW v \in Work, NEW d \in Claim, EpochStep(v, d)
        PROVE claim[c].status \in HeldStatus /\ claim[c].work = w
    BY <1>1, <1>4, <2>2 DEF EpochStep, Successor
  <2> QED BY <2>1, <2>2 DEF ClaimStep
<1>5. HeldOn(w)' = {}
  BY <1>1, <1>4 DEF HeldOn, Held
<1> QED BY <1>3, <1>5

\* A completion ends the only claim of its row.
LEMMA CompletePreserves ==
  ASSUME OwnInv, DoneIsEarned, NEW s \in Session, NEW c \in Claim, CompleteClaim(s, c)
  PROVE DoneIsEarned'
<1> DEFINE w == claim[c].work
<1>1. claim[c] \in ClaimRow /\ claim[c].status = "running" /\ Held(c) /\ w \in Work
  BY DEF OwnInv, TypeOK, LifeTypeOK, HeldNamesRow, CompleteClaim, MayComplete, Held, HeldStatus
<1>2. WithEnd(claim[c], "completed").status = "completed"
      /\ WithEnd(claim[c], "completed").work = w
  BY <1>1 DEF WithEnd, ClaimRow
<1>3. /\ claim'[c].status = "completed" /\ claim'[c].work = w
      /\ \A d \in Claim \ {c} : claim'[d] = claim[d]
  BY <1>2 DEF OwnInv, TypeOK, LifeTypeOK, CompleteClaim
<1>4. \A v \in Work : v # w => row'[v] = row[v]
  BY DEF OwnInv, TypeOK, LifeTypeOK, CompleteClaim
<1>5. HeldOn(w) = {c}
  BY <1>1 DEF OwnInv, OneHeldClaim, HeldOn
<1> SUFFICES ASSUME NEW v \in Work, row'[v].intent = "done"
             PROVE HasArtifact(v)' /\ HeldOn(v)' = {}
  BY DEF DoneIsEarned
<1>6. CASE v = w
  <2>1. HasArtifact(v)'
    BY <1>3, <1>6 DEF HasArtifact
  <2>2. HeldOn(v)' = {}
    BY <1>3, <1>5, <1>6 DEF HeldOn, Held, HeldStatus
  <2> QED BY <2>1, <2>2
<1>7. CASE v # w
  <2>1. HasArtifact(v) /\ HeldOn(v) = {}
    BY <1>4, <1>7 DEF DoneIsEarned
  <2>2. HasArtifact(v)'
    BY <1>1, <1>3, <2>1 DEF HasArtifact
  <2>3. HeldOn(v)' = {}
    BY <1>3, <1>7, <2>1 DEF HeldOn, Held
  <2> QED BY <2>2, <2>3
<1> QED BY <1>6, <1>7

\* A done row was completed by a claim and nobody holds it, under any number of
\* agents: no late verb of an ended epoch, no re-entrant claim and no reaper
\* transaction can make it otherwise.
THEOREM DoneIsEarnedHolds == Spec => []DoneIsEarned
<1>1. Init => DoneIsEarned
  BY DEF Init, LifeInit, DoneIsEarned
<1>2. ASSUME OwnInv, OwnInv', DoneIsEarned, [Next]_vars PROVE DoneIsEarned'
  <2>1. ClaimStep
    BY <1>2, EveryClaimStep DEF OwnInv
  <2>2. CASE \E s \in Session, c \in Claim : CompleteClaim(s, c)
    BY <1>2, <2>2, CompletePreserves
  <2>3. CASE ~\E s \in Session, c \in Claim : CompleteClaim(s, c)
    <3>1. DoneKept
      <4>1. CASE LifeNext
        <5>1. \A s \in Session : SessionVerb(s) => DoneKept
          BY <1>2, OtherDone DEF OwnInv, TypeOK
        <5>2. \A s \in Session : ClaimVerb(s) => DoneKept
          BY <1>2, <2>3, ClaimVerbDone DEF OwnInv, TypeOK
        <5>3. \A s \in Session : RowVerb(s) => DoneKept
          BY <1>2, RowVerbDone DEF OwnInv, TypeOK
        <5>4. RunStep \/ Environment => DoneKept
          BY <1>2, OtherDone DEF OwnInv, TypeOK
        <5> QED BY <4>1, <5>1, <5>2, <5>3, <5>4 DEF LifeNext
      <4>2. CASE ReaperStep \/ ReaperAbort
        BY <1>2, <4>2, ReaperDone DEF OwnInv
      <4>3. CASE UNCHANGED vars
        BY <4>3 DEF vars, DoneKept
      <4> QED BY <1>2, <4>1, <4>2, <4>3 DEF Next
    <3> QED BY <1>2, <2>1, <3>1, DoneKeptPreserves
  <2> QED BY <2>2, <2>3
<1> QED BY <1>1, <1>2, OwnInvHolds, PTL DEF Spec

-----------------------------------------------------------------------------
(* Continuation.                                                           *)

\* What a write other than the continuation's makes of a row: it keeps the
\* predicate, may find it met, and records readiness only for a manual one.
KeepsPredicate(r, q) ==
  /\ q.pred = r.pred
  /\ r.met => q.met
  /\ q.ready => r.ready \/ r.pred = "manual"

\* A write that replaces the predicate withdraws the readiness and bumps the
\* version the scan saw.
RowKept(w) ==
  KeepsPredicate(row[w], row'[w]) \/ (~row'[w].ready /\ w \notin pinned')

PredicateStep == pinned' \subseteq pinned /\ \A w \in Work : RowKept(w)

-----------------------------------------------------------------------------
(* Writes of a row.                                                        *)

\* Neither a new intent nor a new reason, assignee, author or age touches the
\* predicate columns.
LEMMA WriteKeeps ==
  ASSUME NEW r \in WorkRow
  PROVE /\ KeepsPredicate(r, r)
        /\ \A i \in Intent : KeepsPredicate(r, WithIntent(r, i))
        /\ \A i \in Intent, k \in Reason : KeepsPredicate(r, [WithIntent(r, i) EXCEPT !.reason = k])
        /\ \A i \in Intent : \A l : KeepsPredicate(r, [WithIntent(r, i) EXCEPT !.assignee = l])
        /\ \A i \in Intent : \A l : KeepsPredicate(r, [WithIntent(r, i) EXCEPT !.author = l])
        /\ \A k : KeepsPredicate(r, [r EXCEPT !.reason = k])
        /\ \A k : KeepsPredicate(r, [r EXCEPT !.stale = k])
        /\ \A i, l : KeepsPredicate(r, [r EXCEPT !.intent = i, !.assignee = l])
BY DEF KeepsPredicate, WithIntent, WorkRow

\* Nor does the expiry sweep.
LEMMA SweepKeeps ==
  ASSUME LifeTypeOK, NEW W, NEW w \in Work
  PROVE KeepsPredicate(row[w], SweptRows(W)[w])
<1>1. SweptRows(W)[w] = WithIntent(row[w], "queued") \/ SweptRows(W)[w] = row[w]
  BY DEF SweptRows
<1> QED BY <1>1, WriteKeeps DEF LifeTypeOK, Intent

\* A verdict writes the intent and its reason, not the predicate.
LEMMA VerdictKeeps ==
  ASSUME NEW r \in WorkRow, NEW v \in VerdictValue, NEW l \in Lane
  PROVE KeepsPredicate(r, WithVerdict(r, v, l))
<1>1. CASE v = "PASS"
  BY <1>1 DEF WithVerdict, WorkRow, KeepsPredicate
<1>2. CASE v = "FLAG"
  BY <1>2 DEF WithVerdict, WithIntent, WorkRow, KeepsPredicate
<1>3. CASE v = "BLOCKED"
  BY <1>3 DEF WithVerdict, WithIntent, WorkRow, KeepsPredicate
<1> QED BY <1>1, <1>2, <1>3 DEF VerdictValue

\* A write of one row.
LEMMA OneRowKept ==
  ASSUME LifeTypeOK, NEW w \in Work, NEW q, row' = [row EXCEPT ![w] = q],
         pinned' \subseteq pinned, KeepsPredicate(row[w], q)
  PROVE PredicateStep
<1>1. \A v \in Work : row'[v] = IF v = w THEN q ELSE row[v]
  BY DEF LifeTypeOK
<1> QED BY <1>1, WriteKeeps DEF LifeTypeOK, PredicateStep, RowKept

\* No write of any row.
LEMMA NoRowKept ==
  ASSUME LifeTypeOK, row' = row, pinned' \subseteq pinned
  PROVE PredicateStep
BY WriteKeeps DEF LifeTypeOK, PredicateStep, RowKept

-----------------------------------------------------------------------------
(* Every verb, and every step of the environment.                          *)

\* The verbs on claims write at most the intent columns of a row, or sweep;
\* parking with a predicate replaces it and withdraws the readiness with it.
LEMMA ClaimVerbKeeps ==
  ASSUME LifeTypeOK, NEW s \in Session, ClaimVerb(s)
  PROVE PredicateStep
<1>0. \A w \in Work : row[w] \in WorkRow
  BY DEF LifeTypeOK
<1>1. ASSUME NEW w \in Work, ClaimReentrant(s, w) \/ ClaimResume(s, w) PROVE PredicateStep
  <2>1. row' = [row EXCEPT ![w] = WithIntent(row[w], "running")] /\ pinned' = pinned \ {w}
    BY <1>1 DEF ClaimReentrant, ClaimResume
  <2> QED BY <1>0, <2>1, WriteKeeps, OneRowKept DEF Intent
<1>2. ASSUME NEW w \in Work, NEW c \in Claim, ClaimNew(s, w, c) PROVE PredicateStep
  <2> DEFINE r == SweptRows({w})[w]
             q == [WithIntent(r, "running") EXCEPT !.author = ActorOf[s]]
  <2>1. r \in WorkRow /\ KeepsPredicate(row[w], r)
    BY SweepType, SweepKeeps
  <2>2. KeepsPredicate(r, q)
    BY <2>1, WriteKeeps DEF Intent
  <2>3. KeepsPredicate(row[w], q)
    BY <2>1, <2>2 DEF KeepsPredicate
  <2>4. row' = [row EXCEPT ![w] = q] /\ pinned' = pinned \ {w}
    BY <1>2 DEF ClaimNew
  <2> QED BY <2>3, <2>4, OneRowKept
<1>3. ASSUME NEW c \in Claim, HeartbeatClaim(s, c) PROVE PredicateStep
  BY <1>3, NoRowKept DEF HeartbeatClaim
<1>4. ASSUME NEW c \in Claim, NEW st \in {"released", "unclaimed"}, ReleaseToQueue(s, c, st)
      PROVE PredicateStep
  <2> DEFINE w == claim[c].work
  <2>1. /\ row' = [row EXCEPT ![w] = IF row[w].intent = "done" THEN row[w]
                                     ELSE WithIntent(row[w], "queued")]
        /\ pinned' = pinned \ {w}
    BY <1>4 DEF ReleaseToQueue
  <2>2. CASE w \in Work
    <3>1. KeepsPredicate(row[w], IF row[w].intent = "done" THEN row[w]
                                 ELSE WithIntent(row[w], "queued"))
      BY <1>0, <2>2, WriteKeeps DEF Intent
    <3> QED BY <2>1, <2>2, <3>1, OneRowKept
  <2>3. CASE w \notin Work
    BY <2>1, <2>3, NoRowKept DEF LifeTypeOK
  <2> QED BY <2>2, <2>3
<1>5. ASSUME NEW c \in Claim, NEW st \in {"paused", "blocked"},
             NEW p \in Predicates \cup {"none"}, Suspend(s, c, st, p)
      PROVE PredicateStep
  <2> DEFINE w == claim[c].work
             k == IF st = "blocked" /\ row[w].reason = "none" THEN "other" ELSE row[w].reason
             q == [WithIntent(WithPredicate(row[w], p), st) EXCEPT !.reason = k]
  <2>1. /\ row' = [row EXCEPT ![w] = IF row[w].intent = "done" THEN row[w] ELSE q]
        /\ pinned' = pinned \ {w}
    BY <1>5 DEF Suspend
  <2>2. CASE w \in Work /\ row[w].intent # "done" /\ p # "none"
    <3>1. \A r \in WorkRow : ~WithPredicate(r, p).ready
      BY <2>2 DEF WithPredicate, WorkRow
    <3>2. WithPredicate(row[w], p) \in WorkRow
      BY <1>0, <2>2, PredicateType
    <3>3. \A r \in WorkRow, i \in Intent: \A j : ~r.ready => ~[WithIntent(r, i) EXCEPT !.reason = j].ready
      BY DEF WithIntent, WorkRow
    <3>4. ~q.ready
      BY <1>0, <2>2, <3>1, <3>2, <3>3 DEF Intent
    <3>5. ~row'[w].ready /\ \A v \in Work : v # w => row'[v] = row[v]
      BY <2>1, <2>2, <3>4 DEF LifeTypeOK
    <3> QED BY <1>0, <2>1, <3>5, WriteKeeps DEF PredicateStep, RowKept
  <2>3. CASE w \in Work /\ row[w].intent # "done" /\ p = "none"
    <3>1. k \in Reason
      BY <1>0, <2>3 DEF WorkRow, Reason
    <3>2. q = [WithIntent(row[w], st) EXCEPT !.reason = k]
      BY <2>3 DEF WithPredicate
    <3>3. KeepsPredicate(row[w], q)
      BY <1>0, <2>3, <3>1, <3>2, WriteKeeps DEF Intent
    <3> QED BY <2>1, <2>3, <3>3, OneRowKept
  <2>4. CASE w \in Work /\ row[w].intent = "done"
    <3>1. row' = row
      BY <2>1, <2>4 DEF LifeTypeOK
    <3> QED BY <2>1, <3>1, NoRowKept
  <2>5. CASE w \notin Work
    BY <2>1, <2>5, NoRowKept DEF LifeTypeOK
  <2> QED BY <2>2, <2>3, <2>4, <2>5
<1>6. ASSUME NEW c \in Claim, CompleteClaim(s, c) PROVE PredicateStep
  <2> DEFINE w == claim[c].work
  <2>1. row' = [row EXCEPT ![w] = WithIntent(row[w], "done")] /\ pinned' = pinned \ {w}
    BY <1>6 DEF CompleteClaim
  <2>2. CASE w \in Work
    BY <1>0, <2>1, <2>2, WriteKeeps, OneRowKept DEF Intent
  <2>3. CASE w \notin Work
    BY <2>1, <2>3, NoRowKept DEF LifeTypeOK
  <2> QED BY <2>2, <2>3
<1> QED BY <1>1, <1>2, <1>3, <1>4, <1>5, <1>6 DEF ClaimVerb

\* The verbs on rows record readiness for a manual predicate only.
LEMMA RowVerbKeeps ==
  ASSUME LifeTypeOK, NEW s \in Session, RowVerb(s)
  PROVE PredicateStep
<1>0. \A w \in Work : row[w] \in WorkRow
  BY DEF LifeTypeOK
<1>1. ASSUME NEW w \in Work, NEW a \in Lane \cup {Shared}, CreateWork(w, a) PROVE PredicateStep
  <2>1. row' = [row EXCEPT ![w] = [row[w] EXCEPT !.intent = "planned", !.assignee = a]]
        /\ pinned' = pinned
    BY <1>1 DEF LifeTypeOK, CreateWork
  <2> QED BY <1>0, <2>1, WriteKeeps, OneRowKept
<1>2. ASSUME NEW w \in Work, ConflictSweep(w) PROVE PredicateStep
  BY <1>2, SweepKeeps DEF ConflictSweep, PredicateStep, RowKept
<1>3. ASSUME NEW w \in Work, ResumeParked(s, w) PROVE PredicateStep
  <2> DEFINE q == [WithIntent(row[w], "queued") EXCEPT !.ready = @ \/ row[w].pred = "manual"]
  <2>1. KeepsPredicate(row[w], q)
    BY <1>0 DEF KeepsPredicate, WithIntent, WorkRow
  <2>2. row' = [row EXCEPT ![w] = q] /\ pinned' = pinned \ {w}
    BY <1>3 DEF ResumeParked
  <2> QED BY <2>1, <2>2, OneRowKept
<1>4. ASSUME NEW w \in Work, NEW k \in Classes, ClassifyBlocked(s, w, k) PROVE PredicateStep
  <2>1. row' = [row EXCEPT ![w] = [row[w] EXCEPT !.reason = k]] /\ pinned' = pinned \ {w}
    BY <1>4 DEF LifeTypeOK, ClassifyBlocked
  <2> QED BY <1>0, <2>1, WriteKeeps, OneRowKept
<1>5. ASSUME NEW w \in Work, RecoverOrphanedBlock(s, w) PROVE PredicateStep
  <2>1. row' = [row EXCEPT ![w] = WithIntent(row[w], "queued")] /\ pinned' = pinned \ {w}
    BY <1>5 DEF RecoverOrphanedBlock
  <2> QED BY <1>0, <2>1, WriteKeeps, OneRowKept DEF Intent
<1>6. ASSUME NEW w \in Work, NEW l \in Lane, NEW t \in {"queued", "blocked"}, Handoff(s, w, l, t)
      PROVE PredicateStep
  <2>1. /\ row' = [row EXCEPT ![w] = [WithIntent(row[w], t) EXCEPT !.assignee = l]]
        /\ pinned' = pinned \ {w}
    BY <1>6 DEF Handoff
  <2>2. row[w] \in WorkRow /\ t \in Intent
    BY <1>0 DEF Intent
  <2>3. KeepsPredicate(row[w], [WithIntent(row[w], t) EXCEPT !.assignee = l])
    BY <2>2, WriteKeeps, Zenon
  <2> QED BY <2>1, <2>3, OneRowKept
<1>7. ASSUME NEW w \in Work, NEW v \in Verdicts, PostVerdict(s, w, v) PROVE PredicateStep
  <2>1. v \in VerdictValue /\ ActorOf[s] \in Lane
    BY InputAssumption, IdentityAssumption DEF InputAssumption, IdentityAssumption
  <2>2. row' = [row EXCEPT ![w] = WithVerdict(row[w], v, ActorOf[s])] /\ pinned' = pinned \ {w}
    BY <1>7 DEF PostVerdict
  <2> QED BY <1>0, <2>1, <2>2, VerdictKeeps, OneRowKept
<1>8. ASSUME NEW w \in Work, NEW r \in Run, NEW k \in RunKinds, AppearRun(s, w, r, k)
      PROVE PredicateStep
  BY <1>8, NoRowKept DEF AppearRun
<1> QED BY <1>1, <1>2, <1>3, <1>4, <1>5, <1>6, <1>7, <1>8 DEF RowVerb

\* Sessions, runs and the environment: a predicate may be found met, no more.
LEMMA OtherKeeps ==
  ASSUME LifeTypeOK, (\E s \in Session : SessionVerb(s)) \/ RunStep \/ Environment
  PROVE PredicateStep
<1>0. \A w \in Work : row[w] \in WorkRow
  BY DEF LifeTypeOK
<1>1. ASSUME NEW s \in Session, SessionVerb(s) PROVE PredicateStep
  BY <1>1, NoRowKept DEF SessionVerb, RegisterSession, RenewLease, EndSession
<1>2. CASE RunStep
  BY <1>2, NoRowKept DEF RunStep, FinalizeRun, SidecarRenew, RunDies
<1>3. CASE Tick
  <2>1. \A w \in Work : KeepsPredicate(row[w], row'[w])
    BY <1>0, <1>3, WriteKeeps DEF Tick
  <2> QED BY <1>3, <2>1 DEF Tick, PredicateStep, RowKept
<1>4. ASSUME NEW w \in Work, PredicateMet(w) PROVE PredicateStep
  <2>1. KeepsPredicate(row[w], [row[w] EXCEPT !.met = TRUE])
    BY <1>0 DEF WorkRow, KeepsPredicate
  <2>2. row' = [row EXCEPT ![w] = [row[w] EXCEPT !.met = TRUE]] /\ pinned' = pinned
    BY <1>4 DEF LifeTypeOK, PredicateMet
  <2> QED BY <2>1, <2>2, OneRowKept
<1>5. ASSUME NEW s, ProcessExit(s) \/ Crash(s) PROVE PredicateStep
  BY <1>5, NoRowKept DEF ProcessExit, Crash
<1> QED BY <1>1, <1>2, <1>3, <1>4, <1>5 DEF Environment

\* So every step of the claim lifecycle.
LEMMA LifeKeeps ==
  ASSUME LifeTypeOK, LifeNext
  PROVE PredicateStep
BY ClaimVerbKeeps, RowVerbKeeps, OtherKeeps DEF LifeNext

-----------------------------------------------------------------------------
(* Readiness.                                                              *)

\* The inductive invariant: while the row a pass found ready still has the
\* version of the scan, its predicate is met, and a pass holds such a row only
\* between finding it and applying it.
ReadyInv ==
  /\ TypeOK
  /\ ReadyIsEarned
  /\ cur # {} => pc = "apply"
  /\ \A m \in cur : m.work \in pinned => row[m.work].met

\* A step that keeps predicates and does not find a new row keeps the invariant.
LEMMA KeepsReady ==
  ASSUME ReadyInv, TypeOK', PredicateStep, cur' = cur \/ cur' = {},
         cur' # {} => pc' = "apply"
  PROVE ReadyInv'
<1>1. ReadyIsEarned'
  BY DEF ReadyInv, ReadyIsEarned, PredicateStep, RowKept, KeepsPredicate
<1>2. ASSUME NEW m \in cur', m.work \in pinned' PROVE row'[m.work].met
  <2>1. m \in cur /\ m.work \in pinned /\ m.work \in Work
    BY <1>2 DEF ReadyInv, TypeOK, LifeTypeOK, PredicateStep
  <2>2. row[m.work].met
    BY <2>1 DEF ReadyInv
  <2> QED BY <1>2, <2>1, <2>2 DEF PredicateStep, RowKept, KeepsPredicate
<1> QED BY <1>1, <1>2 DEF ReadyInv

\* Every transaction of a pass.
LEMMA ReaperReady ==
  ASSUME ReadyInv, TypeOK', ReaperStep \/ ReaperAbort
  PROVE ReadyInv'
<1>0. LifeTypeOK /\ \A w \in Work : row[w] \in WorkRow
  BY DEF ReadyInv, TypeOK, LifeTypeOK
<1>1. CASE ReapZombies \/ Normalize
  <2>1. \A w \in Work : KeepsPredicate(row[w], row'[w])
    BY <1>0, <1>1, WriteKeeps DEF ReapZombies, Normalize, Intent
  <2>2. PredicateStep
    BY <1>1, <2>1 DEF ReapZombies, Normalize, PredicateStep, RowKept
  <2> QED BY <1>1, <2>2, KeepsReady DEF ReadyInv, ReapZombies, Normalize
<1>2. CASE SweepAll
  <2>1. PredicateStep
    BY <1>0, <1>2, SweepKeeps DEF SweepAll, PredicateStep, RowKept
  <2> QED BY <1>2, <2>1, KeepsReady DEF ReadyInv, SweepAll
<1>3. CASE ContinuationScan
  BY <1>3 DEF ReadyInv, ReadyIsEarned, ContinuationScan
<1>4. ASSUME NEW m \in scan, ContinuationEval(m) PROVE ReadyInv'
  <2>1. PICK b \in PredicateTrue(m.work) :
          cur' = (IF b THEN {m} ELSE {}) /\ pc' = (IF b THEN "apply" ELSE "continue")
    BY <1>4 DEF ContinuationEval
  <2>2. row' = row /\ pinned' = pinned
    BY <1>4 DEF ContinuationEval, lifeVars
  <2>3. b /\ m.work \in pinned => row[m.work].met
    BY <2>1 DEF PredicateTrue
  <2> QED BY <2>1, <2>2, <2>3 DEF ReadyInv, ReadyIsEarned
<1>5. ASSUME NEW m \in cur, ContinuationApply(m) PROVE ReadyInv'
  <2>1. m.work \in Work /\ row[m.work].met /\ row[m.work] \in WorkRow
    BY <1>0, <1>5 DEF ReadyInv, TypeOK, ScanRow, ContinuationApply, CasHolds
  <2>2. \A r \in WorkRow : r.met =>
          /\ [r EXCEPT !.ready = TRUE, !.stale = FALSE] \in WorkRow
          /\ [r EXCEPT !.ready = TRUE, !.stale = FALSE].met
    BY DEF WorkRow
  <2>3. \A r \in WorkRow : r.met => [r EXCEPT !.intent = "queued", !.reason = "none"].met
    BY DEF WorkRow
  <2>4. Continued(m).met
    BY <2>1, <2>2, <2>3 DEF Continued
  <2>5. row' = [row EXCEPT ![m.work] = Continued(m)] /\ cur' = {}
    BY <1>5 DEF ContinuationApply
  <2>6. \A w \in Work : row'[w].met \/ row'[w] = row[w]
    BY <2>1, <2>4, <2>5 DEF ReadyInv, TypeOK, LifeTypeOK
  <2> QED BY <2>5, <2>6 DEF ReadyInv, ReadyIsEarned
<1>6. ASSUME NEW m \in cur, ContinuationMismatch(m) PROVE ReadyInv'
  BY <1>6 DEF ReadyInv, ReadyIsEarned, ContinuationMismatch, lifeVars
<1>7. CASE ContinuationEnd \/ ReaperAbort
  BY <1>7 DEF ReadyInv, ReadyIsEarned, ContinuationEnd, ReaperAbort
<1>8. CASE Snapshot \/ RunProbe \/ OrphanProbed \/ FleetRenew \/ DebtScan
  <2>1. row' = row /\ pinned' = pinned /\ cur' = cur
    BY <1>8 DEF Snapshot, RunProbe, OrphanProbed, FleetRenew, DebtScan, lifeVars
  <2>2. pc # "apply"
    BY <1>8 DEF Snapshot, RunProbe, OrphanProbed, FleetRenew, DebtScan
  <2> QED BY <2>1, <2>2 DEF ReadyInv, ReadyIsEarned
<1> QED BY <1>1, <1>2, <1>3, <1>4, <1>5, <1>6, <1>7, <1>8 DEF ReaperStep

\* continuation_ready_at stands only for the predicate the row has now and that
\* came true, although a park or block may replace the predicate between the
\* reaper's scan, its evaluation and its compare-and-set: the version in the
\* compare-and-set is what makes it so.
THEOREM ReadyIsEarnedHolds == Spec => []ReadyIsEarned
<1>1. Init => ReadyInv
  BY InitType DEF Init, LifeInit, ReadyInv, ReadyIsEarned
<1>2. ReadyInv /\ [Next]_vars => ReadyInv'
  <2> SUFFICES ASSUME ReadyInv, [Next]_vars PROVE ReadyInv'
    OBVIOUS
  <2>1. TypeOK'
    BY NextType DEF ReadyInv
  <2>2. CASE LifeNext /\ UNCHANGED reaperVars
    <3>1. PredicateStep
      BY <2>2, LifeKeeps DEF ReadyInv, TypeOK
    <3> QED BY <2>1, <2>2, <3>1, KeepsReady DEF ReadyInv, reaperVars
  <2>3. CASE ReaperStep \/ ReaperAbort
    BY <2>1, <2>3, ReaperReady
  <2>4. CASE UNCHANGED vars
    BY <2>1, <2>4 DEF ReadyInv, ReadyIsEarned, vars
  <2> QED BY <2>2, <2>3, <2>4 DEF Next
<1>3. ReadyInv => ReadyIsEarned
  BY DEF ReadyInv
<1> QED BY <1>1, <1>2, <1>3, PTL DEF Spec

-----------------------------------------------------------------------------
(* No row is yanked from its holder.                                       *)

\* The step that applies a continuation.  A row it queues had no held claim, or
\* only the blocked one that the same transaction releases: a second one cannot
\* exist (OneHeldClaim), so the compare-and-set need not look for it.
LEMMA ApplyYanksNobody ==
  ASSUME OwnInv, NEW m \in cur, ContinuationApply(m), NEW w \in Work,
         row'[w].intent # row[w].intent
  PROVE HeldOn(w)' = {}
<1> USE DEF OwnInv
<1>0. m.work \in Work /\ row[m.work] \in WorkRow
  BY DEF TypeOK, LifeTypeOK, ScanRow
<1>1. row' = [row EXCEPT ![m.work] = Continued(m)] /\ claim' = ReleaseBlockedClaim(m)
  BY DEF ContinuationApply
<1>2. w = m.work
  BY <1>0, <1>1 DEF TypeOK, LifeTypeOK
<1>3. [row[m.work] EXCEPT !.ready = TRUE, !.stale = FALSE].intent = row[m.work].intent
  BY <1>0 DEF WorkRow
<1>4. m.requeue
  BY <1>0, <1>1, <1>2, <1>3 DEF TypeOK, LifeTypeOK, Continued
<1>5. CASE m.claim = NoClaim
  <2>1. HeldOn(w) = {} /\ claim' = claim
    BY <1>1, <1>2, <1>4, <1>5 DEF ContinuationApply, CasHolds, ReleaseBlockedClaim
  <2> QED BY <2>1 DEF HeldOn, Held
<1>6. CASE m.claim # NoClaim
  <2>1. m.claim \in HeldOn(w)
    BY <1>2, <1>6 DEF ContinuationApply, CasHolds, BlockedClaim, BlockedOn
  <2>2. m.claim \in Claim /\ claim[m.claim] \in ClaimRow /\ HeldOn(w) = {m.claim}
    BY <2>1 DEF TypeOK, LifeTypeOK, OneHeldClaim, HeldOn
  <2>3. WithEnd(claim[m.claim], "released").status = "released"
    BY <2>2, StatusSuccessor, <2>1 DEF HeldOn, Held, EndedStatus
  <2>4. /\ claim'[m.claim].status = "released"
        /\ \A c \in Claim \ {m.claim} : claim'[c] = claim[c]
    BY <1>1, <1>4, <1>6, <2>2, <2>3 DEF ReleaseBlockedClaim, TypeOK, LifeTypeOK
  <2> QED BY <2>2, <2>4 DEF HeldOn, Held, HeldStatus
<1> QED BY <1>5, <1>6

\* A continuation that queues a row leaves nobody holding it, however many claims
\* came and went on the row since the scan.
THEOREM NoYankHolds == Spec => NoYank
<1>1. OwnInv /\ [Next]_vars =>
        [pc = "apply" /\ pc' = "continue" =>
           \A w \in Work : row'[w].intent # row[w].intent => HeldOn(w)' = {}]_vars
  <2> SUFFICES ASSUME OwnInv, [Next]_vars, pc = "apply", pc' = "continue",
                      NEW w \in Work, row'[w].intent # row[w].intent
               PROVE HeldOn(w)' = {}
    OBVIOUS
  <2>1. row' # row
    OBVIOUS
  <2>2. PICK m \in cur : ContinuationApply(m)
    <3>1. ~(LifeNext /\ UNCHANGED reaperVars) /\ ~UNCHANGED vars /\ ~ReaperAbort
      BY DEF reaperVars, vars, ReaperAbort
    <3>2. \A m \in cur : ~ContinuationMismatch(m)
      BY <2>1 DEF ContinuationMismatch, lifeVars
    <3>3. /\ ~Snapshot /\ ~ReapZombies /\ ~ContinuationScan /\ ~ContinuationEnd /\ ~RunProbe
          /\ ~OrphanProbed /\ ~FleetRenew /\ ~DebtScan /\ ~Normalize /\ ~SweepAll
          /\ \A m \in scan : ~ContinuationEval(m)
      BY DEF Snapshot, ReapZombies, ContinuationScan, ContinuationEval, ContinuationEnd,
             RunProbe, OrphanProbed, FleetRenew, DebtScan, Normalize, SweepAll
    <3> QED BY <3>1, <3>2, <3>3 DEF Next, ReaperStep
  <2> QED BY <2>2, ApplyYanksNobody
<1> QED BY <1>1, OwnInvHolds, PTL DEF Spec, NoYank

-----------------------------------------------------------------------------
(* Rows and their parents.  A way up is a sequence of rows, each the parent *)
(* of the one before; a cycle is a way whose last row has the first for its *)
(* parent.                                                                  *)

WayUp(P, n, u) == u \in [1 .. n -> Row] /\ \A i \in 1 .. n - 1 : u[i + 1] = P[u[i]]
Looked == 1 .. ParentWalk + 1
NoCycle(P) == \A n \in Looked : \A u : WayUp(P, n, u) => u[1] # P[u[n]]
\* Nothing that is looked at from p is w.
Misses(P, p, w) == \A n \in Looked : \A u : WayUp(P, n, u) /\ u[1] = p => u[n] # w

\* Hanging w below p closes no cycle that the walk from p would not have met: a
\* cycle through w, begun behind w and cut where it first meets it, is a way from p.
LEMMA HangingClosesNothing ==
  ASSUME NEW P \in [Row -> Row \cup {Nobody}], NEW w \in Row, NEW p \in Row \cup {Nobody},
         NoCycle(P), Misses(P, p, w)
  PROVE  NoCycle([P EXCEPT ![w] = p])
<1> DEFINE Q == [P EXCEPT ![w] = p]
<1>1. Q[w] = p /\ \A r \in Row : r # w => Q[r] = P[r]
  OBVIOUS
<1> HIDE DEF Q
<1> SUFFICES ASSUME NEW n \in Looked, NEW u, WayUp(Q, n, u), u[1] = Q[u[n]]
             PROVE  FALSE
  BY DEF NoCycle, Q
<1>2. n \in Nat /\ n >= 1 /\ u \in [1 .. n -> Row] /\ \A i \in 1 .. n - 1 : u[i + 1] = Q[u[i]]
  BY WorkRowsAssumption DEF WorkRowsAssumption, Looked, WayUp
<1>3. CASE \A i \in 1 .. n : u[i] # w
  <2>1. \A i \in 1 .. n : u[i] \in Row /\ Q[u[i]] = P[u[i]]
    BY <1>1, <1>2, <1>3
  <2>2. WayUp(P, n, u)
    BY <1>2, <2>1 DEF WayUp
  <2>3. u[1] = P[u[n]]
    BY <1>2, <2>1
  <2> QED BY <2>2, <2>3 DEF NoCycle
<1>4. CASE \E i \in 1 .. n : u[i] = w
  <2>1. PICK j \in 1 .. n : u[j] = w
    BY <1>4
  <2> DEFINE v == [i \in 1 .. n |-> IF j + i <= n THEN u[j + i] ELSE u[j + i - n]]
  <2>2. \A i \in 1 .. n : /\ j + i <= n => v[i] = u[j + i]
                          /\ j + i > n => v[i] = u[j + i - n]
                          /\ v[i] \in Row
    BY <1>2
  <2> HIDE DEF v
  <2>3. v[1] = p
    <3>1. CASE j < n
      <4>1. v[1] = u[j + 1] /\ j \in 1 .. n - 1
        BY <1>2, <2>2, <3>1
      <4> QED BY <1>1, <1>2, <2>1, <4>1
    <3>2. CASE j = n
      <4>1. v[1] = u[1]
        BY <1>2, <2>2, <3>2
      <4> QED BY <1>1, <2>1, <3>2, <4>1
    <3> QED BY <1>2, <3>1, <3>2
  <2>4. v[n] = w
    BY <1>2, <2>1, <2>2
  <2>5. ASSUME NEW i \in 1 .. n - 1 PROVE v[i + 1] = Q[v[i]]
    <3>1. CASE j + i < n
      <4>1. v[i] = u[j + i] /\ v[i + 1] = u[(j + i) + 1] /\ j + i \in 1 .. n - 1
        BY <1>2, <2>2, <3>1
      <4> QED BY <1>2, <4>1
    <3>2. CASE j + i = n
      <4>1. /\ i \in 1 .. n /\ i + 1 \in 1 .. n /\ j + i <= n
            /\ j + (i + 1) > n /\ j + (i + 1) - n = 1
        BY <1>2, <3>2
      <4>2. v[i] = u[j + i] /\ v[i + 1] = u[j + (i + 1) - n]
        BY <2>2, <4>1
      <4> QED BY <3>2, <4>1, <4>2
    <3>3. CASE j + i > n
      <4>1. v[i] = u[j + i - n] /\ v[i + 1] = u[(j + i - n) + 1] /\ j + i - n \in 1 .. n - 1
        BY <1>2, <2>2, <3>3
      <4> QED BY <1>2, <4>1
    <3> QED BY <1>2, <3>1, <3>2, <3>3
  <2> DEFINE S == {i \in 1 .. n : v[i] = w}
  <2>6. S \subseteq Nat /\ n \in S
    BY <1>2, <2>4
  <2>7. PICK m \in S : \A i \in S : m <= i
    BY <2>6, LeastNat
  <2>8. m \in 1 .. n /\ v[m] = w /\ \A i \in 1 .. m - 1 : i \in 1 .. n - 1 /\ v[i] # w
    BY <1>2, <2>7
  <2> HIDE DEF S
  <2> DEFINE x == [i \in 1 .. m |-> v[i]]
  <2>9. x \in [1 .. m -> Row] /\ x[1] = p /\ x[m] = w
    BY <1>2, <2>2, <2>3, <2>8
  <2>10. ASSUME NEW i \in 1 .. m - 1 PROVE x[i + 1] = P[x[i]]
    <3>1. x[i] = v[i] /\ x[i + 1] = v[i + 1] /\ v[i] \in Row /\ v[i] # w
      BY <1>2, <2>2, <2>8
    <3>2. v[i + 1] = Q[v[i]]
      BY <2>5, <2>8
    <3> QED BY <1>1, <3>1, <3>2
  <2>11. m \in Looked
    BY <2>8, WorkRowsAssumption DEF WorkRowsAssumption, Looked
  <2> HIDE DEF x
  <2> QED BY <2>9, <2>10, <2>11 DEF Misses, WayUp
<1> QED BY <1>3, <1>4

-----------------------------------------------------------------------------
(* The table: types, a held row was claimed, a sweep saw completed rows, and *)
(* no cycle of parents.                                                      *)

Intents == {"absent", "planned", "queued", "running", "blocked"} \cup Terminal
Reasons == {"none", "ready_for_owner_resume", "other", "self_declared"}
RowRecord ==
  [intent : Intents, parent : Row \cup {Nobody}, reason : Reasons, note : BOOLEAN, pred : BOOLEAN,
   archived : BOOLEAN]
Parents == [w \in Row |-> wrow[w].parent]
TableTyped == wrow \in [Row -> RowRecord] /\ holders \in [Row -> SUBSET RowSession]
SweepSaw == sweep.rows \subseteq Row /\ \A w \in sweep.rows : sweep.seen[w].intent = "done"
RowsInv ==
  /\ TableTyped /\ SweepSaw /\ NoCycle(Parents)
  /\ \A w \in Row : holders[w] # {} => w \in claimed

LEMMA ParentsTyped == ASSUME TableTyped PROVE Parents \in [Row -> Row \cup {Nobody}]
BY DEF TableTyped, Parents, RowRecord

LEMMA WaysOfTable ==
  ASSUME NEW p, NEW a \in Row
  PROVE  a \in Ancestors(p) <=> \E n \in Looked : \E u : WayUp(Parents, n, u) /\ u[1] = p /\ u[n] = a
<1>1. ASSUME NEW n \in Looked, NEW u \in [1 .. n -> Row]
      PROVE  WayUp(Parents, n, u) <=> \A i \in 1 .. n - 1 : u[i + 1] = wrow[u[i]].parent
  <2>1. n \in Nat
    BY WorkRowsAssumption DEF WorkRowsAssumption, Looked
  <2>2. \A i \in 1 .. n - 1 : i \in 1 .. n
    BY <2>1
  <2>3. \A i \in 1 .. n - 1 : Parents[u[i]] = wrow[u[i]].parent
    BY <2>2 DEF Parents
  <2> QED BY <2>3 DEF WayUp
<1> QED BY <1>1 DEF Ancestors, Looked, WayUp

\* No row is its own ancestor as far as the walk looks: no cycle that short.
LEMMA OwnAncestors == (\A w \in Row : NotItsOwnAncestor(w)) <=> NoCycle(Parents)
<1>1. ASSUME NEW w \in Row
      PROVE  NotItsOwnAncestor(w) <=>
               ~\E n \in Looked : \E u : WayUp(Parents, n, u) /\ u[1] = Parents[w] /\ u[n] = w
  BY WaysOfTable DEF NotItsOwnAncestor, Parents
<1>2. \A n \in Looked : \A u : WayUp(Parents, n, u) => u[n] \in Row
  BY WorkRowsAssumption DEF WorkRowsAssumption, Looked, WayUp
<1> QED BY <1>1, <1>2 DEF NoCycle

LEMMA AllowedMisses ==
  ASSUME NEW w \in Row, NEW p, ParentAllowed(w, p) PROVE Misses(Parents, p, w)
BY WaysOfTable DEF ParentAllowed, Misses

-----------------------------------------------------------------------------
(* Each verb: what it does to parents, to holders and to the sweep.         *)

LEMMA RowsStart == RowsInit => RowsInv
<1> SUFFICES ASSUME RowsInit PROVE RowsInv
  OBVIOUS
<1>1. TableTyped
  BY DEF RowsInit, TableTyped, RowRecord, Intents, Reasons, Absent
<1>2. SweepSaw /\ \A w \in Row : holders[w] = {}
  BY DEF RowsInit, SweepSaw, NoSweep
<1>3. \A w \in Row : Parents[w] = Nobody
  BY DEF RowsInit, Parents, Absent
<1>4. NoCycle(Parents)
  BY <1>3, WorkRowsAssumption DEF WorkRowsAssumption, Looked, WayUp, NoCycle
<1> QED BY <1>1, <1>2, <1>4 DEF RowsInv

\* A verb that writes one row, and not its parent.
RowWritten(w, r) ==
  /\ r \in RowRecord /\ r.parent = wrow[w].parent
  /\ wrow' = [wrow EXCEPT ![w] = r]
LEMMA WrittenKeepsTable ==
  ASSUME RowsInv, NEW w \in Row, NEW r, RowWritten(w, r)
  PROVE  wrow' \in [Row -> RowRecord] /\ Parents' = Parents
BY DEF RowsInv, TableTyped, RowWritten, Parents

\* One that gives a row a parent.
LEMMA ParentKeepsTable ==
  ASSUME RowsInv, NEW w \in Row, NEW p \in Row \cup {Nobody}, ParentAllowed(w, p),
         NEW r \in RowRecord, r.parent = p, wrow' = [wrow EXCEPT ![w] = r]
  PROVE  wrow' \in [Row -> RowRecord] /\ NoCycle(Parents')
<1>1. Parents' = [Parents EXCEPT ![w] = p]
  BY DEF RowsInv, TableTyped, Parents
<1>2. Misses(Parents, p, w) /\ Parents \in [Row -> Row \cup {Nobody}] /\ NoCycle(Parents)
  BY AllowedMisses, ParentsTyped DEF RowsInv
<1>3. NoCycle([Parents EXCEPT ![w] = p])
  BY <1>2, HangingClosesNothing
<1>4. wrow' \in [Row -> RowRecord]
  BY DEF RowsInv, TableTyped
<1> QED BY <1>1, <1>3, <1>4

LEMMA RestKeepsRows ==
  ASSUME RowsInv, wrow' \in [Row -> RowRecord], NoCycle(Parents'), SweepSaw',
         holders' \in [Row -> SUBSET RowSession], claimed \subseteq claimed',
         \A w \in Row : holders'[w] \subseteq holders[w] \/ w \in claimed'
  PROVE  RowsInv'
<1>1. \A w \in Row : holders'[w] # {} => w \in claimed'
  BY DEF RowsInv
<1> QED BY <1>1 DEF RowsInv, TableTyped

LEMMA NoneSaw == NoSweep.rows = {}
BY DEF NoSweep

LEMMA RowsKeepInv == ASSUME RowsInv, RowsNext PROVE RowsInv'
<1>t. TableTyped /\ SweepSaw /\ NoCycle(Parents)
  BY DEF RowsInv
<1>h. \A w \in Row : wrow[w] \in RowRecord /\ holders[w] \subseteq RowSession
  BY <1>t DEF TableTyped
<1>1. ASSUME NEW w \in Row, NEW p \in Row \cup {Nobody}, CreateRow(w, p) \/ AmendParent(w, p) PROVE RowsInv'
  <2>1. PICK r \in RowRecord : r.parent = p /\ wrow' = [wrow EXCEPT ![w] = r]
    <3>1. [Absent EXCEPT !.intent = "planned", !.parent = p] \in RowRecord
      BY DEF Absent, RowRecord, Intents, Reasons
    <3>2. [wrow[w] EXCEPT !.parent = p] \in RowRecord /\ [wrow[w] EXCEPT !.parent = p].parent = p
      BY <1>h DEF RowRecord
    <3>3. [Absent EXCEPT !.intent = "planned", !.parent = p].parent = p
      BY DEF Absent
    <3>4. \/ wrow' = [wrow EXCEPT ![w] = [Absent EXCEPT !.intent = "planned", !.parent = p]]
          \/ wrow' = [wrow EXCEPT ![w] = [wrow[w] EXCEPT !.parent = p]]
      BY <1>1, <1>t DEF CreateRow, AmendParent, TableTyped
    <3> QED BY <3>1, <3>2, <3>3, <3>4
  <2>2. ParentAllowed(w, p) /\ UNCHANGED <<holders, claimed, sweep>>
    BY <1>1 DEF CreateRow, AmendParent
  <2>3. wrow' \in [Row -> RowRecord] /\ NoCycle(Parents')
    BY <2>1, <2>2, ParentKeepsTable
  <2>4. SweepSaw'
    BY <1>t, <2>2 DEF SweepSaw
  <2> QED BY <1>t, <2>2, <2>3, <2>4, RestKeepsRows DEF TableTyped
<1>2. ASSUME NEW w \in Row, NEW r, RowWritten(w, r), UNCHANGED <<claimed, sweep>>,
             NEW h \in SUBSET holders[w], holders' = [holders EXCEPT ![w] = h]
      PROVE  RowsInv'
  <2>1. wrow' \in [Row -> RowRecord] /\ NoCycle(Parents')
    BY <1>2, <1>t, WrittenKeepsTable
  <2>2. SweepSaw'
    BY <1>2, <1>t DEF SweepSaw
  <2>3. holders' \in [Row -> SUBSET RowSession] /\ \A a \in Row : holders'[a] \subseteq holders[a]
    BY <1>2, <1>t DEF TableTyped
  <2> QED BY <1>2, <2>1, <2>2, <2>3, RestKeepsRows
<1>3. ASSUME NEW w \in Row, NEW r, RowWritten(w, r), UNCHANGED <<holders, claimed, sweep>> PROVE RowsInv'
  <2>1. holders' = [holders EXCEPT ![w] = holders[w]]
    BY <1>3, <1>t DEF TableTyped
  <2> QED BY <1>2, <1>3, <2>1
<1>4. ASSUME NEW w \in Row, NEW t \in {"queued", "blocked"}, LegacyTransition(w, t) PROVE RowsInv'
  <2>1. RowWritten(w, [wrow[w] EXCEPT !.intent = t])
    BY <1>4, <1>h, <1>t DEF LegacyTransition, RowWritten, RowRecord, Intents, Reasons, Terminal, TableTyped
  <2>2. UNCHANGED <<claimed, sweep>> /\ holders' = [holders EXCEPT ![w] = {}]
    BY <1>4 DEF LegacyTransition
  <2> QED BY <1>2, <2>1, <2>2
<1>5. ASSUME NEW w \in Row, BackfillContext(w) \/ ArchiveProjection(w) \/ ReconcileInvalid(w) \/ MigratePredicate(w)
      PROVE  RowsInv'
  <2>1. PICK r : RowWritten(w, r)
    <3>1. /\ [wrow[w] EXCEPT !.note = TRUE] \in RowRecord /\ [wrow[w] EXCEPT !.note = TRUE].parent = wrow[w].parent
          /\ [wrow[w] EXCEPT !.pred = TRUE] \in RowRecord /\ [wrow[w] EXCEPT !.pred = TRUE].parent = wrow[w].parent
      BY <1>h DEF RowRecord
    <3>2. \A t \in Intents : /\ [wrow[w] EXCEPT !.intent = t] \in RowRecord
                            /\ [wrow[w] EXCEPT !.intent = t].parent = wrow[w].parent
      BY <1>h DEF RowRecord
    <3>3. \/ wrow' = [wrow EXCEPT ![w] = [wrow[w] EXCEPT !.note = TRUE]]
          \/ wrow' = [wrow EXCEPT ![w] = [wrow[w] EXCEPT !.pred = TRUE]]
          \/ \E t \in Intents : wrow' = [wrow EXCEPT ![w] = [wrow[w] EXCEPT !.intent = t]]
      BY <1>5, <1>t DEF BackfillContext, ArchiveProjection, ReconcileInvalid, MigratePredicate, TableTyped, Intents, Terminal
    <3> QED BY <3>1, <3>2, <3>3 DEF RowWritten
  <2>2. UNCHANGED <<holders, claimed, sweep>>
    BY <1>5 DEF BackfillContext, ArchiveProjection, ReconcileInvalid, MigratePredicate
  <2> QED BY <1>3, <2>1, <2>2
<1>6. ASSUME UNCHANGED <<wrow, holders, claimed, sweep>> PROVE RowsInv'
  <2>1. Parents' = Parents /\ SweepSaw'
    BY <1>6, <1>t DEF Parents, SweepSaw
  <2> QED BY <1>6, <1>t, <2>1, RestKeepsRows DEF TableTyped
<1>7. ASSUME NEW s \in RowSession, NEW w \in Row, TakeRow(s, w) PROVE RowsInv'
  <2>1. RowWritten(w, [wrow[w] EXCEPT !.intent = "running"])
    BY <1>7, <1>h, <1>t DEF TakeRow, RowWritten, RowRecord, Intents, Reasons, Terminal, TableTyped
  <2>2. wrow' \in [Row -> RowRecord] /\ NoCycle(Parents')
    BY <2>1, <1>t, WrittenKeepsTable
  <2>3. /\ holders' \in [Row -> SUBSET RowSession] /\ claimed \subseteq claimed'
        /\ \A a \in Row : holders'[a] \subseteq holders[a] \/ a \in claimed'
    BY <1>7, <1>t DEF TakeRow, TableTyped
  <2>4. SweepSaw'
    BY <1>7, <1>t DEF TakeRow, SweepSaw
  <2> QED BY <2>2, <2>3, <2>4, RestKeepsRows
<1>8. ASSUME NEW s \in RowSession, NEW w \in Row, ReleaseBlock(s, w) PROVE RowsInv'
  <2>1. RowWritten(w, [wrow[w] EXCEPT !.intent = "queued", !.reason = "none"])
    BY <1>8, <1>h, <1>t DEF ReleaseBlock, RowWritten, RowRecord, Intents, Reasons, Terminal, TableTyped
  <2>2. UNCHANGED <<claimed, sweep>> /\ holders' = [holders EXCEPT ![w] = {}]
    BY <1>8 DEF ReleaseBlock
  <2> QED BY <1>2, <2>1, <2>2
<1>9. ASSUME NEW w \in Row, ClaimExpires(w) \/ FinishRow(w) PROVE RowsInv'
  <2>1. PICK t \in Intents : wrow' = [wrow EXCEPT ![w] = [wrow[w] EXCEPT !.intent = t]]
    <3>1. wrow[w].intent \in Intents
      BY <1>h DEF RowRecord
    <3>2. CASE FinishRow(w)
      BY <3>2, <1>t DEF FinishRow, TableTyped, Intents, Terminal
    <3>3. CASE ClaimExpires(w) /\ wrow[w].intent = "running"
      BY <3>3, <1>t DEF ClaimExpires, TableTyped, Intents
    <3>4. CASE ClaimExpires(w) /\ wrow[w].intent # "running"
      <4>1. wrow' = [wrow EXCEPT ![w] = [wrow[w] EXCEPT !.intent = wrow[w].intent]]
        BY <3>4, <1>t DEF ClaimExpires, TableTyped
      <4> QED BY <3>1, <4>1
    <3> QED BY <1>9, <3>2, <3>3, <3>4
  <2>2. RowWritten(w, [wrow[w] EXCEPT !.intent = t])
    BY <1>h, <2>1 DEF RowWritten, RowRecord
  <2>3. UNCHANGED <<claimed, sweep>> /\ holders' = [holders EXCEPT ![w] = {}]
    BY <1>9 DEF ClaimExpires, FinishRow
  <2> QED BY <1>2, <2>2, <2>3
<1>10. ASSUME NEW w \in Row, NEW c \in {"ready_for_owner_resume", "other"}, BlockRow(w, c) PROVE RowsInv'
  <2>1. RowWritten(w, [wrow[w] EXCEPT !.intent = "blocked", !.reason = c])
    BY <1>10, <1>h, <1>t DEF BlockRow, RowWritten, RowRecord, Intents, Reasons, Terminal, TableTyped
  <2>2. UNCHANGED <<holders, claimed, sweep>>
    BY <1>10 DEF BlockRow
  <2> QED BY <1>3, <2>1, <2>2
<1>11. CASE PruneTerminal \/ SweepApply
  <2>1. wrow' \in [Row -> RowRecord] /\ \A w \in Row : wrow'[w].parent = wrow[w].parent
    <3>1. CASE PruneTerminal
      BY <3>1, <1>h DEF PruneTerminal, RowRecord
    <3>2. CASE SweepApply
      <4>1. \A w \in Row : LET r == [wrow[w] EXCEPT !.intent = "blocked", !.reason = "self_declared"]
                           IN r \in RowRecord /\ r.parent = wrow[w].parent
        BY <1>h DEF RowRecord, Intents, Reasons
      <4>2. wrow' = [w \in Row |-> IF w \in sweep.rows
                THEN [wrow[w] EXCEPT !.intent = "blocked", !.reason = "self_declared"] ELSE wrow[w]]
        BY <3>2 DEF SweepApply
      <4> QED BY <1>h, <4>1, <4>2
    <3> QED BY <1>11, <3>1, <3>2
  <2>2. Parents' = Parents
    BY <2>1 DEF Parents
  <2>3. UNCHANGED <<holders, claimed>> /\ (sweep' = sweep \/ sweep' = NoSweep)
    BY <1>11 DEF PruneTerminal, SweepApply
  <2>4. SweepSaw'
    BY <1>t, <2>3, NoneSaw DEF SweepSaw
  <2> QED BY <1>t, <2>1, <2>2, <2>3, <2>4, RestKeepsRows DEF TableTyped
<1>12. CASE (\E s \in RowSession : SweepScan(s)) \/ SweepRefused
  <2>1. UNCHANGED <<wrow, holders, claimed>>
    BY <1>12 DEF SweepScan, SweepRefused
  <2>2. SweepSaw'
    <3>1. CASE SweepRefused
      BY <3>1, NoneSaw DEF SweepRefused, SweepSaw
    <3>2. CASE \E s \in RowSession : SweepScan(s)
      <4>1. PICK found \in SUBSET Row : /\ \A w \in found : wrow[w].intent = "done"
                                        /\ sweep' = [rows |-> found, seen |-> [w \in found |-> wrow[w]], on |-> TRUE]
        BY <3>2 DEF SweepScan
      <4>2. sweep'.rows = found /\ \A w \in found : sweep'.seen[w] = wrow[w]
        BY <4>1
      <4> QED BY <4>1, <4>2 DEF SweepSaw
    <3> QED BY <1>12, <3>1, <3>2
  <2>3. Parents' = Parents
    BY <2>1 DEF Parents
  <2> QED BY <1>t, <2>1, <2>2, <2>3, RestKeepsRows DEF TableTyped
<1>13. ASSUME NEW w \in Row, CorrectContextPointer(w) \/ SignalEdited(w) PROVE RowsInv'
  BY <1>13, <1>6 DEF CorrectContextPointer, SignalEdited
<1> QED BY <1>1, <1>4, <1>5, <1>7, <1>8, <1>9, <1>10, <1>11, <1>12, <1>13 DEF RowsNext

LEMMA RowsRest == ASSUME RowsInv, UNCHANGED rowVars PROVE RowsInv'
<1>1. Parents' = Parents /\ SweepSaw'
  BY DEF RowsInv, rowVars, Parents, SweepSaw
<1> QED BY <1>1 DEF RowsInv, rowVars, TableTyped

\* What a step that ends a row owes (EndedForCause).
ForCause(w) ==
  /\ wrow'[w].intent = "archived" /\ wrow[w].intent # "archived" =>
       holders[w] = {} /\ w \notin traces /\ w \notin claimed
  /\ wrow'[w].intent = "superseded" /\ wrow[w].intent # "superseded" =>
       holders[w] = {} /\ w \notin traces
  /\ wrow'[w].reason = "self_declared" /\ wrow[w].reason # "self_declared" =>
       /\ wrow[w].intent = "done"
       /\ w \in sweep.rows /\ wrow[w] = sweep.seen[w]

\* Only archiving, superseding and the sweep end a row.
LEMMA EndsForCause == ASSUME RowsInv, RowsNext, NEW w \in Row PROVE ForCause(w)
<1>t. /\ wrow \in [Row -> RowRecord] /\ SweepSaw /\ (holders[w] # {} => w \in claimed)
  BY DEF RowsInv, TableTyped
<1>1. ASSUME NEW v \in Row, NEW p \in Row \cup {Nobody}, CreateRow(v, p) \/ AmendParent(v, p) PROVE ForCause(w)
  <2>1. CASE CreateRow(v, p)
    <3>1. PICK r : r = [Absent EXCEPT !.intent = "planned", !.parent = p]
      OBVIOUS
    <3>2. r.intent = "planned" /\ r.reason = "none"
      BY <3>1 DEF Absent
    <3>3. wrow' = [wrow EXCEPT ![v] = r]
      BY <2>1, <3>1 DEF CreateRow
    <3> QED BY <3>2, <3>3, <1>t DEF ForCause
  <2>2. CASE AmendParent(v, p)
    BY <2>2, <1>t DEF AmendParent, ForCause, RowRecord
  <2> QED BY <1>1, <2>1, <2>2
<1>2. ASSUME NEW v \in Row, NEW t \in {"queued", "blocked"}, LegacyTransition(v, t) PROVE ForCause(w)
  BY <1>2, <1>t DEF LegacyTransition, ForCause, RowRecord
<1>3. ASSUME NEW v \in Row, BackfillContext(v) \/ CorrectContextPointer(v) \/ SignalEdited(v) \/ MigratePredicate(v)
      PROVE  ForCause(w)
  BY <1>3, <1>t DEF BackfillContext, CorrectContextPointer, SignalEdited, MigratePredicate, ForCause, RowRecord
<1>4. ASSUME NEW v \in Row, NEW s \in RowSession, TakeRow(s, v) \/ ReleaseBlock(s, v) PROVE ForCause(w)
  BY <1>4, <1>t DEF TakeRow, ReleaseBlock, ForCause, RowRecord
<1>5. ASSUME NEW v \in Row, ClaimExpires(v) \/ FinishRow(v) PROVE ForCause(w)
  BY <1>5, <1>t DEF ClaimExpires, FinishRow, ForCause, RowRecord
<1>6. ASSUME NEW v \in Row, NEW c \in {"ready_for_owner_resume", "other"}, BlockRow(v, c) PROVE ForCause(w)
  BY <1>6, <1>t DEF BlockRow, ForCause, RowRecord
<1>7. ASSUME NEW v \in Row, ArchiveProjection(v) \/ ReconcileInvalid(v) PROVE ForCause(w)
  BY <1>7, <1>t DEF ArchiveProjection, Archivable, ReconcileInvalid, ForCause, RowRecord
<1>8. CASE PruneTerminal
  BY <1>8, <1>t DEF PruneTerminal, ForCause, RowRecord
<1>9. CASE (\E s \in RowSession : SweepScan(s)) \/ SweepRefused
  BY <1>9 DEF SweepScan, SweepRefused, ForCause
<1>10. CASE SweepApply
  <2>1. w \notin sweep.rows => wrow'[w] = wrow[w]
    BY <1>10 DEF SweepApply
  <2>2. w \in sweep.rows => /\ wrow[w] = sweep.seen[w] /\ wrow[w].intent = "done"
                            /\ wrow'[w].intent = "blocked"
    <3>1. wrow[w] \in RowRecord
      BY <1>t
    <3>2. [wrow[w] EXCEPT !.intent = "blocked", !.reason = "self_declared"].intent = "blocked"
      BY <3>1 DEF RowRecord
    <3>3. w \in sweep.rows => wrow'[w] = [wrow[w] EXCEPT !.intent = "blocked", !.reason = "self_declared"]
      BY <1>10 DEF SweepApply
    <3>4. w \in sweep.rows => wrow[w] = sweep.seen[w] /\ sweep.seen[w].intent = "done"
      BY <1>10, <1>t DEF SweepApply, Reopenable, SweepSaw
    <3> QED BY <3>2, <3>3, <3>4, Zenon
  <2> QED BY <2>1, <2>2 DEF ForCause
<1> QED BY <1>1, <1>2, <1>3, <1>4, <1>5, <1>6, <1>7, <1>8, <1>9, <1>10 DEF RowsNext

-----------------------------------------------------------------------------
(* The table of rows has no cycle of parents as far as the check walks, and *)
(* a maintenance verb ends a row only for cause, for any rows and any depth *)
(* of the walk (upsert_work, the archive and supersede verbs, the sweep).   *)
THEOREM RowsKeptHolds == RowsSpec => RowsKept
<1>1. RowsInit => RowsInv
  BY RowsStart
<1>2. RowsInv /\ [RowsNext]_rowVars => RowsInv'
  BY RowsKeepInv, RowsRest
<1>3. RowsInv => \A w \in Row : NotItsOwnAncestor(w)
  BY OwnAncestors DEF RowsInv
<1>4. RowsInv /\ [RowsNext]_rowVars =>
       [\A w \in Row :
       /\ wrow'[w].intent = "archived" /\ wrow[w].intent # "archived" =>
            holders[w] = {} /\ w \notin traces /\ w \notin claimed
       /\ wrow'[w].intent = "superseded" /\ wrow[w].intent # "superseded" =>
            holders[w] = {} /\ w \notin traces
       /\ wrow'[w].reason = "self_declared" /\ wrow[w].reason # "self_declared" =>
            /\ wrow[w].intent = "done"
            /\ w \in sweep.rows /\ wrow[w] = sweep.seen[w]]_rowVars
  BY EndsForCause DEF ForCause
<1> QED BY <1>1, <1>2, <1>3, <1>4, PTL DEF RowsSpec, RowsKept, EndedForCause
=============================================================================
