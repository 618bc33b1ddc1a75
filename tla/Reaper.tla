------------------------------- MODULE Reaper -------------------------------
(***************************************************************************)
(* One pass of run_reaper (coord/reaper.py), interleaved with the verbs of *)
(* ClaimLifecycle.  The pass is a sequence of separate transactions; what  *)
(* it reads before one of them (the sessions it believes dead, the rows    *)
(* and claims of the continuation scan, the runs it probed, the stale      *)
(* intents) is used after other processes have written.  Those snapshots   *)
(* are the variables of this module.                                       *)
(***************************************************************************)
EXTENDS ClaimLifecycle

VARIABLES
  pc,      \* the transaction of the pass that comes next
  dead,    \* dead_sessions: sessions believed dead
  scan,    \* rows of the continuation scan still to be evaluated
  cur,     \* the row whose predicate was found true, while it is applied
  probe,   \* to_orphan: runs whose probe failed
  debt     \* active_intent_debt: rows whose running intent is backed by nothing

reaperVars == <<pc, dead, scan, cur, probe, debt>>
vars == <<sess, claim, row, run, gone, pinned, pc, dead, scan, cur, probe, debt>>

Phase == {"idle", "killed", "reap", "scan", "continue", "apply", "probe", "orphan",
          "fleet", "debt", "normalize", "sweep"}

\* A row of the continuation scan: the intent and the blocked claim it saw, and
\* whether the row qualifies for an automatic requeue.
ScanRow == [work : Work, claim : Claim \cup {NoClaim}, intent : Intent,
            requeue : BOOLEAN]

\* The type of the lifecycle tables and of the snapshots of a pass.
TypeOK ==
  /\ LifeTypeOK
  /\ pc \in Phase
  /\ dead \subseteq Session
  /\ scan \subseteq ScanRow
  /\ cur \subseteq ScanRow
  /\ probe \subseteq Run
  /\ debt \subseteq Work

Init ==
  /\ LifeInit
  /\ pc = "idle"
  /\ dead = {} /\ scan = {} /\ cur = {} /\ probe = {} /\ debt = {}

-----------------------------------------------------------------------------
(* Sessions confirmed dead.                                                *)

PidDead(s) == sess[s].state = "active" /\ sess[s].pid = "down"

\* _pidless_workless_stale_sessions.
PidlessWorkless(s) ==
  /\ sess[s].state = "active" /\ sess[s].pid = "none"
  /\ sess[s].left < -PidlessGrace
  /\ ~\E c \in Claim : Held(c) /\ claim[c].session = s
  /\ ~\E r \in Run : run[r].state = "live" /\ RunBelongsTo(r, s)

Snapshot ==
  /\ pc \in {"idle", "killed"}
  /\ pc' = "reap"
  /\ dead' = {s \in Session : PidDead(s) \/ PidlessWorkless(s)}
  /\ UNCHANGED <<lifeVars, scan, cur, probe, debt>>

\* The sessions reap_zombie_sessions still finds active and long expired.
Reaped == {s \in dead : sess[s].state = "active" /\ sess[s].left < -Grace}
ReapedClaims == {c \in Claim : Held(c) /\ claim[c].session \in Reaped}

ReapZombies ==
  /\ pc = "reap"
  /\ pc' = "scan"
  /\ claim' = [c \in Claim |-> IF c \in ReapedClaims THEN WithEnd(claim[c], "unclaimed")
                               ELSE claim[c]]
  /\ row' = [w \in Work |->
       IF row[w].intent # "done" /\ \E c \in ReapedClaims : claim[c].work = w
       THEN WithIntent(row[w], "queued") ELSE row[w]]
  /\ run' = [r \in Run |->
       IF run[r].state = "live" /\ \E s \in Reaped : RunBelongsTo(r, s)
       THEN [run[r] EXCEPT !.state = "over"] ELSE run[r]]
  /\ sess' = [s \in Session |-> IF s \in Reaped THEN [sess[s] EXCEPT !.state = "reaped"]
                                ELSE sess[s]]
  /\ dead' = {}
  /\ UNCHANGED <<gone, pinned, scan, cur, probe, debt>>

-----------------------------------------------------------------------------
(* Continuations: evaluate_continuations.                                  *)

BlockedOn(w) == {c \in HeldOn(w) : claim[c].status = "blocked"}

\* The one blocked claim of a row; ix_one_held_claim allows no second one.
BlockedClaim(w) == IF BlockedOn(w) = {} THEN NoClaim ELSE CHOOSE c \in BlockedOn(w) : TRUE

\* Mutant: only rows that still have a blocked claim are looked at.
ScannableHeld(w) ==
  /\ row[w].intent \in {"blocked", "paused", "queued", "planned"}
  /\ ~row[w].ready /\ row[w].pred # "none"
  /\ BlockedOn(w) # {}
Scannable(w) ==
  /\ row[w].intent \in {"blocked", "paused", "queued", "planned"}
  /\ ~row[w].ready
  /\ row[w].pred # "none"

\* safe_candidate: an allowlisted reason class and a mechanical predicate.
SafeCandidate(w) ==
  row[w].intent = "blocked" /\ row[w].reason = "auto" /\ row[w].pred = "mechanical"

Scanned(w) ==
  [work |-> w, claim |-> BlockedClaim(w), intent |-> row[w].intent,
   requeue |-> SafeCandidate(w) /\ (BlockedOn(w) # {} \/ HeldOn(w) = {})]

ContinuationScan ==
  /\ pc = "scan"
  /\ pc' = "continue"
  /\ scan' = {Scanned(w) : w \in {v \in Work : Scannable(v)}}
  /\ pinned' = {v \in Work : Scannable(v)}
  /\ UNCHANGED <<sess, claim, row, run, gone, dead, cur, probe, debt>>

\* _predicate_true on the predicate the scan read.  If the row has changed since,
\* that predicate is no longer the row's and may have any value.
PredicateTrue(w) == IF w \in pinned THEN {row[w].met} ELSE BOOLEAN

ContinuationEval(m) ==
  /\ pc = "continue"
  /\ m \in scan
  /\ scan' = scan \ {m}
  /\ \E b \in PredicateTrue(m.work) :
       /\ cur' = IF b THEN {m} ELSE {}
       /\ pc' = IF b THEN "apply" ELSE "continue"
  /\ UNCHANGED <<lifeVars, dead, probe, debt>>

\* Mutant: the row's version is not compared.
CasWithoutVersion(m) ==
  /\ row[m.work].intent = m.intent
  /\ ~row[m.work].ready
  /\ BlockedClaim(m.work) = m.claim
  /\ (m.requeue /\ m.claim = NoClaim) => HeldOn(m.work) = {}
\* The compare-and-set of apply_continuation_ready_transition.
CasHolds(m) ==
  /\ m.work \in pinned
  /\ row[m.work].intent = m.intent
  /\ ~row[m.work].ready
  /\ BlockedClaim(m.work) = m.claim
  /\ (m.requeue /\ m.claim = NoClaim) => HeldOn(m.work) = {}

\* What the transition makes of the row: readiness is recorded in any case, a
\* qualifying row is queued again.
Continued(m) ==
  LET r == [row[m.work] EXCEPT !.ready = TRUE, !.stale = FALSE] IN
  IF m.requeue THEN [r EXCEPT !.intent = "queued", !.reason = "none"] ELSE r

\* Mutant: the blocked claim is left on the row it no longer blocks.
KeepBlockedClaim(m) == claim
ReleaseBlockedClaim(m) ==
  IF m.requeue /\ m.claim # NoClaim
  THEN [claim EXCEPT ![m.claim] = WithEnd(claim[m.claim], "released")] ELSE claim

ContinuationApply(m) ==
  /\ pc = "apply"
  /\ m \in cur
  /\ CasHolds(m)
  /\ row' = [row EXCEPT ![m.work] = Continued(m)]
  /\ claim' = ReleaseBlockedClaim(m)
  /\ pinned' = pinned \ {m.work}
  /\ cur' = {} /\ pc' = "continue"
  /\ UNCHANGED <<sess, run, gone, dead, scan, probe, debt>>

ContinuationMismatch(m) ==
  /\ pc = "apply"
  /\ m \in cur
  /\ ~CasHolds(m)
  /\ cur' = {} /\ pc' = "continue"
  /\ UNCHANGED <<lifeVars, dead, scan, probe, debt>>

ContinuationEnd ==
  /\ pc = "continue"
  /\ scan = {}
  /\ pinned' = {}
  /\ pc' = "probe"
  /\ UNCHANGED <<sess, claim, row, run, gone, dead, scan, cur, probe, debt>>

-----------------------------------------------------------------------------
(* Runs, stale intents and expired leases.                                 *)

\* Mutant: runs without a pid never age out.
ProbeFailsLocal(r) == run[r].state = "live" /\ run[r].kind = "local" /\ ~run[r].up
ProbeFails(r) == run[r].state = "live" /\ ~run[r].up

\* reap_dead_runs probes outside the transaction that marks the runs.
RunProbe ==
  /\ pc = "probe"
  /\ pc' = "orphan"
  /\ probe' = {r \in Run : ProbeFails(r)}
  /\ UNCHANGED <<lifeVars, dead, scan, cur, debt>>

OrphanProbed ==
  /\ pc = "orphan"
  /\ pc' = "fleet"
  /\ run' = [r \in Run |-> IF r \in probe /\ run[r].state = "live"
                           THEN [run[r] EXCEPT !.state = "over"] ELSE run[r]]
  /\ probe' = {}
  /\ UNCHANGED <<sess, claim, row, gone, pinned, dead, scan, cur, debt>>

FleetBacked(c) ==
  \E r \in Run : run[r].state = "live" /\ run[r].kind = "fleet" /\ run[r].work = claim[c].work

\* renew_claims_from_live_fleets: the claim, not the session that holds it.
FleetRenew ==
  /\ pc = "fleet"
  /\ pc' = "debt"
  /\ claim' = [c \in Claim |->
       IF claim[c].status = "running" /\ 2 * claim[c].left < Lease /\ FleetBacked(c)
       THEN [claim[c] EXCEPT !.left = Lease] ELSE claim[c]]
  /\ UNCHANGED <<sess, row, run, gone, pinned, dead, scan, cur, probe, debt>>

\* active_intent_debt, read outside the transaction that normalises.
InDebt(w) ==
  /\ row[w].intent = "running" /\ row[w].stale
  /\ HeldOn(w) = {} /\ ~HasArtifact(w) /\ ~LiveRunOn(w)

DebtScan ==
  /\ pc = "debt"
  /\ pc' = "normalize"
  /\ debt' = {w \in Work : InDebt(w)}
  /\ UNCHANGED <<lifeVars, dead, scan, cur, probe>>

\* normalize_stale_active_intents: only intent_state is looked at again.
Normalize ==
  /\ pc = "normalize"
  /\ pc' = "sweep"
  /\ row' = [w \in Work |-> IF w \in debt /\ row[w].intent = "running"
                            THEN WithIntent(row[w], "queued") ELSE row[w]]
  /\ debt' = {}
  /\ UNCHANGED <<sess, claim, run, gone, pinned, dead, scan, cur, probe>>

\* release_expired_claims_batch.
SweepAll ==
  /\ pc = "sweep"
  /\ pc' = "idle"
  /\ claim' = SweptClaims(Work)
  /\ row' = SweptRows(Work)
  /\ UNCHANGED <<sess, run, gone, pinned, dead, scan, cur, probe, debt>>

-----------------------------------------------------------------------------
ReaperStep ==
  \/ Snapshot \/ ReapZombies
  \/ ContinuationScan
  \/ \E m \in scan : ContinuationEval(m)
  \/ \E m \in cur : ContinuationApply(m) \/ ContinuationMismatch(m)
  \/ ContinuationEnd
  \/ RunProbe \/ OrphanProbed \/ FleetRenew
  \/ DebtScan \/ Normalize \/ SweepAll

\* The pass dies between two transactions and leaves the rest undone.
ReaperAbort ==
  /\ pc \notin {"idle", "killed"}
  /\ pc' = "killed"
  /\ dead' = {} /\ scan' = {} /\ cur' = {} /\ probe' = {} /\ debt' = {}
  /\ pinned' = {}
  /\ UNCHANGED <<sess, claim, row, run, gone>>

Next ==
  \/ LifeNext /\ UNCHANGED reaperVars
  \/ ReaperStep
  \/ ReaperAbort

Spec == Init /\ [][Next]_vars

\* Time passes, and passes of the reaper are run again and again and in the
\* end are not killed.  Agents owe nobody a step.
Fairness ==
  /\ WF_vars(Tick /\ UNCHANGED reaperVars)
  /\ WF_vars(ReaperStep)
  /\ <>[][~ReaperAbort]_vars

FairSpec == Spec /\ Fairness

-----------------------------------------------------------------------------
(* Safety.                                                                 *)

\* At most one claim on a row is held, whatever mix of running, paused and
\* blocked claims the verbs and the reaper leave behind.
OneHeldClaim == \A w \in Work : \A c, d \in HeldOn(w) : c = d

\* A done row was completed by a claim and nobody holds it: the re-entrant path
\* of claim_work, which comes before the test for terminal rows, and the writes
\* of release_claim never meet a held claim on a done row.
DoneIsEarned == \A w \in Work : row[w].intent = "done" => HasArtifact(w) /\ HeldOn(w) = {}

\* A row carries continuation_ready_at only for the predicate it has now: never
\* for one that a park or block replaced while the reaper was evaluating it.
ReadyIsEarned ==
  \A w \in Work : row[w].ready /\ row[w].pred \in {"mechanical", "authority"} => row[w].met

\* An ownership epoch ends once: a released, unclaimed or completed claim is
\* never written again, and a claim never changes its row or its session.
EpochFinality ==
  [][\A c \in Claim :
       /\ claim[c].status \in EndedStatus => claim'[c] = claim[c]
       /\ claim[c].status # "none" =>
            claim'[c].work = claim[c].work /\ claim'[c].session = claim[c].session]_vars

\* A continuation that requeues a row leaves nobody holding it, although claims
\* may have come and gone since the scan.
NoYank ==
  [][pc = "apply" /\ pc' = "continue" =>
       \A w \in Work : row'[w].intent # row[w].intent => HeldOn(w)' = {}]_vars

\* The owner of a row, as the abstract specification sees it.
Owner(w) == IF HeldOn(w) = {} THEN NoClaim ELSE CHOOSE c \in HeldOn(w) : TRUE

Own == INSTANCE Ownership WITH
  owner <- [w \in Work |-> Owner(w)],
  spent <- {c \in Claim : claim[c].status \in EndedStatus},
  lapsed <- {c \in Claim : Held(c) /\ claim[c].left < 0}

\* The claim tables implement Ownership: in every interleaving of verbs and
\* reaper steps, epochs end once and a takeover meets only lapsed leases.
ImplementsOwnership == Own!Spec

-----------------------------------------------------------------------------
(* Liveness.                                                               *)

\* A row whose predicate has come true without anyone having been told.
Silent(w) ==
  /\ row[w].intent \in {"blocked", "paused", "queued", "planned"}
  /\ row[w].pred # "none" /\ row[w].met /\ ~row[w].ready

\* Someone writes the row between the scan and the transition that needs it.
Overtaken(w) == w \in pinned /\ w \notin pinned' /\ pc' = pc

\* A predicate that is true does not go unheard, with or without a blocked claim
\* left on the row: continuation_ready_at is set unless the compare-and-set
\* loses against other writers for ever.
NeverSilent ==
  \A w \in Work : []<>~Silent(w) \/ []<><<Overtaken(w)>>_vars

\* The agents whose verbs may renew a claim of session h.
Kin(h) == {s \in Session : \E k \in Related[s] : h \in Related[k]}
Abandoned(c) == Held(c) /\ Kin(claim[c].session) \subseteq gone
Backed(c) ==
  \E r \in Run : run[r].up /\ (run[r].claim = c \/ run[r].work = claim[c].work)

\* A claim whose agents have all died is freed, in whatever status it was left,
\* unless a live run keeps it.
AbandonedIsFreed == \A c \in Claim : Abandoned(c) ~> ~Held(c) \/ Backed(c)

\* A run whose process is gone does not stay live in the table.
DeadRunIsOrphaned ==
  \A r \in Run : run[r].state = "live" /\ ~run[r].up ~> run[r].state = "over"

\* intent_state = 'running' with no held claim and no run behind it does not last,
\* even on rows that the expiry sweep must not requeue, as long as the row was
\* never completed.
Unbacked(w) == row[w].intent = "running" /\ HeldOn(w) = {} /\ ~LiveRunOn(w)
NoImmortalRunning ==
  \A w \in Work : Unbacked(w) /\ ~HasArtifact(w) ~> ~Unbacked(w)

\* Nothing an agent abandons stays stuck: neither the claims it held nor a row
\* that says running with nothing behind it (the passes of the reaper).
NothingIsStuck == AbandonedIsFreed /\ NoImmortalRunning

\* README.md:588: on T0 work "coord done raises until an independent lane's verdict
\* passes"; README.md:136: "a lane cannot pass its own work".  The lane whose PASS
\* let a T0 row complete is not the lane that completed it.
IndependentReview ==
  \A w \in T0Work : row[w].intent = "done" => row[w].reviewer # row[w].author
=============================================================================
