--------------------------- MODULE ClaimLifecycle ---------------------------
(***************************************************************************)
(* The claim lifecycle of coord/coord_db.py: sessions, claims, work rows   *)
(* and runs in one SQLite database, and the verbs agents call on them.     *)
(*                                                                         *)
(* Every writer runs inside tx(), a BEGIN IMMEDIATE transaction, so one    *)
(* verb is one action.  A verb that raises rolls its transaction back: a   *)
(* refusal changes nothing and is an action that is not enabled.           *)
(*                                                                         *)
(* Time.  The code compares lease timestamps with the database clock.  The *)
(* model keeps what a comparison can see, the time LEFT on a lease, and    *)
(* lets Tick count it down.  left > 0 is a live lease, left = 0 is the     *)
(* instant expires_at = now, which the code treats neither as live         *)
(* (expires_at > now) nor as expired (expires_at < now), and left < 0 is   *)
(* an expired lease.  Leases stop counting once no comparison can tell the *)
(* values apart.                                                           *)
(*                                                                         *)
(* Versions.  work_items.version is bumped by every update of a row and is *)
(* compared only with the value an optimistic reader saw.  The reader      *)
(* that keeps a value across transactions is the continuation scan of the  *)
(* reaper; `pinned` holds the rows whose version is still the one it read. *)
(***************************************************************************)
EXTENDS Integers

CONSTANTS
  Session,       \* agent_sessions.session_id values
  Work,          \* work_items.work_id values
  Claim,         \* claims.claim_id values: new_id() never returns one twice
  Run,           \* runs.run_id values
  Lane,          \* configured lanes (claude, codex, ...)
  ActorOf,       \* the lane each session is registered under
  Related,       \* sessions a session is an alias of, itself included
  Parent,        \* parent_session_id of each session, NoSession for a root
  T0Work,        \* rows whose effective review tier is T0
  Shared,        \* an assignee that is not private to a lane
  NoSession, NoWork, NoClaim, NoLane,
  Lease,         \* LEASE_DEFAULT_S in ticks
  Grace,         \* REAP_GRACE_S in ticks
  PidlessGrace,  \* PIDLESS_WORKLESS_SESSION_GRACE_S in ticks
  Pids,          \* "up": CLI commands register a pid, "none": MCP servers do not
  Mortal,        \* sessions whose agent may die
  Predicates,    \* resume predicates agents attach
  Classes,       \* blocked reason classes agents classify into
  Verdicts,      \* audit verdicts reviewers post
  RunKinds       \* runner kinds that appear

PredicateKind == {"manual", "mechanical", "authority"}
ReasonClass == {"auto", "review", "other"}
VerdictValue == {"PASS", "FLAG", "BLOCKED"}

ASSUME IdentityAssumption ==
  /\ ActorOf \in [Session -> Lane]
  /\ Related \in [Session -> SUBSET Session]
  /\ \A s \in Session : s \in Related[s]
  /\ \A s \in Session : \A r \in Related[s] : ActorOf[r] = ActorOf[s]
  /\ Parent \in [Session -> Session \cup {NoSession}]
  /\ T0Work \subseteq Work
  /\ NoSession \notin Session /\ NoWork \notin Work /\ NoClaim \notin Claim
  /\ NoLane \notin Lane /\ Shared \notin Lane /\ Shared # NoLane

ASSUME TimeAssumption ==
  /\ Lease \in Nat \ {0}
  /\ Grace \in Nat
  /\ PidlessGrace \in Nat

ASSUME InputAssumption ==
  /\ Pids \subseteq {"none", "up"}
  /\ Mortal \subseteq Session
  /\ Predicates \subseteq PredicateKind
  /\ Classes \subseteq ReasonClass
  /\ Verdicts \subseteq VerdictValue
  /\ RunKinds \subseteq {"fleet", "local"}

VARIABLES
  sess,    \* agent_sessions: [state, left, pid]
  claim,   \* claims: [status, work, session, left]
  row,     \* work_items: the columns the verbs below read or write
  run,     \* runs: [state, kind, work, session, claim, up]
  gone,    \* sessions whose agent will never act again
  pinned   \* rows whose version is the one the continuation scan read

lifeVars == <<sess, claim, row, run, gone, pinned>>

-----------------------------------------------------------------------------
(* Types.                                                                  *)

HeldStatus == {"running", "paused", "blocked"}
EndedStatus == {"released", "unclaimed", "completed"}
Intent == {"absent", "planned", "queued", "running", "paused", "blocked", "done"}
Reason == {"none", "auto", "review", "other"}

SessionRow ==
  [state : {"none", "active", "ended", "reaped"},
   left : Int, pid : {"none", "up", "down"}]
ClaimRow ==
  [status : {"none"} \cup HeldStatus \cup EndedStatus,
   work : Work \cup {NoWork}, session : Session \cup {NoSession}, left : Int]
\* met: the attached predicate evaluates to true.  stale: updated_at is older
\* than ACTIVE_INTENT_STALE_SECS.  author: the lane of the latest claim.
\* reviewer: the lane of the PASS that rubric_verdict records.
WorkRow ==
  [intent : Intent, reason : Reason, pred : {"none"} \cup PredicateKind,
   ready : BOOLEAN, met : BOOLEAN, assignee : Lane \cup {Shared, NoLane},
   verdict : {"none", "pass", "negative"}, reviewer : Lane \cup {NoLane},
   author : Lane \cup {NoLane}, stale : BOOLEAN]
\* up: the probe of reap_dead_runs counts the run as alive.  claim: the claim
\* a launched job's sidecar is bound to.
RunRow ==
  [state : {"none", "live", "over"}, kind : {"fleet", "local"},
   work : Work \cup {NoWork}, session : Session \cup {NoSession},
   claim : Claim \cup {NoClaim}, up : BOOLEAN]

\* Every table holds rows of its schema.
LifeTypeOK ==
  /\ sess \in [Session -> SessionRow]
  /\ claim \in [Claim -> ClaimRow]
  /\ row \in [Work -> WorkRow]
  /\ run \in [Run -> RunRow]
  /\ gone \subseteq Session
  /\ pinned \subseteq Work

LifeInit ==
  /\ sess = [s \in Session |-> [state |-> "none", left |-> 0, pid |-> "none"]]
  /\ claim = [c \in Claim |-> [status |-> "none", work |-> NoWork,
                               session |-> NoSession, left |-> 0]]
  /\ row = [w \in Work |-> [intent |-> "absent", reason |-> "none",
                            pred |-> "none", ready |-> FALSE, met |-> FALSE,
                            assignee |-> NoLane, verdict |-> "none",
                            reviewer |-> NoLane, author |-> NoLane, stale |-> FALSE]]
  /\ run = [r \in Run |-> [state |-> "none", kind |-> "local", work |-> NoWork,
                           session |-> NoSession, claim |-> NoClaim, up |-> FALSE]]
  /\ gone = {}
  /\ pinned = {}

-----------------------------------------------------------------------------
(* Reading the tables.                                                     *)

Held(c) == claim[c].status \in HeldStatus
HeldOn(w) == {c \in Claim : Held(c) /\ claim[c].work = w}
Live(c) == Held(c) /\ claim[c].left > 0
\* Mutants: a lease counts as expired at the instant expires_at = now; only
\* running claims expire.
ExpiredAtBoundary(c) == Held(c) /\ claim[c].left <= 0
ExpiredRunning(c) == claim[c].status = "running" /\ claim[c].left < 0
Expired(c) == Held(c) /\ claim[c].left < 0

\* complete_claim is the only writer of a completion artifact.
HasArtifact(w) == \E c \in Claim : claim[c].status = "completed" /\ claim[c].work = w

LiveRunOn(w) == \E r \in Run : run[r].state = "live" /\ run[r].work = w
RunBelongsTo(r, s) ==
  run[r].session # NoSession /\ (run[r].session = s \/ Parent[run[r].session] = s)

-----------------------------------------------------------------------------
(* Writing the tables.                                                     *)

\* An UPDATE of work_items also writes updated_at.
WithIntent(r, i) == [r EXCEPT !.intent = i, !.stale = FALSE]

\* Mutant: a status that the schema does not know.
WithEndExpired(c, st) == [c EXCEPT !.status = "expired", !.left = 0]
\* A claim whose epoch is over; its expires_at is never read again.
WithEnd(c, st) == [c EXCEPT !.status = st, !.left = 0]

\* _renew_sessions_and_claims_unlocked: no test of expires_at.
RenewedSessions(F) ==
  [s \in Session |-> IF s \in F /\ sess[s].state # "none"
                     THEN [sess[s] EXCEPT !.left = Lease] ELSE sess[s]]
RenewedClaims(F) ==
  [c \in Claim |-> IF Held(c) /\ claim[c].session \in F
                   THEN [claim[c] EXCEPT !.left = Lease] ELSE claim[c]]

\* _release_expired_claims_unlocked on the rows of W.  A row keeps a blocked or
\* paused disposition, and any row that carries a reason class.
Sticky(w) == row[w].intent \in {"blocked", "paused"} \/ row[w].reason # "none"
SweptClaims(W) ==
  [c \in Claim |-> IF Expired(c) /\ claim[c].work \in W
                   THEN WithEnd(claim[c], "unclaimed") ELSE claim[c]]
SweepRequeues(w) ==
  /\ \E c \in HeldOn(w) : Expired(c)
  /\ \A c \in HeldOn(w) : Expired(c)
  /\ ~Sticky(w)
  /\ row[w].intent \notin {"queued", "done"}
SweptRows(W) ==
  [w \in Work |-> IF w \in W /\ SweepRequeues(w)
                  THEN WithIntent(row[w], "queued") ELSE row[w]]

-----------------------------------------------------------------------------
(* Sessions.                                                               *)

\* p = "none": an MCP server registers no pid and COALESCE keeps the old one;
\* p = "up": a CLI command registers its own process.
RegisterSession(s, p) ==
  /\ sess' = [RenewedSessions(Related[s]) EXCEPT
                ![s] = [state |-> "active", left |-> Lease,
                        pid |-> IF p = "none" THEN sess[s].pid ELSE p]]
  /\ claim' = RenewedClaims(Related[s])
  /\ UNCHANGED <<row, run, gone, pinned>>

RenewLease(s) ==
  /\ sess' = RenewedSessions(Related[s])
  /\ claim' = RenewedClaims(Related[s])
  /\ UNCHANGED <<row, run, gone, pinned>>

OrphanedRuns(s) ==
  [r \in Run |-> IF run[r].state = "live" /\ RunBelongsTo(r, s)
                 THEN [run[r] EXCEPT !.state = "over"] ELSE run[r]]

EndSession(s) ==
  /\ sess' = [sess EXCEPT ![s].state = IF @ = "active" THEN "ended" ELSE @]
  /\ run' = OrphanedRuns(s)
  /\ UNCHANGED <<claim, row, gone, pinned>>

-----------------------------------------------------------------------------
(* Work rows and claims.                                                   *)

CreateWork(w, a) ==
  /\ row[w].intent = "absent"
  /\ row' = [row EXCEPT ![w].intent = "planned", ![w].assignee = a]
  /\ UNCHANGED <<sess, claim, run, gone, pinned>>

\* The checks of claim_work that come before any look at the claims.  Every
\* caller of claim_work registers the session first, so its lease is running.
MayClaim(s, w) ==
  /\ sess[s].state # "none" /\ sess[s].left > 0
  /\ row[w].intent # "absent"
  /\ row[w].assignee \in {ActorOf[s], Shared}

\* The live claim of s's own family on w in status st, after the sweep of w.
OwnLive(s, w, st) ==
  {c \in HeldOn(w) : Live(c) /\ claim[c].status \in st
                     /\ claim[c].session \in Related[s]}

\* claim_work on a row the caller's family already runs: renewed in place.
\* This path comes before the test for terminal rows.
ClaimReentrant(s, w) ==
  /\ MayClaim(s, w)
  /\ \E c \in OwnLive(s, w, {"running"}) :
       claim' = [SweptClaims({w}) EXCEPT ![c].left = Lease]
  /\ row' = [row EXCEPT ![w] = WithIntent(row[w], "running")]
  /\ pinned' = pinned \ {w}
  /\ UNCHANGED <<sess, run, gone>>

\* claim_work by the owner of a suspended claim: the same epoch runs again.
ClaimResume(s, w) ==
  /\ MayClaim(s, w)
  /\ OwnLive(s, w, {"running"}) = {}
  /\ SweptRows({w})[w].intent \in {"blocked", "paused"}
  /\ \E c \in OwnLive(s, w, {"paused", "blocked"}) :
       claim' = [SweptClaims({w}) EXCEPT ![c].status = "running", ![c].left = Lease]
  /\ row' = [row EXCEPT ![w] = WithIntent(row[w], "running")]
  /\ pinned' = pinned \ {w}
  /\ UNCHANGED <<sess, run, gone>>

\* Mutant: the index ignores claims that are not live.
IndexAdmitsNotLive(w) == \A c \in HeldOn(w) : ~Live(c)
\* ix_one_held_claim: the INSERT fails while another claim on w is held.
IndexAdmits(w) == \A c \in HeldOn(w) : Expired(c)

\* claim_work that inserts a new claim: a new ownership epoch.
ClaimNew(s, w, c) ==
  LET swept == SweptRows({w})[w] IN
  /\ MayClaim(s, w)
  /\ OwnLive(s, w, {"running"}) = {}
  /\ swept.intent \in {"planned", "queued", "running"}
  /\ swept.intent # "running" => (swept.pred = "none" \/ swept.ready)
  /\ IndexAdmits(w)
  /\ claim[c].status = "none"
  /\ claim' = [SweptClaims({w}) EXCEPT
                 ![c] = [status |-> "running", work |-> w, session |-> s, left |-> Lease]]
  /\ row' = [row EXCEPT ![w] = [WithIntent(swept, "running") EXCEPT !.author = ActorOf[s]]]
  /\ pinned' = pinned \ {w}
  /\ UNCHANGED <<sess, run, gone>>

\* post_claim_conflict sweeps the contended row before naming its holder.
ConflictSweep(w) ==
  /\ \E c \in HeldOn(w) : Expired(c)
  /\ claim' = SweptClaims({w})
  /\ row' = SweptRows({w})
  /\ pinned' = {v \in pinned : row'[v] = row[v]}
  /\ UNCHANGED <<sess, run, gone>>

\* _assert_claim_holder_unlocked.
IsHolder(s, c) == claim[c].session \in Related[s]

HeartbeatClaim(s, c) ==
  /\ IsHolder(s, c)
  /\ claim[c].status = "running" /\ claim[c].left > 0
  /\ sess' = RenewedSessions(Related[claim[c].session])
  /\ claim' = RenewedClaims(Related[claim[c].session])
  /\ UNCHANGED <<row, run, gone, pinned>>

\* Mutant: no test of the epoch.
MayReleaseAnyEpoch(s, c) == IsHolder(s, c)
\* release_claim: what it requires of the claim, whatever the new status.
MayRelease(s, c) == IsHolder(s, c) /\ Live(c)

ReleaseToQueue(s, c, st) ==
  LET w == claim[c].work IN
  /\ MayRelease(s, c)
  /\ claim' = [claim EXCEPT ![c] = WithEnd(claim[c], st)]
  /\ row' = [row EXCEPT ![w] = IF row[w].intent = "done" THEN row[w]
                               ELSE WithIntent(row[w], "queued")]
  /\ pinned' = pinned \ {w}
  /\ UNCHANGED <<sess, run, gone>>

\* The columns release_claim writes with a resume predicate: a new predicate
\* replaces the old one and withdraws its continuation_ready_at.
WithPredicate(r, p) ==
  IF p = "none" THEN r ELSE [r EXCEPT !.pred = p, !.ready = FALSE, !.met = FALSE]

Suspend(s, c, st, p) ==
  LET w == claim[c].work
      reason == IF st = "blocked" /\ row[w].reason = "none" THEN "other"
                ELSE row[w].reason IN
  /\ MayRelease(s, c)
  /\ st = "paused" => p # "none"
  /\ claim' = [claim EXCEPT ![c].status = st]
  /\ row' = [row EXCEPT ![w] =
               IF row[w].intent = "done" THEN row[w]
               ELSE [WithIntent(WithPredicate(row[w], p), st) EXCEPT !.reason = reason]]
  /\ pinned' = pinned \ {w}
  /\ UNCHANGED <<sess, run, gone>>

\* resume_parked_work: only the assigned lane, only an unheld paused row.
ResumeParked(s, w) ==
  /\ row[w].assignee = ActorOf[s]
  /\ row[w].intent = "paused"
  /\ HeldOn(w) = {}
  /\ row' = [row EXCEPT ![w] = [WithIntent(row[w], "queued") EXCEPT
                                 !.ready = @ \/ row[w].pred = "manual"]]
  /\ pinned' = pinned \ {w}
  /\ UNCHANGED <<sess, claim, run, gone>>

ClassifyBlocked(s, w, k) ==
  /\ sess[s].state # "none"
  /\ row[w].intent = "blocked"
  /\ row' = [row EXCEPT ![w].reason = k]
  /\ pinned' = pinned \ {w}
  /\ UNCHANGED <<sess, claim, run, gone>>

RecoverOrphanedBlock(s, w) ==
  /\ sess[s].state # "none"
  /\ row[w].intent = "blocked" /\ row[w].reason = "none"
  /\ \A c \in HeldOn(w) : ~Live(c)
  /\ ~LiveRunOn(w)
  /\ claim' = SweptClaims({w})
  /\ row' = [row EXCEPT ![w] = WithIntent(row[w], "queued")]
  /\ pinned' = pinned \ {w}
  /\ UNCHANGED <<sess, run, gone>>

\* post_existing_work_handoff: t is the target intent, l the receiving lane.
Handoff(s, w, l, t) ==
  LET live == {c \in HeldOn(w) : Live(c)} IN
  /\ row[w].intent \notin {"absent", "done"}
  /\ row[w].assignee = ActorOf[s] /\ l # ActorOf[s]
  /\ ~HasArtifact(w) /\ ~LiveRunOn(w)
  /\ \A c \in live : claim[c].session \in Related[s]
  /\ claim' = [c \in Claim |-> IF c \in live THEN WithEnd(claim[c], "released")
                               ELSE SweptClaims({w})[c]]
  /\ row' = [row EXCEPT ![w] = [WithIntent(row[w], t) EXCEPT !.assignee = l]]
  /\ pinned' = pinned \ {w}
  /\ UNCHANGED <<sess, run, gone>>

\* What a verdict of lane l writes into the row.
WithVerdict(r, v, l) ==
  CASE v = "PASS" -> [r EXCEPT !.verdict = "pass", !.reviewer = l, !.stale = FALSE,
                               !.reason = IF r.reason = "review" THEN "none" ELSE r.reason]
    [] v = "FLAG" -> [WithIntent(r, "queued") EXCEPT !.verdict = "negative",
                                                     !.reviewer = NoLane]
    [] v = "BLOCKED" -> [WithIntent(r, "blocked") EXCEPT !.verdict = "negative",
                                                         !.reviewer = NoLane]

\* post_audit_verdict: a PASS must come from a lane that is not the author's;
\* FLAG and BLOCKED write intent_state whatever it was.
PostVerdict(s, w, v) ==
  /\ row[w].intent # "absent"
  /\ v = "PASS" => row[w].author \notin {NoLane, ActorOf[s]}
  /\ row' = [row EXCEPT ![w] = WithVerdict(row[w], v, ActorOf[s])]
  /\ pinned' = pinned \ {w}
  /\ UNCHANGED <<sess, claim, run, gone>>

\* The review half of complete_claim's gate; the proof half (the artifact named
\* by done_signal exists and is custodied) is the caller's to satisfy.
ReviewSatisfied(w) ==
  row[w].verdict # "negative" /\ (w \in T0Work => row[w].verdict = "pass")

LocalRunOn(w) ==
  \E r \in Run : run[r].state = "live" /\ run[r].kind = "local" /\ run[r].work = w

\* Mutant: a claim whose epoch is over may still complete its row.
MayCompleteLate(s, c) ==
  IsHolder(s, c) /\ ~LocalRunOn(claim[c].work) /\ ReviewSatisfied(claim[c].work)
MayComplete(s, c) ==
  /\ IsHolder(s, c)
  /\ claim[c].status = "running" /\ claim[c].left > 0
  /\ ~LocalRunOn(claim[c].work)
  /\ ReviewSatisfied(claim[c].work)

\* _terminalize_child_agent_state_for_completed_claim_unlocked: the sessions the
\* holder h spawned end, and the fleets of h, of those sessions and of the row.
ChildrenOf(h) == {x \in Session : Parent[x] = h /\ sess[x].state = "active"}
TerminalizedSessions(h) ==
  [x \in Session |-> IF x \in ChildrenOf(h) THEN [sess[x] EXCEPT !.state = "ended"]
                     ELSE sess[x]]
TerminalizedRuns(h, w) ==
  [r \in Run |->
     IF run[r].state = "live" /\ run[r].kind = "fleet"
        /\ (run[r].work = w \/ run[r].session \in ChildrenOf(h) \/ RunBelongsTo(r, h))
     THEN [run[r] EXCEPT !.state = "over"] ELSE run[r]]

CompleteClaim(s, c) ==
  LET w == claim[c].work
      h == claim[c].session IN
  /\ MayComplete(s, c)
  /\ claim' = [claim EXCEPT ![c] = WithEnd(claim[c], "completed")]
  /\ row' = [row EXCEPT ![w] = WithIntent(row[w], "done")]
  /\ sess' = TerminalizedSessions(h)
  /\ run' = TerminalizedRuns(h, w)
  /\ pinned' = pinned \ {w}
  /\ UNCHANGED gone

-----------------------------------------------------------------------------
(* Runs.                                                                   *)

\* running_claim_binding: the one live running claim of a row, if any.
Binding(w) == {c \in HeldOn(w) : Live(c) /\ claim[c].status = "running"}

AppearRun(s, w, r, k) ==
  /\ run[r].state = "none"
  /\ row[w].intent # "absent"
  /\ \E c \in IF k = "local" /\ Binding(w) # {} THEN Binding(w) ELSE {NoClaim} :
       run' = [run EXCEPT ![r] = [state |-> "live", kind |-> k, work |-> w,
                                  session |-> s, claim |-> c, up |-> TRUE]]
  /\ UNCHANGED <<sess, claim, row, gone, pinned>>

FinalizeRun(r) ==
  /\ run[r].state = "live"
  /\ run' = [run EXCEPT ![r].state = "over"]
  /\ UNCHANGED <<sess, claim, row, gone, pinned>>

\* renew_claim_from_sidecar: the job's own process renews the claim it was
\* launched under, and only that claim, while it is live and running.
SidecarRenew(r) ==
  LET c == run[r].claim IN
  /\ run[r].state # "none" /\ run[r].kind = "local" /\ run[r].up
  /\ c # NoClaim
  /\ claim[c].status = "running" /\ claim[c].left > 0
  /\ claim' = [claim EXCEPT ![c].left = Lease]
  /\ UNCHANGED <<sess, row, run, gone, pinned>>

-----------------------------------------------------------------------------
(* The environment.                                                        *)

\* Leases count down to the last value a comparison can tell apart.
SessionFloor == -(Grace + PidlessGrace + 1)
CountDown(left, floor) == IF left > floor THEN left - 1 ELSE left

Tick ==
  /\ sess' = [s \in Session |-> IF sess[s].state = "none" THEN sess[s]
                 ELSE [sess[s] EXCEPT !.left = CountDown(@, SessionFloor)]]
  /\ claim' = [c \in Claim |-> IF Held(c) THEN [claim[c] EXCEPT !.left = CountDown(@, -1)]
                 ELSE claim[c]]
  /\ row' = [w \in Work |-> [row[w] EXCEPT !.stale = row[w].intent = "running"]]
  /\ UNCHANGED <<run, gone, pinned>>

\* The artifact or event a predicate waits for appears.  {"type": "manual"} is
\* no condition _predicate_true can find true.
PredicateMet(w) ==
  /\ row[w].pred \in {"mechanical", "authority"}
  /\ row' = [row EXCEPT ![w].met = TRUE]
  /\ UNCHANGED <<sess, claim, run, gone, pinned>>

\* A registered CLI process ends; its agent may go on with other processes.
ProcessExit(s) ==
  /\ sess[s].pid = "up"
  /\ sess' = [sess EXCEPT ![s].pid = "down"]
  /\ UNCHANGED <<claim, row, run, gone, pinned>>

\* An agent dies with its processes and never acts again.
Crash(s) ==
  /\ gone' = gone \cup {s}
  /\ sess' = [sess EXCEPT ![s].pid = IF @ = "up" THEN "down" ELSE @]
  /\ UNCHANGED <<claim, row, run, pinned>>

\* A job's process exits, or a pidless run outlives the probe's cutoff.
RunDies(r) ==
  /\ run[r].state # "none" /\ run[r].up
  /\ run' = [run EXCEPT ![r].up = FALSE]
  /\ UNCHANGED <<sess, claim, row, gone, pinned>>

-----------------------------------------------------------------------------
SessionVerb(s) ==
  \/ \E p \in Pids : RegisterSession(s, p)
  \/ RenewLease(s)
  \/ EndSession(s)

ClaimVerb(s) ==
  \/ \E w \in Work : ClaimReentrant(s, w)
  \/ \E w \in Work : ClaimResume(s, w)
  \/ \E w \in Work, c \in Claim : ClaimNew(s, w, c)
  \/ \E c \in Claim : HeartbeatClaim(s, c)
  \/ \E c \in Claim, st \in {"released", "unclaimed"} : ReleaseToQueue(s, c, st)
  \/ \E c \in Claim, st \in {"paused", "blocked"}, p \in Predicates \cup {"none"} :
       Suspend(s, c, st, p)
  \/ \E c \in Claim : CompleteClaim(s, c)

RowVerb(s) ==
  \/ \E w \in Work, a \in Lane \cup {Shared} : CreateWork(w, a)
  \/ \E w \in Work : ConflictSweep(w)
  \/ \E w \in Work : ResumeParked(s, w)
  \/ \E w \in Work, k \in Classes : ClassifyBlocked(s, w, k)
  \/ \E w \in Work : RecoverOrphanedBlock(s, w)
  \/ \E w \in Work, l \in Lane, t \in {"queued", "blocked"} : Handoff(s, w, l, t)
  \/ \E w \in Work, v \in Verdicts : PostVerdict(s, w, v)
  \/ \E w \in Work, r \in Run, k \in RunKinds : AppearRun(s, w, r, k)

RunStep ==
  \/ \E r \in Run : FinalizeRun(r)
  \/ \E r \in Run : SidecarRenew(r)
  \/ \E r \in Run : RunDies(r)

Environment ==
  \/ Tick
  \/ \E w \in Work : PredicateMet(w)
  \/ \E s \in Session : ProcessExit(s)
  \/ \E s \in Mortal : Crash(s)

LifeNext ==
  \/ \E s \in Session \ gone : SessionVerb(s) \/ ClaimVerb(s) \/ RowVerb(s)
  \/ RunStep
  \/ Environment
=============================================================================
