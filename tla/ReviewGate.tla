----------------------------- MODULE ReviewGate -----------------------------
(***************************************************************************)
(* The review of one work row: the events that ask for a review, answer   *)
(* it, re-open it or sign it off, and the gate of complete_claim that is   *)
(* computed from them (coord/coord_db.py, coord/review_integrity.py,       *)
(* coord/review_tier.py, coord/panel_quorum.py).                           *)
(*                                                                         *)
(* Nothing stores "reviewed": the gate is a function of the append-only    *)
(* event log and of four columns of the row.  An event id is a position in *)
(* the log.  A verb that compares an expected version is a call whose      *)
(* comparison succeeded; a stale call is refused and changes nothing.      *)
(***************************************************************************)
EXTENDS Integers, Sequences, FiniteSets

CONSTANTS
  ReviewSession,   \* agent sessions that work on the row or review it
  ReviewLane,      \* configured lanes
  LaneOfSession,   \* the lane of each session
  Rows,            \* the rows to start from: [tier, floor, quorum, assignee]
  Verdicts,        \* verdicts reviewers post
  MaxLog,          \* bound on the event log
  MaxEpoch         \* bound on the claims taken on the row

ASSUME ReviewAssumption ==
  /\ LaneOfSession \in [ReviewSession -> ReviewLane]
  /\ "none" \notin ReviewSession \cup ReviewLane
  /\ Rows \subseteq [tier : {"T0", "T1"}, floor : BOOLEAN, quorum : Nat,
                     assignee : ReviewLane]
  /\ \A r \in Rows : r.floor => r.tier = "T0"
  /\ Verdicts \subseteq {"PASS", "FLAG", "BLOCKED"}
  /\ MaxLog \in Nat /\ MaxEpoch \in Nat

VARIABLES
  log,      \* events of the row, in event_id order
  item,     \* work_items: the columns the gate and its verbs read or write
  holder,   \* the session of the running claim, or "none"
  author,   \* the lane of the latest claim, or "none"
  epochs    \* claims taken so far

reviewVars == <<log, item, holder, author, epochs>>

NegativeVerdict == {"FLAG", "BLOCKED"}
RequestKind == {"request", "flag_repair"}
EventKind == RequestKind \cup {"verdict", "remediation", "repair", "ok", "tier"}

\* Of the columns of an event the model keeps the ones that are read again.
\* by: the session of a verdict.  lane: its lane, and that of a remediation or
\* a tier correction.  ref: the negative verdict a remediation answers.
\* terms: what an operator_ok or a tier correction was given for.
Event == [kind : EventKind, by : ReviewSession \cup {"none"},
          lane : ReviewLane \cup {"none"},
          verdict : {"", "PASS"} \cup NegativeVerdict, ref : Nat,
          terms : [assignee : ReviewLane \cup {"none"}, tier : {"T0", "T1"}, accept : Nat]]

\* accept counts the versions of acceptance_json; floor: the T0 predicates of
\* review_tier match the row; ok, corr: operator_ok_event_id and
\* tier_correction_event_id, 0 when NULL; asked: the claim that last requested
\* its completion review.
Item == [tier : {"T0", "T1"}, floor : BOOLEAN, quorum : Nat, assignee : ReviewLane,
         intent : {"queued", "running", "blocked", "done"},
         rubric : {"", "PASS"} \cup NegativeVerdict, asked : Nat,
         accept : Nat, ok : Nat, corr : Nat]

\* The log and the row hold values of their tables.
ReviewTypeOK ==
  /\ log \in Seq(Event)
  /\ item \in Item
  /\ holder \in ReviewSession \cup {"none"}
  /\ author \in ReviewLane \cup {"none"}
  /\ epochs \in Nat

ReviewInit ==
  /\ log = << >>
  /\ \E r \in Rows :
       item = [tier |-> r.tier, floor |-> r.floor, quorum |-> r.quorum,
               assignee |-> r.assignee,
               intent |-> "queued", rubric |-> "", asked |-> 0,
               accept |-> 0, ok |-> 0, corr |-> 0]
  /\ holder = "none" /\ author = "none" /\ epochs = 0

-----------------------------------------------------------------------------
(* Reading the log.                                                        *)

Ids == 1..Len(log)
LaneBy(i) == log[i].lane
Largest(S) == CHOOSE i \in S \cup {0} : \A j \in S : j <= i
Smallest(S) == CHOOSE i \in S : \A j \in S : i <= j
LatestRequest == Largest({i \in Ids : log[i].kind \in RequestKind})
LatestRepair == Largest({i \in Ids : log[i].kind = "repair"})
VerdictIds == {i \in Ids : log[i].kind = "verdict"}

\* Mutant: only a request re-opens the review.
BarrierWithoutRepair == LatestRequest
\* The request or acceptance repair verdicts must come after.
Barrier == IF LatestRequest > LatestRepair THEN LatestRequest ELSE LatestRepair

Terms == [assignee |-> item.assignee, tier |-> item.tier, accept |-> item.accept]

\* A sign-off is valid while the row's authority fields are the ones signed.
OperatorOk == item.ok # 0 /\ log[item.ok].terms = Terms

\* _tier_correction_event_authorizes_unlocked for the bound event: a lane
\* other than the assignee of then and now lowered the tier to the present one.
CorrectionAuthorizes(i) ==
  /\ i # 0
  /\ log[i].terms.assignee = item.assignee
  /\ LaneBy(i) # item.assignee
  /\ log[i].terms.tier = "T1" /\ item.tier = "T1"
TierDownAuthorized == CorrectionAuthorizes(item.corr)
EffectiveTier == IF item.floor /\ ~TierDownAuthorized THEN "T0" ELSE item.tier

\* Verdicts after the barrier by a lane that does not own the latest claim.
Independent == {i \in VerdictIds : i > Barrier /\ LaneBy(i) # author}
\* classify_verdict_status: the first of them is the answer of the cycle.
OrderedVerdict == IF Independent = {} THEN "" ELSE log[Smallest(Independent)].verdict

FlagRepairCycle == LatestRequest # 0 /\ log[LatestRequest].kind = "flag_repair"

EffectiveRubric ==
  IF Barrier = 0 THEN item.rubric
  ELSE IF OrderedVerdict # "" THEN OrderedVerdict
  ELSE IF FlagRepairCycle \/ (Barrier = LatestRepair /\ item.rubric \in NegativeVerdict)
       THEN item.rubric ELSE ""

\* _qualifying_verdicts: the newest verdict of each session but the author's.
Assessments ==
  {i \in VerdictIds : /\ i > Barrier
                      /\ log[i].by # holder
                      /\ \A j \in VerdictIds : j > i => log[j].by # log[i].by}
\* classify_panel_status: unanimous, at quorum, with another lane among them.
\* A row nobody holds, or held by another lane, has no computable panel.
PanelPassed ==
  /\ holder # "none" /\ LaneOfSession[holder] = item.assignee
  /\ \A i \in Assessments : log[i].verdict = "PASS"
  /\ Cardinality(Assessments) >= item.quorum
  /\ \E i \in Assessments : LaneBy(i) # item.assignee
PanelUnmet == item.quorum # 0 /\ ~PanelPassed

NegativeReview == EffectiveRubric \in NegativeVerdict
NeedsReview ==
  \/ /\ EffectiveTier = "T0" \/ FlagRepairCycle
     /\ EffectiveRubric # "PASS"
     /\ ~(Barrier = 0 /\ OperatorOk)
  \/ PanelUnmet

-----------------------------------------------------------------------------
(* Writing the log.                                                        *)

NoTerms == [assignee |-> "none", tier |-> "T0", accept |-> 0]
EventOf(k) == [kind |-> k, by |-> "none", lane |-> "none", verdict |-> "", ref |-> 0,
               terms |-> NoTerms]
Post(e) == Len(log) < MaxLog /\ log' = Append(log, e)

\* claim_work by the assigned lane, and release_claim.
TakeClaim(s) ==
  /\ epochs < MaxEpoch
  /\ holder = "none" /\ item.intent = "queued"
  /\ item.assignee = LaneOfSession[s]
  /\ holder' = s /\ author' = LaneOfSession[s] /\ epochs' = epochs + 1
  /\ item' = [item EXCEPT !.intent = "running"]
  /\ UNCHANGED log

DropClaim ==
  /\ holder # "none"
  /\ holder' = "none"
  /\ item' = [item EXCEPT !.intent = "queued"]
  /\ UNCHANGED <<log, author, epochs>>

\* A handoff moves the assignment and ends the caller's claim.
Reassign(s, l) ==
  /\ item.intent # "done"
  /\ item.assignee = LaneOfSession[s] /\ l # item.assignee
  /\ holder \in {"none", s}
  /\ item' = [item EXCEPT !.assignee = l, !.intent = "queued"]
  /\ holder' = "none"
  /\ UNCHANGED <<log, author, epochs>>

\* upsert_work may rewrite the acceptance contract; receipts stay as they are.
EditAcceptance ==
  /\ item.accept = 0 /\ item.intent # "done"
  /\ item' = [item EXCEPT !.accept = 1]
  /\ UNCHANGED <<log, holder, author, epochs>>

\* post_event(kind="audit_request").
PostAuditRequest ==
  /\ EffectiveTier = "T0"
  /\ Post(EventOf("request"))
  /\ UNCHANGED <<item, holder, author, epochs>>

\* request_completion_review_if_needed, first call for this claim: a replay
\* finds its event and writes nothing here.
RequestCompletionReview ==
  /\ holder # "none"
  /\ ~NegativeReview /\ NeedsReview
  /\ author = LaneOfSession[holder]
  /\ item.asked # epochs
  /\ item' = [item EXCEPT !.asked = epochs]
  /\ Post(EventOf("request"))
  /\ UNCHANGED <<holder, author, epochs>>

\* post_audit_verdict.  A PASS needs a known author of another lane and, while
\* a flag repair is unanswered, a reference the negative verdict did not have,
\* which a reviewer can always give.
PostAuditVerdict(s, v) ==
  /\ v = "PASS" => author # "none" /\ author # LaneOfSession[s]
  /\ Post([EventOf("verdict") EXCEPT !.verdict = v, !.by = s, !.lane = LaneOfSession[s]])
  /\ item' = IF v = "PASS"
             THEN [item EXCEPT !.rubric = v]
             ELSE [item EXCEPT !.rubric = v,
                               !.intent = IF v = "FLAG" THEN "queued" ELSE "blocked"]
  /\ UNCHANGED <<holder, author, epochs>>

\* An event of the author lane that names the negative verdict it remedies.
PostRemediation(l) ==
  LET n == Largest(VerdictIds) IN
  /\ n # 0 /\ log[n].verdict \in NegativeVerdict
  /\ Post([EventOf("remediation") EXCEPT !.ref = n, !.lane = l])
  /\ UNCHANGED <<item, holder, author, epochs>>

\* The evidence post_flag_repair_audit_request asks for: an event of the lane,
\* after the negative verdict and naming it.
Remedied(n, l) ==
  \E i \in Ids : /\ log[i].kind = "remediation" /\ log[i].ref = n /\ i > n
                  /\ LaneBy(i) = l

\* The row is the caller's, and its last verdict the negative one of another.
FlaggedFor(l, n) ==
  /\ EffectiveTier = "T1"
  /\ item.intent \in {"queued", "blocked"}
  /\ item.assignee = l /\ author = l
  /\ n # 0 /\ log[n].verdict \in NegativeVerdict /\ LaneBy(n) # l
  /\ item.rubric = log[n].verdict /\ NegativeReview

\* post_flag_repair_audit_request, first call: no request after the verdict.
PostFlagRepair(s) ==
  LET n == Largest(VerdictIds) IN
  /\ FlaggedFor(LaneOfSession[s], n)
  /\ Remedied(n, LaneOfSession[s])
  /\ LatestRequest < n
  /\ Post(EventOf("flag_repair"))
  /\ UNCHANGED <<item, holder, author, epochs>>

\* The replacement extends a contract that was cut short; a repaired contract
\* (version 2) is complete.
ContractCutShort == item.accept < 2

\* _repair_work_acceptance_contract_in_transaction: a longer contract voids a
\* PASS and a sign-off and keeps a negative verdict.
RepairAcceptance ==
  /\ ContractCutShort
  /\ Post(EventOf("repair"))
  /\ item' = [item EXCEPT !.accept = 2, !.ok = 0,
                          !.rubric = IF @ = "PASS" THEN "" ELSE @]
  /\ UNCHANGED <<holder, author, epochs>>

\* record_operator_sign_off: refused where it would do nothing.
MaySignOff == item.intent # "done" /\ ~OperatorOk /\ Barrier = 0
SignOff ==
  /\ MaySignOff
  /\ Post([EventOf("ok") EXCEPT !.terms = Terms])
  /\ item' = [item EXCEPT !.ok = Len(log) + 1]
  /\ UNCHANGED <<holder, author, epochs>>

\* The same request again after the binding was cleared: it binds again,
\* whatever happened to the row since.
SignOffReplay(i) ==
  /\ i \in Ids /\ log[i].kind = "ok"
  /\ item.ok = 0
  /\ item' = [item EXCEPT !.ok = i]
  /\ UNCHANGED <<log, holder, author, epochs>>

\* correct_work_tier: raising is free, lowering is for another lane than the
\* assignee.  The terms carry the new tier.
MayCorrectTier(l) ==
  /\ item.intent # "done"
  /\ item.tier = "T0" => item.assignee # l
CorrectTier(l) ==
  /\ MayCorrectTier(l)
  /\ Post([EventOf("tier") EXCEPT
             !.lane = l,
             !.terms = [NoTerms EXCEPT !.assignee = item.assignee,
                                       !.tier = IF item.tier = "T0" THEN "T1" ELSE "T0"]])
  /\ item' = [item EXCEPT !.tier = IF @ = "T0" THEN "T1" ELSE "T0",
                          !.corr = Len(log) + 1]
  /\ UNCHANGED <<holder, author, epochs>>

\* complete_claim, as far as review goes.
Complete(s) ==
  /\ holder = s
  /\ ~NegativeReview /\ ~NeedsReview
  /\ item' = [item EXCEPT !.intent = "done"]
  /\ holder' = "none"
  /\ UNCHANGED <<log, author, epochs>>

ReviewNext ==
  \/ \E s \in ReviewSession :
       \/ TakeClaim(s) \/ PostFlagRepair(s) \/ Complete(s)
       \/ \E l \in ReviewLane : Reassign(s, l)
       \/ \E v \in Verdicts : PostAuditVerdict(s, v)
  \/ \E l \in ReviewLane : PostRemediation(l) \/ CorrectTier(l)
  \/ \E i \in Ids : SignOffReplay(i)
  \/ DropClaim \/ EditAcceptance \/ PostAuditRequest \/ RequestCompletionReview
  \/ RepairAcceptance \/ SignOff

ReviewSpec == ReviewInit /\ [][ReviewNext]_reviewVars

-----------------------------------------------------------------------------
(* What the gate promises.                                                 *)

Finishes == item.intent # "done" /\ item'.intent = "done"
PassGiven == \E i \in VerdictIds : log[i].verdict = "PASS"
Reopens(i) == log[i].kind \in RequestKind \cup {"repair"}

\* After every request and repair, and by a lane other than the finishing one.
Behind(i) == \A b \in Ids : Reopens(b) => b < i
Answers(i) == i \in VerdictIds /\ Behind(i) /\ LaneBy(i) # LaneOfSession[holder]
PassBehind == \E p \in VerdictIds : log[p].verdict = "PASS" /\ Behind(p)

\* A T0 row whose review was asked for, or whose contract was repaired, is
\* finished only on a PASS given after the last such event: neither a change of
\* owner, a repair nor a late request lets an older PASS through.  It is a PASS
\* of another lane, which no objection of another lane preceded, unless the
\* request was a flag repair and no other lane has answered it.
ReviewedBehindBarrier ==
  [][(Finishes /\ EffectiveTier = "T0" /\ \E i \in Ids : Reopens(i)) =>
       /\ PassBehind
       /\ \/ \E p \in Ids :
               /\ Answers(p) /\ log[p].verdict = "PASS"
               /\ \A q \in Ids : Answers(q) /\ q < p => log[q].verdict = "PASS"
          \/ FlagRepairCycle /\ \A q \in Ids : ~Answers(q)]_reviewVars

\* A T0 row that never got a PASS is finished only on the operator's sign-off
\* of the assignee, tier and contract it has now, never on one that a handoff,
\* an edit, a repair or a review request has overtaken, replayed or not.
SignedAsIs ==
  \E i \in Ids : /\ log[i].kind = "ok" /\ log[i].terms = Terms
                 /\ \A b \in Ids : ~Reopens(b)
SignedOffAsIs ==
  [][(Finishes /\ EffectiveTier = "T0" /\ ~PassGiven) => SignedAsIs]_reviewVars

\* A row whose effects call for T0 review escapes it only through a correction
\* by a lane that does not own it, the last correction made, for its owner.
CorrectedByAnother ==
  \E i \in Ids : /\ log[i].kind = "tier" /\ log[i].terms.tier = "T1"
                 /\ LaneBy(i) # item.assignee
                 /\ log[i].terms.assignee = item.assignee
                 /\ \A j \in Ids : j > i => log[j].kind # "tier"
LoweredByAnother ==
  [][(Finishes /\ item.floor /\ ~PassGiven /\ ~\E i \in Ids : log[i].kind = "ok") =>
       CorrectedByAnother]_reviewVars

LastWord(s) == Largest({i \in VerdictIds : log[i].by = s})
\* A panel row is finished only when enough sessions other than the finishing
\* one, not all of its lane, gave their verdict after the last request or
\* repair, and the last word of each of them is PASS.
PanelAgrees ==
  [][(Finishes /\ item.quorum # 0) =>
       LET Spoke == {s \in ReviewSession \ {holder} :
                       LastWord(s) # 0 /\ \A b \in Ids : Reopens(b) => b < LastWord(s)} IN
       /\ Cardinality(Spoke) >= item.quorum
       /\ \E s \in Spoke : LaneOfSession[s] # LaneOfSession[holder]
       /\ \A s \in Spoke : log[LastWord(s)].verdict = "PASS"]_reviewVars

\* What finishing a row takes, whatever its tier and however its owner, its
\* contract and its reviews changed before: an independent PASS behind the last
\* barrier, a sign-off of its present terms, a correction by another lane, or
\* the panel it asks for (complete_claim, completion_review_state).
FinishedOnReview ==
  []ReviewTypeOK /\ ReviewedBehindBarrier /\ SignedOffAsIs /\ LoweredByAnother /\ PanelAgrees

\* README.md:573: "a lane's verdict on its own work never counts".  A T0 row
\* whose review was asked for is finished on the PASS of another lane.
OwnVerdictNeverCounts ==
  [][(Finishes /\ EffectiveTier = "T0" /\ \E i \in Ids : Reopens(i)) =>
       \E p \in Ids : Answers(p) /\ log[p].verdict = "PASS"]_reviewVars
=============================================================================
