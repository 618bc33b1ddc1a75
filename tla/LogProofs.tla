------------------------------ MODULE LogProofs ------------------------------
(***************************************************************************)
(* What is read off an append-only log, for every value of the constants:  *)
(* the review gate, the assignment heads, the mailbox, the rulings and what*)
(* closeouts offer of them.                                                *)
(***************************************************************************)
EXTENDS ReviewGate, HandoffHeads, Inbox, MemoryQueue, FiniteOrders, SequenceTheorems

-----------------------------------------------------------------------------
(* Places of a log.                                                        *)

LEMMA LargestIs ==
  ASSUME NEW n \in Nat, NEW S, S \subseteq 1 .. n
  PROVE  Largest(S) \in S \cup {0} /\ \A j \in S : j <= Largest(S)
<1>1. \E i \in S \cup {0} : \A j \in S \cup {0} : j <= i
  <2>1. S \cup {0} \subseteq 0 .. n /\ S \cup {0} # {}
    OBVIOUS
  <2> QED BY <2>1, GreatestNat, Zenon
<1>2. \E i \in S \cup {0} : \A j \in S : j <= i
  BY <1>1
<1> QED BY <1>2 DEF Largest

LEMMA SmallestIs ==
  ASSUME NEW S, S \subseteq Nat, S # {}
  PROVE  Smallest(S) \in S /\ \A j \in S : Smallest(S) <= j
BY LeastNat, Zenon DEF Smallest

\* A log only grows at its end.
LEMMA LogGrows ==
  ASSUME ReviewTypeOK, NEW e \in Event, log' = Append(log, e)
  PROVE  /\ log' \in Seq(Event)
         /\ Len(log) \in Nat /\ Len(log') = Len(log) + 1
         /\ Ids' = Ids \cup {Len(log) + 1} /\ Len(log) + 1 \notin Ids
         /\ log'[Len(log) + 1] = e
         /\ \A i \in Ids : log'[i] = log[i]
BY DEF ReviewTypeOK, Ids

-----------------------------------------------------------------------------
(* The review gate: its inductive invariant.                               *)

\* Who holds the row holds it for the lane of its latest claim, to which the
\* row is assigned.
HolderInv ==
  holder # "none" => author = LaneOfSession[holder] /\ item.assignee = LaneOfSession[holder]

\* A verdict is a session's, in the name of its lane.
VerdictInv ==
  \A i \in VerdictIds :
    /\ log[i].by \in ReviewSession /\ log[i].lane = LaneOfSession[log[i].by]
    /\ log[i].verdict \in {"PASS"} \cup NegativeVerdict

\* The row is bound to a sign-off, and to the last correction of its tier.
BindingInv ==
  /\ item.ok # 0 => item.ok \in Ids /\ log[item.ok].kind = "ok"
  /\ item.corr # 0 => item.corr \in Ids /\ log[item.corr].kind = "tier"
  /\ \A j \in Ids : j > item.corr => log[j].kind # "tier"

\* The last request for a review, when it is a flag repair.
LastFlagRepair(r) ==
  /\ r \in Ids /\ log[r].kind = "flag_repair"
  /\ \A b \in Ids : log[b].kind \in RequestKind => b <= r

\* A stored PASS was given; under a flag repair, given after it and after the
\* repairs of the contract, for the request was made against an objection.
RubricInv ==
  item.rubric = "PASS" => PassGiven /\ ((\E r \in Ids : LastFlagRepair(r)) => PassBehind)

ReviewInv == ReviewTypeOK /\ HolderInv /\ VerdictInv /\ BindingInv /\ RubricInv

LEMMA ReviewInitInv == ReviewInit => ReviewInv
<1> SUFFICES ASSUME ReviewInit PROVE ReviewInv
  OBVIOUS
<1>1. PICK r \in Rows :
        item = [tier |-> r.tier, floor |-> r.floor, quorum |-> r.quorum, assignee |-> r.assignee,
                intent |-> "queued", rubric |-> "", asked |-> 0,
                accept |-> 0, ok |-> 0, corr |-> 0]
  BY DEF ReviewInit
<1>2. r \in [tier : {"T0", "T1"}, floor : BOOLEAN, quorum : Nat, assignee : ReviewLane]
  BY ReviewAssumption DEF ReviewAssumption
<1>3. item \in Item
  <2>1. r.tier \in {"T0", "T1"} /\ r.floor \in BOOLEAN /\ r.quorum \in Nat /\ r.assignee \in ReviewLane
    BY <1>2
  <2> QED BY <1>1, <2>1 DEF Item
<1>4. log = << >> /\ log \in Seq(Event) /\ Ids = {}
  <2>1. log = << >>
    BY DEF ReviewInit
  <2>2. Len(log) = 0 /\ log \in Seq(Event)
    BY <2>1
  <2> QED BY <2>1, <2>2 DEF Ids
<1>5. ReviewTypeOK
  BY <1>3, <1>4 DEF ReviewInit, ReviewTypeOK
<1> QED
  BY <1>1, <1>4, <1>5
  DEF ReviewInit, ReviewInv, HolderInv, VerdictInv, VerdictIds, BindingInv, RubricInv

\* Verdicts stay where they are, and so do the events that re-open a review.
LEMMA GrownReads ==
  ASSUME ReviewTypeOK, NEW e \in Event, log' = Append(log, e)
  PROVE  /\ VerdictIds \subseteq VerdictIds'
         /\ PassGiven => PassGiven'
         /\ e.kind \notin RequestKind \cup {"repair"} => (PassBehind => PassBehind')
         /\ e.kind \notin RequestKind =>
              \A r \in Ids' : LastFlagRepair(r)' => LastFlagRepair(r)
<1>1. VerdictIds \subseteq VerdictIds'
  BY LogGrows DEF VerdictIds
<1>2. PassGiven => PassGiven'
  BY <1>1, LogGrows DEF PassGiven, VerdictIds
<1>3. ASSUME e.kind \notin RequestKind \cup {"repair"}, PassBehind PROVE PassBehind'
  <2>1. PICK p \in VerdictIds : log[p].verdict = "PASS" /\ Behind(p)
    BY <1>3 DEF PassBehind
  <2>2. log'[p].verdict = "PASS" /\ p \in VerdictIds'
    BY <1>1, <2>1, LogGrows DEF VerdictIds
  <2>3. ASSUME NEW b \in Ids', Reopens(b)' PROVE b < p
    BY <1>3, <2>1, <2>3, LogGrows DEF Behind, Reopens
  <2> QED BY <2>2, <2>3 DEF PassBehind, Behind
<1>4. ASSUME e.kind \notin RequestKind, NEW r \in Ids', LastFlagRepair(r)'
      PROVE  LastFlagRepair(r)
  <2>1. r \in Ids /\ log[r].kind = "flag_repair"
    BY <1>4, LogGrows DEF LastFlagRepair, RequestKind
  <2>2. ASSUME NEW b \in Ids, log[b].kind \in RequestKind PROVE b <= r
    BY <1>4, <2>2, LogGrows DEF LastFlagRepair
  <2> QED BY <2>1, <2>2 DEF LastFlagRepair
<1> QED BY <1>1, <1>2, <1>3, <1>4

\* A step that posts nothing leaves all that is read off the log.
LEMMA Unposted ==
  ASSUME log' = log
  PROVE  /\ Ids' = Ids /\ VerdictIds' = VerdictIds
         /\ PassGiven' <=> PassGiven
         /\ PassBehind' <=> PassBehind
         /\ \A r \in Ids : LastFlagRepair(r)' <=> LastFlagRepair(r)
BY DEF Ids, VerdictIds, PassGiven, PassBehind, Behind, Reopens, LastFlagRepair

LEMMA VerdictsPosted ==
  ASSUME ReviewTypeOK, VerdictInv, NEW e \in Event, log' = Append(log, e),
         e.kind = "verdict" => /\ e.by \in ReviewSession /\ e.lane = LaneOfSession[e.by]
                               /\ e.verdict \in {"PASS"} \cup NegativeVerdict
  PROVE  VerdictInv'
<1> SUFFICES ASSUME NEW i \in VerdictIds'
             PROVE  /\ log'[i].by \in ReviewSession /\ log'[i].lane = LaneOfSession[log'[i].by]
                    /\ log'[i].verdict \in {"PASS"} \cup NegativeVerdict
  BY DEF VerdictInv
<1>1. CASE i \in Ids
  <2>1. log'[i] = log[i] /\ i \in VerdictIds
    BY <1>1, LogGrows DEF VerdictIds
  <2> QED BY <2>1 DEF VerdictInv
<1>2. CASE i = Len(log) + 1
  <2>1. log'[i] = e /\ e.kind = "verdict"
    BY <1>2, LogGrows DEF VerdictIds
  <2>2. e.by \in ReviewSession /\ e.lane = LaneOfSession[e.by] /\ e.verdict \in {"PASS"} \cup NegativeVerdict
    BY <2>1
  <2> QED BY <2>1, <2>2, Zenon
<1>3. i \in Ids \/ i = Len(log) + 1
  BY LogGrows DEF VerdictIds
<1> QED BY <1>1, <1>2, <1>3

\* An event that is no correction leaves the bindings of the row, if the row does.
LEMMA BindingsPosted ==
  ASSUME ReviewTypeOK, BindingInv, NEW e \in Event, log' = Append(log, e), e.kind # "tier",
         item'.corr = item.corr,
         item'.ok \in {0, item.ok} \/ (item'.ok = Len(log) + 1 /\ e.kind = "ok")
  PROVE  BindingInv'
<1>1. item'.ok # 0 => item'.ok \in Ids' /\ log'[item'.ok].kind = "ok"
  BY LogGrows DEF BindingInv
<1>2. item'.corr # 0 => item'.corr \in Ids' /\ log'[item'.corr].kind = "tier"
  BY LogGrows DEF BindingInv
<1>3. ASSUME NEW j \in Ids', j > item'.corr PROVE log'[j].kind # "tier"
  BY <1>3, LogGrows DEF BindingInv
<1> QED BY <1>1, <1>2, <1>3 DEF BindingInv

\* An event that re-opens nothing and a verdict that stays: the stored PASS
\* rests on what it rested on.
LEMMA RubricPosted ==
  ASSUME ReviewTypeOK, RubricInv, NEW e \in Event, log' = Append(log, e),
         e.kind \notin RequestKind \cup {"repair"}, item'.rubric = item.rubric
  PROVE  RubricInv'
<1> SUFFICES ASSUME item.rubric = "PASS" PROVE PassGiven' /\ ((\E r \in Ids' : LastFlagRepair(r)') => PassBehind')
  BY DEF RubricInv
<1>1. PassGiven'
  BY GrownReads DEF RubricInv
<1>2. ASSUME NEW r \in Ids', LastFlagRepair(r)' PROVE PassBehind'
  <2>1. LastFlagRepair(r) /\ r \in Ids
    BY <1>2, GrownReads DEF LastFlagRepair
  <2> QED BY <2>1, GrownReads DEF RubricInv
<1> QED BY <1>1, <1>2

-----------------------------------------------------------------------------
(* The review gate: its steps.                                             *)

LEMMA EventTypes ==
  /\ NoTerms \in [assignee : ReviewLane \cup {"none"}, tier : {"T0", "T1"}, accept : Nat]
  /\ \A k \in EventKind : EventOf(k) \in Event /\ EventOf(k).kind = k
BY DEF NoTerms, EventOf, Event, NegativeVerdict

\* Claims, handoffs and edits.
LEMMA RowStep ==
  ASSUME ReviewInv,
         \/ \E s \in ReviewSession : TakeClaim(s) \/ Complete(s) \/ \E l \in ReviewLane : Reassign(s, l)
         \/ DropClaim \/ EditAcceptance
  PROVE  ReviewInv'
<1>1. log' = log
  BY DEF TakeClaim, DropClaim, Reassign, EditAcceptance, Complete
<1>2. /\ item'.rubric = item.rubric /\ item'.ok = item.ok /\ item'.corr = item.corr
      /\ item' \in Item
  <2>1. item \in Item
    BY DEF ReviewInv, ReviewTypeOK
  <2>2. ASSUME NEW s \in ReviewSession, TakeClaim(s) \/ Complete(s)
        PROVE  /\ item'.rubric = item.rubric /\ item'.ok = item.ok /\ item'.corr = item.corr
               /\ item' \in Item
    BY <2>1, <2>2 DEF Item, TakeClaim, Complete
  <2>3. CASE DropClaim
    BY <2>1, <2>3 DEF Item, DropClaim
  <2>4. ASSUME NEW s \in ReviewSession, NEW l \in ReviewLane, Reassign(s, l)
        PROVE  /\ item'.rubric = item.rubric /\ item'.ok = item.ok /\ item'.corr = item.corr
               /\ item' \in Item
    BY <2>1, <2>4 DEF Item, Reassign
  <2>5. CASE EditAcceptance
    BY <2>1, <2>5 DEF Item, EditAcceptance
  <2> QED BY <2>2, <2>3, <2>4, <2>5
<1>3. ReviewTypeOK'
  <2>1. log' \in Seq(Event)
    BY <1>1 DEF ReviewInv, ReviewTypeOK
  <2>2. holder' \in ReviewSession \cup {"none"}
    BY DEF ReviewInv, ReviewTypeOK, TakeClaim, DropClaim, Reassign, EditAcceptance, Complete
  <2>3. author' = author \/ \E s \in ReviewSession : author' = LaneOfSession[s]
    BY DEF TakeClaim, DropClaim, Reassign, EditAcceptance, Complete
  <2>4. epochs' = epochs \/ epochs' = epochs + 1
    BY DEF TakeClaim, DropClaim, Reassign, EditAcceptance, Complete
  <2>5. author' \in ReviewLane \cup {"none"} /\ epochs' \in Nat
    BY <2>3, <2>4, ReviewAssumption DEF ReviewInv, ReviewTypeOK, ReviewAssumption
  <2> QED BY <1>2, <2>1, <2>2, <2>5 DEF ReviewTypeOK
<1>4. HolderInv'
  BY ReviewAssumption
  DEF ReviewInv, ReviewTypeOK, Item, HolderInv, TakeClaim, DropClaim, Reassign, EditAcceptance, Complete, ReviewAssumption
<1>5. VerdictInv'
  BY <1>1, Unposted DEF ReviewInv, VerdictInv
<1>6. BindingInv'
  BY <1>1, <1>2, Unposted DEF ReviewInv, BindingInv
<1>7. RubricInv'
  BY <1>1, <1>2, Unposted DEF ReviewInv, RubricInv
<1> QED BY <1>3, <1>4, <1>5, <1>6, <1>7 DEF ReviewInv

LEMMA ReplayStep ==
  ASSUME ReviewInv, NEW i \in Ids, SignOffReplay(i)
  PROVE  ReviewInv'
<1>1. /\ log' = log /\ item' = [item EXCEPT !.ok = i]
      /\ UNCHANGED <<holder, author, epochs>> /\ log[i].kind = "ok"
  BY DEF SignOffReplay
<1>2. i \in Nat
  BY DEF ReviewInv, ReviewTypeOK, Ids
<1>3. /\ item' \in Item /\ item'.ok = i
      /\ item'.rubric = item.rubric /\ item'.corr = item.corr /\ item'.assignee = item.assignee
  BY <1>1, <1>2 DEF ReviewInv, ReviewTypeOK, Item
<1>4. ReviewTypeOK' /\ HolderInv'
  BY <1>1, <1>3 DEF ReviewInv, ReviewTypeOK, HolderInv
<1>5. VerdictInv'
  BY <1>1, Unposted DEF ReviewInv, VerdictInv
<1>6. BindingInv'
  BY <1>1, <1>3, Unposted DEF ReviewInv, BindingInv
<1>7. RubricInv'
  BY <1>1, <1>3, Unposted DEF ReviewInv, RubricInv
<1> QED BY <1>4, <1>5, <1>6, <1>7 DEF ReviewInv

\* Requests, remediations, sign-offs and corrections of the tier: events that are
\* no verdict and no repair, and that leave the stored verdict as it is.
LEMMA PlainEvent ==
  ASSUME ReviewInv, NEW e \in Event, log' = Append(log, e), item' \in Item,
         UNCHANGED <<holder, author, epochs>>,
         e.kind \notin {"verdict", "repair", "flag_repair"} \/ (e.kind = "flag_repair" /\ item.rubric # "PASS"),
         item'.rubric = item.rubric, item'.assignee = item.assignee,
         BindingInv'
  PROVE  ReviewInv'
<1>1. ReviewTypeOK' /\ HolderInv'
  BY LogGrows DEF ReviewInv, ReviewTypeOK, HolderInv
<1>2. VerdictInv'
  BY VerdictsPosted DEF ReviewInv
<1>3. RubricInv'
  <2>1. CASE item.rubric # "PASS"
    BY <2>1 DEF RubricInv
  <2>2. CASE e.kind \notin RequestKind \cup {"repair"}
    BY <2>2, RubricPosted DEF ReviewInv
  <2>3. CASE e.kind = "request"
    <3>1. \A r \in Ids' : ~LastFlagRepair(r)'
      <4> SUFFICES ASSUME NEW r \in Ids', LastFlagRepair(r)' PROVE FALSE
        OBVIOUS
      <4>1. Len(log) + 1 \in Ids' /\ log'[Len(log) + 1].kind \in RequestKind
        BY <2>3, LogGrows DEF ReviewInv, RequestKind
      <4>2. Len(log) + 1 <= r /\ log'[r].kind = "flag_repair"
        BY <4>1 DEF LastFlagRepair
      <4>3. r = Len(log) + 1
        BY <4>2, LogGrows DEF ReviewInv, ReviewTypeOK, Ids
      <4> QED BY <2>3, <4>2, <4>3, LogGrows DEF ReviewInv
    <3>2. item.rubric = "PASS" => PassGiven'
      BY GrownReads DEF ReviewInv, RubricInv
    <3> QED BY <3>1, <3>2 DEF RubricInv
  <2> QED BY <2>1, <2>2, <2>3 DEF RequestKind
<1> QED BY <1>1, <1>2, <1>3 DEF ReviewInv

LEMMA RequestStep ==
  ASSUME ReviewInv, PostAuditRequest \/ RequestCompletionReview
  PROVE  ReviewInv'
<1>1. /\ EventOf("request") \in Event /\ EventOf("request").kind = "request"
      /\ log' = Append(log, EventOf("request"))
  BY EventTypes DEF EventKind, RequestKind, PostAuditRequest, RequestCompletionReview, Post
<1>2. item' = item \/ item' = [item EXCEPT !.asked = epochs]
  BY DEF PostAuditRequest, RequestCompletionReview
<1>3. /\ item' \in Item /\ item'.ok = item.ok /\ item'.corr = item.corr
      /\ item'.rubric = item.rubric /\ item'.assignee = item.assignee
  BY <1>2 DEF ReviewInv, ReviewTypeOK, Item
<1>4. BindingInv'
  BY <1>1, <1>3, BindingsPosted DEF ReviewInv
<1> QED BY <1>1, <1>3, <1>4, PlainEvent DEF PostAuditRequest, RequestCompletionReview

LEMMA LastVerdict ==
  ASSUME ReviewTypeOK
  PROVE  /\ Largest(VerdictIds) \in VerdictIds \cup {0} /\ Largest(VerdictIds) \in Nat
         /\ \A j \in VerdictIds : j <= Largest(VerdictIds)
<1>1. Len(log) \in Nat /\ VerdictIds \subseteq 1 .. Len(log)
  BY DEF ReviewTypeOK, VerdictIds, Ids
<1>2. Largest(VerdictIds) \in VerdictIds \cup {0} /\ \A j \in VerdictIds : j <= Largest(VerdictIds)
  BY <1>1, LargestIs, Zenon
<1>3. VerdictIds \cup {0} \subseteq Nat
  BY <1>1
<1> QED BY <1>2, <1>3

LEMMA RemediationStep ==
  ASSUME ReviewInv, NEW l \in ReviewLane, PostRemediation(l)
  PROVE  ReviewInv'
<1> DEFINE e == [EventOf("remediation") EXCEPT !.ref = Largest(VerdictIds), !.lane = l]
<1>1. EventOf("remediation") \in Event /\ EventOf("remediation").kind = "remediation"
  BY EventTypes DEF EventKind
<1>2. Largest(VerdictIds) \in Nat
  BY LastVerdict DEF ReviewInv
<1>3. e \in Event /\ e.kind = "remediation"
  BY <1>1, <1>2 DEF Event
<1>4. log' = Append(log, e) /\ UNCHANGED <<item, holder, author, epochs>>
  BY DEF PostRemediation, Post
<1> HIDE DEF e
<1>5. BindingInv'
  BY <1>3, <1>4, BindingsPosted DEF ReviewInv
<1>6. item' \in Item /\ e.kind \notin {"verdict", "repair", "flag_repair"}
  BY <1>3, <1>4 DEF ReviewInv, ReviewTypeOK
<1> QED BY <1>3, <1>4, <1>5, <1>6, PlainEvent

LEMMA FlagRepairStep ==
  ASSUME ReviewInv, NEW s \in ReviewSession, PostFlagRepair(s)
  PROVE  ReviewInv'
<1>1. EventOf("flag_repair") \in Event /\ EventOf("flag_repair").kind = "flag_repair"
  BY EventTypes DEF EventKind, RequestKind
<1>2. /\ log' = Append(log, EventOf("flag_repair"))
      /\ UNCHANGED <<item, holder, author, epochs>>
  BY DEF PostFlagRepair, Post
<1>3. item.rubric # "PASS"
  BY DEF PostFlagRepair, FlaggedFor, NegativeVerdict
<1>4. BindingInv'
  BY <1>1, <1>2, BindingsPosted DEF ReviewInv
<1>5. item' \in Item
  BY <1>2 DEF ReviewInv, ReviewTypeOK
<1> QED BY <1>1, <1>2, <1>3, <1>4, <1>5, PlainEvent

LEMMA SignOffStep ==
  ASSUME ReviewInv, SignOff
  PROVE  ReviewInv'
<1> DEFINE e == [EventOf("ok") EXCEPT !.terms = Terms]
<1>1. EventOf("ok") \in Event /\ EventOf("ok").kind = "ok"
  BY EventTypes DEF EventKind
<1>2. Terms \in [assignee : ReviewLane \cup {"none"}, tier : {"T0", "T1"}, accept : Nat]
  BY DEF ReviewInv, ReviewTypeOK, Item, Terms
<1>3. e \in Event /\ e.kind = "ok"
  BY <1>1, <1>2 DEF Event
<1>4. /\ log' = Append(log, e) /\ item' = [item EXCEPT !.ok = Len(log) + 1]
      /\ UNCHANGED <<holder, author, epochs>>
  BY DEF SignOff, Post
<1> HIDE DEF e
<1>5. /\ item' \in Item /\ item'.ok = Len(log) + 1 /\ item'.corr = item.corr
      /\ item'.rubric = item.rubric /\ item'.assignee = item.assignee
  <2>1. Len(log) + 1 \in Nat /\ item \in Item
    BY DEF ReviewInv, ReviewTypeOK
  <2> QED BY <1>4, <2>1 DEF Item
<1>6. BindingInv'
  BY <1>3, <1>4, <1>5, BindingsPosted DEF ReviewInv
<1>7. e.kind \notin {"verdict", "repair", "flag_repair"}
  BY <1>3
<1> QED BY <1>3, <1>4, <1>5, <1>6, <1>7, PlainEvent

LEMMA TierStep ==
  ASSUME ReviewInv, NEW l \in ReviewLane, CorrectTier(l)
  PROVE  ReviewInv'
<1> DEFINE t == IF item.tier = "T0" THEN "T1" ELSE "T0"
           terms == [NoTerms EXCEPT !.assignee = item.assignee, !.tier = t]
           e == [EventOf("tier") EXCEPT !.lane = l, !.terms = terms]
<1>1. EventOf("tier") \in Event /\ EventOf("tier").kind = "tier"
  BY EventTypes DEF EventKind
<1>2. terms \in [assignee : ReviewLane \cup {"none"}, tier : {"T0", "T1"}, accept : Nat]
  BY EventTypes DEF ReviewInv, ReviewTypeOK, Item
<1>3. /\ log' = Append(log, e) /\ item' = [item EXCEPT !.tier = t, !.corr = Len(log) + 1]
      /\ UNCHANGED <<holder, author, epochs>>
  BY DEF CorrectTier, Post
<1>4. t \in {"T0", "T1"}
  OBVIOUS
<1> HIDE DEF terms, t
<1>5. e \in Event /\ e.kind = "tier"
  BY <1>1, <1>2 DEF Event
<1> HIDE DEF e
<1>6. /\ item' \in Item /\ item'.ok = item.ok /\ item'.corr = Len(log) + 1
      /\ item'.rubric = item.rubric /\ item'.assignee = item.assignee
  <2>1. Len(log) + 1 \in Nat /\ item \in Item
    BY DEF ReviewInv, ReviewTypeOK
  <2> QED BY <1>3, <1>4, <2>1 DEF Item
<1>7. BindingInv'
  <2>1. item'.ok # 0 => item'.ok \in Ids' /\ log'[item'.ok].kind = "ok"
    BY <1>3, <1>5, <1>6, LogGrows DEF ReviewInv, BindingInv
  <2>2. item'.corr \in Ids' /\ log'[item'.corr].kind = "tier"
    BY <1>3, <1>5, <1>6, LogGrows DEF ReviewInv
  <2>3. ASSUME NEW j \in Ids' PROVE ~(j > item'.corr)
    BY <1>3, <1>5, <1>6, LogGrows DEF ReviewInv, ReviewTypeOK, Ids
  <2> QED BY <2>1, <2>2, <2>3 DEF BindingInv
<1>8. e.kind \notin {"verdict", "repair", "flag_repair"}
  BY <1>5
<1> QED BY <1>3, <1>5, <1>6, <1>7, <1>8, PlainEvent

\* A repair keeps no PASS.
LEMMA RepairStep ==
  ASSUME ReviewInv, RepairAcceptance
  PROVE  ReviewInv'
<1>1. /\ EventOf("repair") \in Event /\ EventOf("repair").kind = "repair"
      /\ log' = Append(log, EventOf("repair")) /\ UNCHANGED <<holder, author, epochs>>
  BY EventTypes DEF EventKind, RepairAcceptance, Post
<1>2. item' = [item EXCEPT !.accept = 2, !.ok = 0, !.rubric = IF @ = "PASS" THEN "" ELSE @]
  BY DEF RepairAcceptance
<1>3. /\ item' \in Item /\ item'.ok = 0 /\ item'.corr = item.corr
      /\ item'.rubric # "PASS" /\ item'.assignee = item.assignee
  BY <1>2 DEF ReviewInv, ReviewTypeOK, Item
<1>4. ReviewTypeOK' /\ HolderInv'
  BY <1>1, <1>3, LogGrows DEF ReviewInv, ReviewTypeOK, HolderInv
<1>5. VerdictInv'
  BY <1>1, VerdictsPosted DEF ReviewInv
<1>6. BindingInv'
  BY <1>1, <1>3, BindingsPosted DEF ReviewInv
<1>7. RubricInv'
  BY <1>3 DEF RubricInv
<1> QED BY <1>4, <1>5, <1>6, <1>7 DEF ReviewInv

\* A PASS comes after every event of the log.
LEMMA VerdictStep ==
  ASSUME ReviewInv, NEW s \in ReviewSession, NEW v \in Verdicts, PostAuditVerdict(s, v)
  PROVE  ReviewInv'
<1> DEFINE e == [EventOf("verdict") EXCEPT !.verdict = v, !.by = s, !.lane = LaneOfSession[s]]
<1>1. EventOf("verdict") \in Event /\ EventOf("verdict").kind = "verdict"
  BY EventTypes DEF EventKind
<1>2. v \in {"PASS"} \cup NegativeVerdict /\ LaneOfSession[s] \in ReviewLane
  BY ReviewAssumption DEF ReviewAssumption, NegativeVerdict
<1>3. e \in Event
  BY <1>1, <1>2 DEF Event
<1>4. e.kind = "verdict" /\ e.by = s /\ e.lane = LaneOfSession[s] /\ e.verdict = v
  BY <1>1 DEF Event
<1>5. log' = Append(log, e) /\ UNCHANGED <<holder, author, epochs>>
  BY DEF PostAuditVerdict, Post
<1>6. \/ item' = [item EXCEPT !.rubric = v]
      \/ item' = [item EXCEPT !.rubric = v, !.intent = "queued"]
      \/ item' = [item EXCEPT !.rubric = v, !.intent = "blocked"]
  BY DEF PostAuditVerdict
<1> HIDE DEF e
<1>7. /\ item' \in Item /\ item'.ok = item.ok /\ item'.corr = item.corr
      /\ item'.rubric = v /\ item'.assignee = item.assignee
  BY <1>2, <1>6 DEF ReviewInv, ReviewTypeOK, Item
<1>8. ReviewTypeOK' /\ HolderInv'
  BY <1>3, <1>5, <1>7, LogGrows DEF ReviewInv, ReviewTypeOK, HolderInv
<1>9. VerdictInv'
  BY <1>2, <1>3, <1>4, <1>5, VerdictsPosted DEF ReviewInv
<1>10. BindingInv'
  BY <1>3, <1>4, <1>5, <1>7, BindingsPosted DEF ReviewInv
<1>11. RubricInv'
  <2> SUFFICES ASSUME v = "PASS" PROVE PassGiven' /\ PassBehind'
    BY <1>7 DEF RubricInv
  <2>1. Len(log) + 1 \in VerdictIds' /\ log'[Len(log) + 1].verdict = "PASS"
    BY <1>3, <1>4, <1>5, LogGrows DEF ReviewInv, VerdictIds
  <2>2. ASSUME NEW b \in Ids', Reopens(b)' PROVE b < Len(log) + 1
    <3>1. b # Len(log) + 1
      BY <1>3, <1>4, <1>5, <2>2, LogGrows DEF ReviewInv, Reopens, RequestKind
    <3> QED BY <1>3, <1>5, <3>1, LogGrows DEF ReviewInv, ReviewTypeOK, Ids
  <2> QED BY <2>1, <2>2 DEF PassGiven, PassBehind, Behind
<1> QED BY <1>8, <1>9, <1>10, <1>11 DEF ReviewInv

LEMMA ReviewStep == ReviewInv /\ [ReviewNext]_reviewVars => ReviewInv'
<1> SUFFICES ASSUME ReviewInv, [ReviewNext]_reviewVars PROVE ReviewInv'
  OBVIOUS
<1>1. CASE UNCHANGED reviewVars
  <2>1. log' = log /\ UNCHANGED <<item, holder, author, epochs>>
    BY <1>1 DEF reviewVars
  <2> QED BY <2>1, Unposted DEF ReviewInv, ReviewTypeOK, HolderInv, VerdictInv, BindingInv, RubricInv
<1>2. ASSUME NEW s \in ReviewSession,
             \/ TakeClaim(s) \/ PostFlagRepair(s) \/ Complete(s)
             \/ \E l \in ReviewLane : Reassign(s, l)
             \/ \E v \in Verdicts : PostAuditVerdict(s, v)
      PROVE  ReviewInv'
  BY <1>2, RowStep, FlagRepairStep, VerdictStep, ReviewAssumption DEF ReviewAssumption
<1>3. ASSUME NEW l \in ReviewLane, PostRemediation(l) \/ CorrectTier(l) PROVE ReviewInv'
  BY <1>3, RemediationStep, TierStep
<1>4. ASSUME NEW i \in Ids, SignOffReplay(i) PROVE ReviewInv'
  BY <1>4, ReplayStep
<1>5. CASE RequestCompletionReview \/ PostAuditRequest \/ RepairAcceptance \/ SignOff
  BY <1>5, RequestStep, RepairStep, SignOffStep
<1>6. CASE DropClaim \/ EditAcceptance
  BY <1>6, RowStep
<1> QED BY <1>1, <1>2, <1>3, <1>4, <1>5, <1>6 DEF ReviewNext

-----------------------------------------------------------------------------
(* The review gate: the barrier.                                           *)

\* Only complete_claim finishes a row.
LEMMA Finishing ==
  ASSUME ReviewInv, [ReviewNext]_reviewVars, Finishes
  PROVE  \E s \in ReviewSession : Complete(s)
<1> USE DEF Finishes
<1>0. item \in Item
  BY DEF ReviewInv, ReviewTypeOK
<1>1. ~(item' = item)
  OBVIOUS
<1>2. ASSUME NEW s \in ReviewSession, TakeClaim(s) \/ PostFlagRepair(s) PROVE FALSE
  BY <1>0, <1>2 DEF TakeClaim, PostFlagRepair, Item
<1>3. ASSUME NEW s \in ReviewSession, NEW l \in ReviewLane, Reassign(s, l) PROVE FALSE
  BY <1>0, <1>3 DEF Reassign, Item
<1>4. ASSUME NEW s \in ReviewSession, NEW v \in Verdicts, PostAuditVerdict(s, v) PROVE FALSE
  BY <1>0, <1>4 DEF PostAuditVerdict, Item
<1>5. ASSUME NEW l \in ReviewLane, PostRemediation(l) \/ CorrectTier(l) PROVE FALSE
  BY <1>0, <1>5 DEF PostRemediation, CorrectTier, Item
<1>6. ASSUME NEW i \in Ids, SignOffReplay(i) PROVE FALSE
  BY <1>0, <1>6 DEF SignOffReplay, Item
<1>7. ASSUME \/ DropClaim \/ EditAcceptance \/ PostAuditRequest \/ RequestCompletionReview
             \/ RepairAcceptance \/ SignOff
      PROVE  FALSE
  BY <1>0, <1>7
  DEF DropClaim, EditAcceptance, PostAuditRequest, RequestCompletionReview, RepairAcceptance, SignOff, Item
<1> QED
  BY <1>1, <1>2, <1>3, <1>4, <1>5, <1>6, <1>7 DEF ReviewNext, reviewVars

\* The barrier is the last event that re-opens the review.
LEMMA BarrierIs ==
  ASSUME ReviewTypeOK
  PROVE  /\ Barrier \in Nat
         /\ Barrier # 0 => Barrier \in Ids /\ Reopens(Barrier)
         /\ \A b \in Ids : Reopens(b) => b <= Barrier
         /\ FlagRepairCycle => LastFlagRepair(LatestRequest) /\ LatestRequest \in Ids
<1> DEFINE Q == {i \in Ids : log[i].kind \in RequestKind}
           P == {i \in Ids : log[i].kind = "repair"}
<1>1. Len(log) \in Nat /\ Q \subseteq 1 .. Len(log) /\ P \subseteq 1 .. Len(log)
  BY DEF ReviewTypeOK, Ids
<1>2. LatestRequest \in Q \cup {0} /\ \A j \in Q : j <= LatestRequest
  BY <1>1, LargestIs, Zenon DEF LatestRequest
<1>3. LatestRepair \in P \cup {0} /\ \A j \in P : j <= LatestRepair
  BY <1>1, LargestIs, Zenon DEF LatestRepair
<1>4. LatestRequest \in Nat /\ LatestRepair \in Nat
  BY <1>1, <1>2, <1>3
<1>5. Barrier \in Nat /\ Barrier \in {LatestRequest, LatestRepair}
      /\ LatestRequest <= Barrier /\ LatestRepair <= Barrier
  BY <1>4 DEF Barrier
<1>6. Barrier # 0 => Barrier \in Ids /\ Reopens(Barrier)
  BY <1>2, <1>3, <1>5 DEF Reopens
<1>7. ASSUME NEW b \in Ids, Reopens(b) PROVE b <= Barrier
  <2>1. b \in Nat /\ (b <= LatestRequest \/ b <= LatestRepair)
    BY <1>1, <1>2, <1>3, <1>7 DEF Reopens, Ids
  <2> QED BY <1>4, <1>5, <2>1
<1>8. FlagRepairCycle => LastFlagRepair(LatestRequest) /\ LatestRequest \in Ids
  BY <1>2 DEF FlagRepairCycle, LastFlagRepair
<1> QED BY <1>5, <1>6, <1>7, <1>8

LEMMA BehindBarrier ==
  ASSUME ReviewTypeOK, NEW i \in Ids
  PROVE  Behind(i) <=> i > Barrier
<1>1. i \in Nat /\ i > 0 /\ Ids \subseteq Nat
  BY DEF ReviewTypeOK, Ids
<1>2. ASSUME Behind(i) PROVE i > Barrier
  BY <1>1, <1>2, BarrierIs DEF Behind
<1>3. ASSUME i > Barrier, NEW b \in Ids, Reopens(b) PROVE b < i
  BY <1>1, <1>3, BarrierIs
<1> QED BY <1>2, <1>3 DEF Behind

-----------------------------------------------------------------------------
(* The review gate: what the row is finished on.                           *)

\* What the gate has checked when complete_claim goes through.
LEMMA GateOpen ==
  ASSUME ReviewInv, NEW s \in ReviewSession, Complete(s)
  PROVE  /\ holder # "none" /\ holder \in ReviewSession
         /\ author = LaneOfSession[holder] /\ item.assignee = LaneOfSession[holder]
         /\ EffectiveTier = "T0" \/ FlagRepairCycle =>
              EffectiveRubric = "PASS" \/ (Barrier = 0 /\ OperatorOk)
         /\ item.quorum # 0 => PanelPassed
<1>1. holder = s /\ s # "none"
  BY ReviewAssumption DEF Complete, ReviewAssumption
<1>2. author = LaneOfSession[holder] /\ item.assignee = LaneOfSession[holder]
  BY <1>1 DEF ReviewInv, HolderInv
<1>3. ~NeedsReview
  BY DEF Complete
<1> QED BY <1>1, <1>2, <1>3 DEF NeedsReview, PanelUnmet

\* The answer of the cycle is the first verdict of another lane.
LEMMA FirstAnswer ==
  ASSUME ReviewInv, Independent # {}
  PROVE  /\ Smallest(Independent) \in Independent
         /\ \A j \in Independent : Smallest(Independent) <= j
         /\ OrderedVerdict = log[Smallest(Independent)].verdict /\ OrderedVerdict # ""
<1>1. Independent \subseteq VerdictIds /\ VerdictIds \subseteq Nat
  BY DEF Independent, VerdictIds, Ids, ReviewInv, ReviewTypeOK
<1>2. Smallest(Independent) \in Independent /\ \A j \in Independent : Smallest(Independent) <= j
  BY <1>1, SmallestIs, Zenon
<1>3. log[Smallest(Independent)].verdict # ""
  BY <1>1, <1>2 DEF ReviewInv, VerdictInv, NegativeVerdict
<1> QED BY <1>2, <1>3 DEF OrderedVerdict

\* A PASS the gate lets through was given by somebody.
LEMMA PassRead ==
  ASSUME ReviewInv, EffectiveRubric = "PASS"
  PROVE  PassGiven
<1>1. CASE Barrier # 0 /\ OrderedVerdict # ""
  <2>1. Independent # {} /\ OrderedVerdict = "PASS"
    BY <1>1 DEF OrderedVerdict, EffectiveRubric
  <2>2. Smallest(Independent) \in VerdictIds /\ log[Smallest(Independent)].verdict = "PASS"
    BY <2>1, FirstAnswer DEF Independent
  <2> QED BY <2>2 DEF PassGiven
<1>2. CASE Barrier = 0 \/ OrderedVerdict = ""
  <2>1. item.rubric = "PASS"
    BY <1>2 DEF EffectiveRubric
  <2> QED BY <2>1 DEF ReviewInv, RubricInv
<1> QED BY <1>1, <1>2

LEMMA BehindBarrierFinish ==
  ASSUME ReviewInv, NEW s \in ReviewSession, Complete(s),
         EffectiveTier = "T0", NEW b \in Ids, Reopens(b)
  PROVE  /\ PassBehind
         /\ \/ \E p \in Ids :
                 /\ Answers(p) /\ log[p].verdict = "PASS"
                 /\ \A q \in Ids : Answers(q) /\ q < p => log[q].verdict = "PASS"
            \/ FlagRepairCycle /\ \A q \in Ids : ~Answers(q)
<1>0. ReviewTypeOK /\ b > 0 /\ b \in Nat /\ Ids \subseteq Nat
  BY DEF ReviewInv, ReviewTypeOK, Ids
<1>1. Barrier # 0 /\ Barrier \in Nat
  BY <1>0, BarrierIs
<1>2. EffectiveRubric = "PASS"
  BY <1>1, GateOpen
<1>3. \A i \in Ids : Answers(i) <=> i \in Independent
  <2> SUFFICES ASSUME NEW i \in Ids PROVE Answers(i) <=> i \in Independent
    OBVIOUS
  <2>1. Behind(i) <=> i > Barrier
    BY <1>0, BehindBarrier
  <2>2. author = LaneOfSession[holder]
    BY GateOpen
  <2> QED BY <2>1, <2>2 DEF Answers, Independent, VerdictIds
<1>4. CASE Independent # {}
  <2> DEFINE p == Smallest(Independent)
  <2>1. p \in Independent /\ p \in VerdictIds /\ p \in Ids /\ \A q \in Independent : p <= q
    BY <1>4, FirstAnswer DEF Independent, VerdictIds
  <2>2. log[p].verdict = "PASS"
    BY <1>1, <1>2, <1>4, FirstAnswer DEF EffectiveRubric
  <2> HIDE DEF p
  <2>3. Answers(p) /\ Behind(p)
    BY <1>3, <2>1 DEF Answers
  <2>4. \A q \in Ids : Answers(q) => ~(q < p)
    BY <1>0, <1>3, <2>1
  <2> QED BY <2>1, <2>2, <2>3, <2>4, Zenon DEF PassBehind
<1>5. CASE Independent = {}
  <2>1. OrderedVerdict = ""
    BY <1>5 DEF OrderedVerdict
  <2>2. FlagRepairCycle /\ item.rubric = "PASS"
    BY <1>1, <1>2, <2>1 DEF EffectiveRubric, NegativeVerdict
  <2>3. PassBehind
    BY <1>0, <2>2, BarrierIs DEF ReviewInv, RubricInv
  <2> QED BY <1>3, <1>5, <2>2, <2>3
<1> QED BY <1>4, <1>5

LEMMA SignedFinish ==
  ASSUME ReviewInv, NEW s \in ReviewSession, Complete(s),
         EffectiveTier = "T0", ~PassGiven
  PROVE  SignedAsIs
<1>1. Barrier = 0 /\ OperatorOk
  BY GateOpen, PassRead
<1>2. item.ok \in Ids /\ log[item.ok].kind = "ok" /\ log[item.ok].terms = Terms
  BY <1>1 DEF OperatorOk, ReviewInv, BindingInv
<1>3. ASSUME NEW b \in Ids, Reopens(b) PROVE FALSE
  BY <1>1, <1>3, BarrierIs DEF ReviewInv, ReviewTypeOK, Ids
<1> QED BY <1>2, <1>3 DEF SignedAsIs

LEMMA LoweredFinish ==
  ASSUME ReviewInv, NEW s \in ReviewSession, Complete(s),
         item.floor, ~PassGiven, ~\E i \in Ids : log[i].kind = "ok"
  PROVE  CorrectedByAnother
<1>1. EffectiveTier # "T0"
  BY SignedFinish DEF SignedAsIs
<1>2. CorrectionAuthorizes(item.corr)
  BY <1>1 DEF EffectiveTier, TierDownAuthorized
<1>3. item.corr \in Ids /\ log[item.corr].kind = "tier"
  BY <1>2 DEF CorrectionAuthorizes, ReviewInv, BindingInv
<1> QED BY <1>2, <1>3 DEF CorrectedByAnother, CorrectionAuthorizes, ReviewInv, BindingInv

\* The newest verdict of a session.
LEMMA LastWordIs ==
  ASSUME ReviewTypeOK, NEW s
  PROVE  /\ LastWord(s) \in Nat
         /\ LastWord(s) # 0 => LastWord(s) \in VerdictIds /\ log[LastWord(s)].by = s
         /\ \A i \in VerdictIds : log[i].by = s => LastWord(s) # 0 /\ i <= LastWord(s)
<1> DEFINE V == {i \in VerdictIds : log[i].by = s}
<1>1. Len(log) \in Nat /\ V \subseteq 1 .. Len(log)
  BY DEF ReviewTypeOK, VerdictIds, Ids
<1>2. LastWord(s) \in V \cup {0} /\ \A i \in V : i <= LastWord(s)
  BY <1>1, LargestIs, Zenon DEF LastWord
<1>3. \A i \in V : i > 0 /\ i \in Nat
  BY <1>1
<1> QED BY <1>2, <1>3

\* The sessions the panel counts, at their newest verdicts.
LEMMA PanelFinish ==
  ASSUME ReviewInv, NEW s \in ReviewSession, Complete(s), item.quorum # 0
  PROVE  LET Spoke == {t \in ReviewSession \ {holder} :
                         LastWord(t) # 0 /\ \A b \in Ids : Reopens(b) => b < LastWord(t)} IN
         /\ Cardinality(Spoke) >= item.quorum
         /\ \E t \in Spoke : LaneOfSession[t] # LaneOfSession[holder]
         /\ \A t \in Spoke : log[LastWord(t)].verdict = "PASS"
<1> DEFINE Spoke == {t \in ReviewSession \ {holder} :
                       LastWord(t) # 0 /\ \A b \in Ids : Reopens(b) => b < LastWord(t)}
           f == [i \in Assessments |-> log[i].by]
<1>0. /\ ReviewTypeOK /\ PanelPassed /\ item.assignee = LaneOfSession[holder]
      /\ Len(log) \in Nat /\ Ids = 1 .. Len(log) /\ VerdictIds \subseteq Ids
  BY GateOpen DEF ReviewInv, ReviewTypeOK, Ids, VerdictIds
<1>1. ASSUME NEW i \in Assessments
      PROVE  /\ i \in VerdictIds /\ log[i].by \in Spoke /\ LastWord(log[i].by) = i
             /\ LaneBy(i) = LaneOfSession[log[i].by]
  <2>1. /\ i \in VerdictIds /\ i > Barrier /\ log[i].by # holder
        /\ \A j \in VerdictIds : j > i => log[j].by # log[i].by
    BY DEF Assessments
  <2>2. log[i].by \in ReviewSession /\ LaneBy(i) = LaneOfSession[log[i].by]
    BY <2>1 DEF ReviewInv, VerdictInv, LaneBy
  <2>3. /\ LastWord(log[i].by) \in VerdictIds /\ i <= LastWord(log[i].by)
        /\ log[LastWord(log[i].by)].by = log[i].by /\ LastWord(log[i].by) # 0
    BY <1>0, <2>1, LastWordIs
  <2>4. LastWord(log[i].by) = i
    <3>1. ~(LastWord(log[i].by) > i)
      BY <2>1, <2>3, Zenon
    <3>2. i \in Nat /\ LastWord(log[i].by) \in Nat
      <4>1. VerdictIds \subseteq Nat
        BY <1>0
      <4> QED BY <2>1, <2>3, <4>1, Zenon
    <3> QED BY <2>3, <3>1, <3>2
  <2>5. Behind(i)
    BY <1>0, <2>1, BehindBarrier
  <2> QED BY <2>1, <2>2, <2>3, <2>4, <2>5 DEF Behind
<1>2. ASSUME NEW t \in Spoke
      PROVE  LastWord(t) \in Assessments /\ log[LastWord(t)].by = t
  <2>1. LastWord(t) \in VerdictIds /\ log[LastWord(t)].by = t /\ t # holder
    BY <1>0, LastWordIs
  <2>2. LastWord(t) > Barrier
    <3>1. Behind(LastWord(t))
      BY DEF Behind
    <3> QED BY <1>0, <2>1, <3>1, BehindBarrier
  <2>3. ASSUME NEW j \in VerdictIds, j > LastWord(t) PROVE log[j].by # t
    <3>1. log[j].by = t => j <= LastWord(t)
      BY <1>0, LastWordIs
    <3>2. j \in Nat /\ LastWord(t) \in Nat
      <4>1. VerdictIds \subseteq Nat
        BY <1>0
      <4> QED BY <2>1, <4>1, Zenon
    <3>3. ~(j <= LastWord(t))
      BY <2>3, <3>2
    <3> QED BY <3>1, <3>3, Zenon
  <2> QED BY <2>1, <2>2, <2>3 DEF Assessments
<1> HIDE DEF Spoke
<1>3. f \in Bijection(Assessments, Spoke)
  <2>1. f \in Injection(Assessments, Spoke)
    <3>1. f \in [Assessments -> Spoke]
      BY <1>1
    <3>2. ASSUME NEW i \in Assessments, NEW j \in Assessments, f[i] = f[j] PROVE i = j
      <4>1. log[i].by = log[j].by
        BY <3>2
      <4> QED BY <1>1, <4>1
    <3> QED BY <3>1, <3>2 DEF Injection, IsInjective
  <2>2. f \in Surjection(Assessments, Spoke)
    <3>1. f \in [Assessments -> Spoke]
      BY <1>1
    <3>2. ASSUME NEW t \in Spoke PROVE \E i \in Assessments : f[i] = t
      BY <1>2
    <3> QED BY <3>1, <3>2 DEF Surjection
  <2> QED BY <2>1, <2>2 DEF Bijection
<1>4. IsFiniteSet(Assessments)
  <2>1. Assessments \subseteq 1 .. Len(log)
    BY <1>0, <1>1
  <2>2. 1 \in Int /\ Len(log) \in Int
    BY <1>0
  <2>3. IsFiniteSet(1 .. Len(log))
    BY <2>2, FS_Interval, Zenon
  <2> QED BY <2>1, <2>3, FS_Subset, Zenon
<1>5. Cardinality(Assessments) = Cardinality(Spoke)
  BY <1>3, <1>4, FS_Bijection, Zenon DEF ExistsBijection
<1>6. Cardinality(Spoke) >= item.quorum
  BY <1>0, <1>5 DEF PanelPassed
<1>7. \E t \in Spoke : LaneOfSession[t] # LaneOfSession[holder]
  BY <1>0, <1>1 DEF PanelPassed
<1>8. \A t \in Spoke : log[LastWord(t)].verdict = "PASS"
  BY <1>0, <1>2 DEF PanelPassed
<1> QED BY <1>6, <1>7, <1>8 DEF Spoke

\* FinishedOnReview for any number of sessions, lanes, rows and events: what
\* complete_claim reads off the log is what really happened to the row.
THEOREM FinishedOnReviewHolds == ReviewSpec => FinishedOnReview
<1>1. ReviewInit => ReviewInv
  BY ReviewInitInv
<1>2. ReviewInv /\ [ReviewNext]_reviewVars => ReviewInv'
  BY ReviewStep
<1>3. ReviewInv /\ [ReviewNext]_reviewVars =>
        [(Finishes /\ EffectiveTier = "T0" /\ \E i \in Ids : Reopens(i)) =>
           /\ PassBehind
           /\ \/ \E p \in Ids :
                   /\ Answers(p) /\ log[p].verdict = "PASS"
                   /\ \A q \in Ids : Answers(q) /\ q < p => log[q].verdict = "PASS"
              \/ FlagRepairCycle /\ \A q \in Ids : ~Answers(q)]_reviewVars
  BY Finishing, BehindBarrierFinish
<1>4. ReviewInv /\ [ReviewNext]_reviewVars =>
        [(Finishes /\ EffectiveTier = "T0" /\ ~PassGiven) =>
           SignedAsIs]_reviewVars
  BY Finishing, SignedFinish
<1>5. ReviewInv /\ [ReviewNext]_reviewVars =>
        [(Finishes /\ item.floor /\ ~PassGiven /\ ~\E i \in Ids : log[i].kind = "ok") =>
           CorrectedByAnother]_reviewVars
  BY Finishing, LoweredFinish
<1>6. ReviewInv /\ [ReviewNext]_reviewVars =>
        [(Finishes /\ item.quorum # 0) =>
           LET Spoke == {s \in ReviewSession \ {holder} :
                           LastWord(s) # 0 /\ \A b \in Ids : Reopens(b) => b < LastWord(s)} IN
           /\ Cardinality(Spoke) >= item.quorum
           /\ \E s \in Spoke : LaneOfSession[s] # LaneOfSession[holder]
           /\ \A s \in Spoke : log[LastWord(s)].verdict = "PASS"]_reviewVars
  BY Finishing, PanelFinish
<1>7. ReviewInv => ReviewTypeOK
  BY DEF ReviewInv
<1>8. ReviewSpec => []ReviewInv
  BY <1>1, <1>2, PTL DEF ReviewSpec
<1>9. ReviewSpec => []ReviewTypeOK
  BY <1>7, <1>8, PTL
<1>10. ReviewSpec => ReviewedBehindBarrier
  BY <1>3, <1>8, PTL DEF ReviewSpec, ReviewedBehindBarrier
<1>11. ReviewSpec => SignedOffAsIs
  BY <1>4, <1>8, PTL DEF ReviewSpec, SignedOffAsIs
<1>12. ReviewSpec => LoweredByAnother
  BY <1>5, <1>8, PTL DEF ReviewSpec, LoweredByAnother
<1>13. ReviewSpec => PanelAgrees
  BY <1>6, <1>8, PTL DEF ReviewSpec, PanelAgrees
<1> QED BY <1>9, <1>10, <1>11, <1>12, <1>13 DEF FinishedOnReview

-----------------------------------------------------------------------------
(* The mailbox.                                                            *)

Addressed(i, r) == mail[i].to \in Selectors(r) \cup {"all"}

\* The tables of the mailbox: messages in a sequence, requests and readers that
\* name what is in it.
MailSeq == mail \in Seq({mail[i] : i \in MailIds})
MailTypeOK ==
  /\ MailSeq /\ waiting \subseteq MailIds
  /\ cursor \in [Reader -> Nat]
  /\ page \in [Reader -> SUBSET Nat] /\ shown \in [Reader -> SUBSET Nat]
  /\ \A r \in Reader : page[r] \subseteq shown[r] /\ shown[r] \subseteq MailIds

\* A page that will be acknowledged leaves nothing out below its last event.
PageInv ==
  \A r \in Reader : r \notin skimmed =>
    \A j \in page[r] : \A i \in MailIds : i <= j /\ Addressed(i, r) => i \in shown[r]

MailInv == MailTypeOK /\ AckedMeansShown /\ PageInv

LEMMA FunctionIsSeq ==
  ASSUME NEW S, NEW n \in Nat, NEW g \in [1 .. n -> S]
  PROVE  g \in Seq(S) /\ Len(g) = n
OBVIOUS

LEMMA OwnElements ==
  ASSUME NEW S, NEW s \in Seq(S)
  PROVE  s \in Seq({s[i] : i \in 1 .. Len(s)})
<1> DEFINE U == {s[i] : i \in 1 .. Len(s)}
<1>1. s = [i \in 1 .. Len(s) |-> s[i]] /\ Len(s) \in Nat
  OBVIOUS
<1>2. s \in [1 .. Len(s) -> U]
  BY <1>1
<1> HIDE DEF U
<1>3. s \in Seq(U)
  BY <1>1, <1>2, FunctionIsSeq
<1> QED BY <1>3 DEF U

LEMMA Joined ==
  ASSUME NEW S, NEW T, NEW s \in Seq(S), NEW f \in Seq(T)
  PROVE  /\ s \o f \in Seq(S \cup T) /\ Len(s) \in Nat /\ Len(f) \in Nat
         /\ Len(s \o f) = Len(s) + Len(f)
         /\ \A i \in 1 .. Len(s) : (s \o f)[i] = s[i]
<1>1. s \in Seq(S \cup T) /\ f \in Seq(S \cup T)
  OBVIOUS
<1> QED BY <1>1

\* Messages keep their places.
LEMMA MailGrows ==
  ASSUME MailSeq, NEW T, NEW f \in Seq(T), mail' = mail \o f
  PROVE  /\ Len(mail) \in Nat /\ Len(mail') \in Nat /\ Len(mail) <= Len(mail')
         /\ MailIds \subseteq MailIds'
         /\ \A i \in MailIds : mail'[i] = mail[i]
         /\ MailSeq'
<1> DEFINE M == {mail[i] : i \in MailIds}
<1>1. mail \in Seq(M)
  BY DEF MailSeq
<1> HIDE DEF M
<1>2. /\ mail' \in Seq(M \cup T) /\ Len(mail) \in Nat /\ Len(f) \in Nat
      /\ Len(mail') = Len(mail) + Len(f)
      /\ \A i \in 1 .. Len(mail) : mail'[i] = mail[i]
  BY <1>1, Joined
<1>3. mail' \in Seq({mail'[i] : i \in 1 .. Len(mail')})
  <2> DEFINE X == M \cup T
  <2>1. mail' \in Seq(X)
    BY <1>2
  <2> HIDE DEF X
  <2>2. \A s \in Seq(X) : s \in Seq({s[i] : i \in 1 .. Len(s)})
    BY OwnElements
  <2> QED BY <2>1, <2>2, Zenon
<1>4. MailIds = 1 .. Len(mail) /\ MailIds' = 1 .. Len(mail')
  BY DEF MailIds
<1>5. MailSeq'
  BY <1>3, <1>4 DEF MailSeq
<1>6. MailIds \subseteq MailIds'
  BY <1>2, <1>4
<1> QED BY <1>2, <1>4, <1>5, <1>6

\* New messages are behind every cursor and every page.
LEMMA MailStep ==
  ASSUME MailInv, NEW T, NEW f \in Seq(T), mail' = mail \o f,
         waiting' \subseteq MailIds', UNCHANGED <<cursor, page, shown, skimmed>>
  PROVE  MailInv'
<1>0. /\ MailIds \subseteq MailIds' /\ MailSeq'
      /\ MailIds = 1 .. Len(mail) /\ Len(mail) \in Nat /\ MailIds' \subseteq Nat
      /\ \A i \in MailIds, r \in Reader : Addressed(i, r)' <=> Addressed(i, r)
  <2>1. MailSeq
    BY DEF MailInv, MailTypeOK
  <2>2. /\ MailIds \subseteq MailIds' /\ MailSeq'
        /\ Len(mail) \in Nat /\ \A i \in MailIds : mail'[i] = mail[i]
    BY <2>1, MailGrows
  <2> QED BY <2>2 DEF Addressed, Selectors, MailIds
<1>1. MailTypeOK'
  BY <1>0 DEF MailInv, MailTypeOK
<1>2. AckedMeansShown'
  <2> SUFFICES ASSUME NEW r \in Reader
               PROVE  /\ cursor[r] \in shown[r] \cup {0}
                      /\ r \notin skimmed =>
                           \A i \in 1 .. cursor[r] : Addressed(i, r)' => i \in shown[r]
    BY DEF AckedMeansShown, Addressed
  <2>1. cursor[r] \in Nat /\ cursor[r] \in shown[r] \cup {0} /\ shown[r] \subseteq 1 .. Len(mail)
    BY <1>0 DEF MailInv, MailTypeOK, AckedMeansShown
  <2>2. 1 .. cursor[r] \subseteq MailIds
    BY <1>0, <2>1
  <2> QED BY <1>0, <2>1, <2>2 DEF MailInv, AckedMeansShown, Addressed
<1>3. PageInv'
  <2> SUFFICES ASSUME NEW r \in Reader, r \notin skimmed, NEW j \in page[r],
                      NEW i \in MailIds', i <= j, Addressed(i, r)'
               PROVE  i \in shown[r]
    BY DEF PageInv
  <2>1. j \in 1 .. Len(mail)
    BY <1>0 DEF MailInv, MailTypeOK
  <2>2. i \in MailIds
    <3>1. i \in 1 .. Len(mail')
      BY DEF MailIds
    <3> QED BY <1>0, <2>1, <3>1
  <2> QED BY <1>0, <2>2 DEF MailInv, PageInv
<1> QED BY <1>1, <1>2, <1>3 DEF MailInv

\* A page in queue order has everything the reader has not seen up to its end.
LEMMA PageInOrder ==
  ASSUME MailTypeOK, NEW r \in Reader, NEW j \in PageOf(r, FALSE, FALSE),
         NEW i \in MailIds, i <= j, i > cursor[r], Addressed(i, r)
  PROVE  i \in PageOf(r, FALSE, FALSE)
<1> DEFINE ids == Unread(r, Selectors(r) \cup {"all"})
           before(k) == {l \in ids : l < k}
<1>1. PageOf(r, FALSE, FALSE) = {k \in ids : Cardinality(before(k)) < PageLimit}
  BY DEF PageOf
<1>2. i \in ids /\ ids \subseteq MailIds
  BY DEF Unread, Addressed
<1>3. MailIds = 1 .. Len(mail) /\ Len(mail) \in Nat /\ IsFiniteSet(MailIds)
  <2> DEFINE M == {mail[k] : k \in MailIds}
  <2>1. mail \in Seq(M)
    BY DEF MailTypeOK, MailSeq
  <2> HIDE DEF M
  <2>2. MailIds = 1 .. Len(mail) /\ Len(mail) \in Nat
    BY <2>1 DEF MailIds
  <2> QED BY <2>2, FS_Interval
<1>4. j \in ids /\ Cardinality(before(j)) < PageLimit
  BY <1>1
<1> HIDE DEF ids
<1>5. before(i) \subseteq before(j) /\ before(j) \subseteq MailIds
  <2>1. i \in Nat /\ j \in Nat /\ \A l \in ids : l \in Nat
    BY <1>2, <1>3, <1>4
  <2>2. \A l \in ids : l < i => l < j
    BY <2>1
  <2> QED BY <1>2, <2>2
<1>6. IsFiniteSet(before(j)) /\ IsFiniteSet(before(i))
  BY <1>3, <1>5, FS_Subset
<1>7. Cardinality(before(i)) <= Cardinality(before(j))
  BY <1>5, <1>6, FS_Subset
<1>8. Cardinality(before(i)) \in Nat /\ Cardinality(before(j)) \in Nat
  BY <1>6, FS_CardinalityType
<1>9. Cardinality(before(i)) < PageLimit
  BY <1>4, <1>7, <1>8, InboxAssumption DEF InboxAssumption
<1> QED BY <1>1, <1>2, <1>9

LEMMA ReadStep ==
  ASSUME MailInv, NEW r \in Reader, NEW newest \in BOOLEAN, NEW directed \in BOOLEAN,
         ReadInbox(r, newest, directed)
  PROVE  MailInv'
<1> DEFINE ids == PageOf(r, newest, directed)
<1>0. /\ mail' = mail /\ cursor' = cursor /\ MailIds' = MailIds
      /\ page' = [page EXCEPT ![r] = ids]
      /\ shown' = [shown EXCEPT ![r] = @ \cup ids]
      /\ skimmed' = (IF newest \/ directed THEN skimmed \cup {r} ELSE skimmed)
  BY DEF ReadInbox, MailIds
<1>1. ids \subseteq MailIds /\ MailIds \subseteq Nat
  BY DEF PageOf, Unread, MailIds
<1>2. (newest \/ directed) \/ ids = PageOf(r, FALSE, FALSE)
  OBVIOUS
<1> HIDE DEF ids
<1>3. /\ page'[r] = ids /\ shown'[r] = shown[r] \cup ids
      /\ \A q \in Reader \ {r} : page'[q] = page[q] /\ shown'[q] = shown[q]
      /\ \A q \in Reader : shown[q] \subseteq shown'[q]
  BY <1>0 DEF MailInv, MailTypeOK
<1>4. MailTypeOK'
  <2>1. MailSeq' /\ waiting' \subseteq MailIds' /\ cursor' \in [Reader -> Nat]
    BY <1>0 DEF MailInv, MailTypeOK, MailSeq, ReadInbox
  <2>2. page' \in [Reader -> SUBSET Nat] /\ shown' \in [Reader -> SUBSET Nat]
    BY <1>0, <1>1 DEF MailInv, MailTypeOK
  <2>3. \A q \in Reader : page'[q] \subseteq shown'[q] /\ shown'[q] \subseteq MailIds
    BY <1>1, <1>3 DEF MailInv, MailTypeOK
  <2> QED BY <1>0, <2>1, <2>2, <2>3 DEF MailTypeOK
<1>5. \A i, q : Addressed(i, q)' <=> Addressed(i, q)
  BY <1>0 DEF Addressed, Selectors
<1>6. AckedMeansShown'
  BY <1>0, <1>3, <1>5 DEF MailInv, AckedMeansShown, Addressed
<1>7. PageInv'
  <2> SUFFICES ASSUME NEW q \in Reader, q \notin skimmed', NEW j \in page'[q],
                      NEW i \in MailIds, i <= j, Addressed(i, q)
               PROVE  i \in shown'[q]
    BY <1>0, <1>5 DEF PageInv
  <2>1. CASE q # r
    BY <1>0, <1>3, <2>1 DEF MailInv, PageInv
  <2>2. CASE q = r
    <3>1. ids = PageOf(r, FALSE, FALSE) /\ r \notin skimmed /\ j \in ids
      BY <1>0, <1>2, <1>3, <2>2
    <3>2. CASE i > cursor[r]
      BY <1>3, <2>2, <3>1, <3>2, PageInOrder DEF MailInv
    <3>3. CASE i <= cursor[r]
      <4>1. i \in 1 .. cursor[r]
        BY <3>3 DEF MailIds, MailInv, MailTypeOK
      <4> QED BY <1>3, <2>2, <3>1, <4>1 DEF MailInv, AckedMeansShown, Addressed
    <3>4. i \in Nat /\ cursor[r] \in Nat
      BY <1>1 DEF MailInv, MailTypeOK
    <3> QED BY <3>2, <3>3, <3>4
  <2> QED BY <2>1, <2>2
<1> QED BY <1>4, <1>6, <1>7 DEF MailInv

LEMMA AckStep ==
  ASSUME MailInv, NEW r \in Reader, AdvanceCursor(r)
  PROVE  MailInv'
<1> DEFINE n == AckedThrough(r)
<1>0. /\ mail' = mail /\ shown' = shown /\ skimmed' = skimmed /\ MailIds' = MailIds
      /\ page' = [page EXCEPT ![r] = {}] /\ page[r] # {}
      /\ cursor' = [cursor EXCEPT ![r] = IF n > @ THEN n ELSE @]
  BY DEF AdvanceCursor, MailIds
<1>1. n \in page[r]
  <2>1. page[r] \subseteq 0 .. Len(mail) /\ Len(mail) \in Nat
    <3> DEFINE M == {mail[k] : k \in MailIds}
    <3>1. mail \in Seq(M) /\ page[r] \subseteq MailIds
      BY DEF MailInv, MailTypeOK, MailSeq
    <3> HIDE DEF M
    <3> QED BY <3>1 DEF MailIds
  <2>2. \E i \in page[r] : \A j \in page[r] : j <= i
    BY <1>0, <2>1, GreatestNat, Zenon
  <2> QED BY <2>2 DEF AckedThrough
<1> HIDE DEF n
<1>2. n \in Nat /\ n \in shown[r] /\ cursor \in [Reader -> Nat]
  BY <1>1 DEF MailInv, MailTypeOK
<1>3. /\ cursor'[r] \in {cursor[r], n} /\ cursor' \in [Reader -> Nat]
      /\ \A q \in Reader \ {r} : cursor'[q] = cursor[q]
  BY <1>0, <1>2
<1>4. page'[r] = {} /\ \A q \in Reader \ {r} : page'[q] = page[q]
  BY <1>0 DEF MailInv, MailTypeOK
<1>5. MailTypeOK'
  <2>1. MailSeq' /\ waiting' \subseteq MailIds'
    BY <1>0 DEF MailInv, MailTypeOK, MailSeq, AdvanceCursor
  <2> QED BY <1>0, <1>3, <1>4, <2>1 DEF MailInv, MailTypeOK
<1>6. \A i, q : Addressed(i, q)' <=> Addressed(i, q)
  BY <1>0 DEF Addressed, Selectors
<1>7. AckedMeansShown'
  <2> SUFFICES ASSUME NEW q \in Reader
               PROVE  /\ cursor'[q] \in shown[q] \cup {0}
                      /\ q \notin skimmed =>
                           \A i \in 1 .. cursor'[q] : Addressed(i, q) => i \in shown[q]
    BY <1>0, <1>6 DEF AckedMeansShown, Addressed
  <2>1. CASE cursor'[q] = cursor[q]
    BY <2>1 DEF MailInv, AckedMeansShown, Addressed
  <2>2. CASE q = r /\ cursor'[q] = n
    <3>1. ASSUME q \notin skimmed, NEW i \in 1 .. n, Addressed(i, r) PROVE i \in shown[r]
      <4>1. i \in MailIds /\ i <= n
        <5>1. n \in MailIds
          BY <1>1 DEF MailInv, MailTypeOK
        <5> QED BY <1>2, <5>1 DEF MailIds
      <4> QED BY <1>1, <2>2, <3>1, <4>1 DEF MailInv, PageInv
    <3> QED BY <1>2, <2>2, <3>1
  <2> QED BY <1>3, <2>1, <2>2
<1>8. PageInv'
  BY <1>0, <1>4, <1>6 DEF MailInv, PageInv
<1> QED BY <1>5, <1>7, <1>8 DEF MailInv

LEMMA NoAckStep ==
  ASSUME MailInv, NEW r \in Reader, NoAck(r)
  PROVE  MailInv'
<1>0. /\ mail' = mail /\ shown' = shown /\ skimmed' = skimmed /\ cursor' = cursor
      /\ MailIds' = MailIds /\ page' = [page EXCEPT ![r] = {}]
  BY DEF NoAck, MailIds
<1>1. \A q \in Reader : page'[q] \subseteq page[q]
  BY <1>0 DEF MailInv, MailTypeOK
<1>2. MailTypeOK'
  <2>1. MailSeq' /\ waiting' \subseteq MailIds'
    BY <1>0 DEF MailInv, MailTypeOK, MailSeq, NoAck
  <2> QED BY <1>0, <1>1, <2>1 DEF MailInv, MailTypeOK
<1>3. \A i, q : Addressed(i, q)' <=> Addressed(i, q)
  BY <1>0 DEF Addressed, Selectors
<1> QED BY <1>0, <1>1, <1>2, <1>3 DEF MailInv, AckedMeansShown, PageInv, Addressed

\* Every step that writes the log adds to its end.
LEMMA MailNextStep == MailInv /\ [InboxNext]_inboxVars => MailInv'
<1> SUFFICES ASSUME MailInv, [InboxNext]_inboxVars PROVE MailInv'
  OBVIOUS
<1>0. MailSeq /\ waiting \subseteq MailIds
  BY DEF MailInv, MailTypeOK
<1>1. ASSUME mail' = mail, UNCHANGED <<waiting, cursor, page, shown, skimmed>> PROVE MailInv'
  BY <1>1 DEF MailInv, MailTypeOK, MailSeq, MailIds, AckedMeansShown, PageInv, Addressed, Selectors
<1>2. ASSUME NEW e, mail' = Append(mail, e), UNCHANGED <<cursor, page, shown, skimmed>>,
             waiting' \subseteq waiting \cup {Len(mail) + 1}
      PROVE  MailInv'
  <2>1. /\ mail' = mail \o <<e>> /\ <<e>> \in Seq({e})
        /\ MailIds' = MailIds \cup {Len(mail) + 1}
    <3> DEFINE M == {mail[i] : i \in MailIds}
    <3>1. mail \in Seq(M \cup {e})
      BY <1>0 DEF MailSeq
    <3> HIDE DEF M
    <3> QED BY <1>2, <3>1 DEF MailIds
  <2>2. waiting' \subseteq MailIds'
    BY <1>0, <1>2, <2>1
  <2> QED BY <1>2, <2>1, <2>2, MailStep
<1>3. ASSUME NEW to, PostNoteTo(to) PROVE MailInv'
  BY <1>2, <1>3 DEF PostNoteTo
<1>4. ASSUME NEW l, NEW k, NEW to, PostMail(l, k, to) PROVE MailInv'
  BY <1>2, <1>4 DEF PostMail
<1>5. ASSUME NEW l, PostVerdictMail(l) PROVE MailInv'
  BY <1>2, <1>5 DEF PostVerdictMail
<1>6. ASSUME NEW s, SessionFlips(s) PROVE MailInv'
  BY <1>1, <1>6 DEF SessionFlips
<1>7. CASE MailTick
  BY <1>1, <1>7 DEF MailTick
<1>8. CASE EvaluateRequestSlas
  <2> DEFINE note == IF SelfDirected = {} THEN << >>
                     ELSE <<Message("reclassified", "system", "all", 0, 0)>>
             escalation(i) == Message("escalation", "system", mail[i].to, i, Multiple(i))
             n == Cardinality(DueEscalations)
             g == [k \in 1 .. n |-> escalation(Nth(DueEscalations, k))]
  <2>1. /\ mail' = (mail \o note) \o g /\ UNCHANGED <<cursor, page, shown, skimmed>>
    BY <1>8 DEF EvaluateRequestSlas
  <2> DEFINE R == Message("reclassified", "system", "all", 0, 0)
             T == {R} \cup {escalation(Nth(DueEscalations, k)) : k \in 1 .. n}
  <2>2. n \in Nat
    <3>1. DueEscalations \subseteq 1 .. Len(mail)
      BY <1>0 DEF DueEscalations, Overdue, MailIds
    <3>2. 1 \in Int /\ Len(mail) \in Int
      <4> DEFINE M == {mail[i] : i \in MailIds}
      <4>1. mail \in Seq(M)
        BY <1>0 DEF MailSeq
      <4> HIDE DEF M
      <4> QED BY <4>1
    <3> QED BY <3>1, <3>2, FS_Interval, FS_Subset, FS_CardinalityType
  <2>3. g \in [1 .. n -> T]
    OBVIOUS
  <2>4. note \in Seq(T) /\ R \in T
    <3>1. << >> \in Seq(T) /\ (R \in T => <<R>> \in Seq(T))
      <4> HIDE DEF R, T
      <4> QED OBVIOUS
    <3> QED BY <3>1
  <2> HIDE DEF g, T, note, n
  <2>5. g \in Seq(T)
    BY <2>2, <2>3, FunctionIsSeq
  <2>6. note \o g \in Seq(T)
    BY <2>4, <2>5
  <2>7. mail' = mail \o (note \o g)
    <3> DEFINE M == {mail[i] : i \in MailIds}
    <3>1. mail \in Seq(M)
      BY <1>0 DEF MailSeq
    <3> HIDE DEF M
    <3>2. mail \in Seq(M \cup T) /\ note \in Seq(M \cup T) /\ g \in Seq(M \cup T)
      <4>1. M \subseteq M \cup T /\ T \subseteq M \cup T
        OBVIOUS
      <4>2. \A X, Y : X \subseteq Y => \A s \in Seq(X) : s \in Seq(Y)
        BY SeqMonotonic
      <4>3. mail \in Seq(M \cup T)
        BY <3>1, <4>1, <4>2
      <4>4. note \in Seq(M \cup T)
        BY <2>4, <4>1, <4>2
      <4>5. g \in Seq(M \cup T)
        BY <2>5, <4>1, <4>2
      <4> QED BY <4>3, <4>4, <4>5
    <3> DEFINE X == M \cup T
    <3> HIDE DEF X
    <3>3. \A s, t, u \in Seq(X) : (s \o t) \o u = s \o (t \o u)
      BY ConcatAssociative, SMTT(30)
    <3>4. (mail \o note) \o g = mail \o (note \o g)
      <4>1. mail \in Seq(X) /\ note \in Seq(X) /\ g \in Seq(X)
        BY <3>2, Zenon DEF X
      <4> QED BY <3>3, <4>1, Zenon
    <3> QED BY <2>1, <3>4
  <2>8. waiting' \subseteq MailIds'
    <3>1. MailIds \subseteq MailIds'
      BY <1>0, <2>6, <2>7, MailGrows
    <3> QED BY <1>0, <1>8, <3>1 DEF EvaluateRequestSlas
  <2> QED BY <2>1, <2>6, <2>7, <2>8, MailStep
<1>9. CASE UNCHANGED inboxVars
  BY <1>1, <1>9 DEF inboxVars
<1> QED
  BY <1>3, <1>4, <1>5, <1>6, <1>7, <1>8, <1>9, ReadStep, AckStep, NoAckStep DEF InboxNext

LEMMA MailInit == InboxInit => MailInv
<1> SUFFICES ASSUME InboxInit PROVE MailInv
  OBVIOUS
<1>1. MailSeq /\ waiting \subseteq MailIds
  <2>1. CASE mail = << >> /\ waiting = {}
    BY <2>1 DEF MailSeq, MailIds
  <2>2. ASSUME NEW l, mail = <<l>>, waiting = {1} PROVE MailSeq /\ waiting \subseteq MailIds
    BY <2>2 DEF MailSeq, MailIds
  <2> QED BY <2>1, <2>2 DEF InboxInit
<1>2. \A r \in Reader : cursor[r] = 0 /\ page[r] = {} /\ shown[r] = {}
  BY DEF InboxInit
<1>3. /\ cursor \in [Reader -> Nat]
      /\ page \in [Reader -> SUBSET Nat] /\ shown \in [Reader -> SUBSET Nat]
  BY DEF InboxInit
<1> QED BY <1>1, <1>2, <1>3 DEF MailInv, MailTypeOK, AckedMeansShown, PageInv

\* AckedMeansShown for any number of readers, messages and page sizes.
THEOREM AckedMeansShownHolds == InboxSpec => []AckedMeansShown
<1>1. MailInv => AckedMeansShown
  BY DEF MailInv
<1> QED BY <1>1, MailInit, MailNextStep, PTL DEF InboxSpec

-----------------------------------------------------------------------------
(* Heads and open requests: the inductive invariant.                       *)

HeadKind ==
  {"note", "old_verdict", "request", "handoff", "typed", "reassign", "verdict", "moot",
   "retired", "rollback"}
HeadEvent ==
  [kind : HeadKind, by : HeadSession \cup {"operator", "system"},
   to : HeadLane \cup {"none"}, work : HeadWork]
Supersession ==
  [prior : Nat, by : Nat, author : HeadSession \cup {"operator", "system"},
   from : {"agent", "system", "post"}]

\* A supersession is about two events of one row, and only the canary's session
\* writes rollbacks.
HeadInv ==
  /\ hlog \in Seq(HeadEvent)
  /\ hsup \subseteq Supersession /\ unread \subseteq HeadIds
  /\ manifest = NoManifest \/ manifest.req \in HeadIds
  /\ \A x \in hsup : /\ x.prior \in HeadIds /\ x.by \in HeadIds
                     /\ hlog[x.prior].work = hlog[x.by].work
  /\ \A i \in HeadIds : hlog[i].kind = "rollback" => hlog[i].by = CanarySession

LEMMA HeadInitInv == HeadInit => HeadInv
<1> SUFFICES ASSUME HeadInit PROVE HeadInv
  OBVIOUS
<1>1. hlog = << >> /\ hlog \in Seq(HeadEvent) /\ HeadIds = {}
  <2>1. hlog = << >>
    BY DEF HeadInit
  <2>2. Len(hlog) = 0 /\ hlog \in Seq(HeadEvent)
    BY <2>1
  <2> QED BY <2>1, <2>2 DEF HeadIds
<1> QED BY <1>1 DEF HeadInit, HeadInv

\* The log of heads only grows at its end.
LEMMA HeadLogGrows ==
  ASSUME HeadInv, NEW e \in HeadEvent, hlog' = Append(hlog, e)
  PROVE  /\ hlog' \in Seq(HeadEvent)
         /\ Len(hlog') = NewId /\ NewId \in Nat
         /\ HeadIds' = HeadIds \cup {NewId} /\ NewId \notin HeadIds /\ HeadIds \subseteq Nat
         /\ hlog'[NewId] = e /\ hlog'[Len(hlog')] = e
         /\ \A i \in HeadIds : hlog'[i] = hlog[i] /\ i < NewId
BY DEF HeadInv, HeadIds, NewId

\* A step that adds an event and supersedes by it heads of its row keeps the
\* invariant, ends heads of that row only, and leaves what was superseded.
LEMMA HeadAppends ==
  ASSUME HeadInv, NEW e \in HeadEvent, hlog' = Append(hlog, e),
         NEW H \in SUBSET HeadIds, \A h \in H : hlog[h].work = e.work,
         NEW who \in {"agent", "system"},
         hsup' = hsup \cup Supersedes(H, e, who),
         e.kind = "rollback" => e.by = CanarySession,
         unread' \subseteq unread \cup {NewId},
         manifest' \in {manifest, NoManifest}
  PROVE  /\ HeadInv'
         /\ \A w \in HeadWork : \A h \in ActiveHeads(w) :
              h \notin ActiveHeads(w)' => h \in H /\ e.work = w
         /\ \A w : \A i \in HeadIds : i \in Superseded(w)' =>
              i \in Superseded(w) \/ (i \in H /\ hlog[i].work = w)
<1> DEFINE N == Supersedes(H, e, who)
<1>1. /\ hlog' \in Seq(HeadEvent) /\ NewId \in Nat
      /\ HeadIds' = HeadIds \cup {NewId} /\ NewId \notin HeadIds /\ HeadIds \subseteq Nat
      /\ hlog'[NewId] = e
      /\ \A i \in HeadIds : hlog'[i] = hlog[i] /\ i < NewId
  BY HeadLogGrows, Zenon
<1>2. \A x \in N : x.prior \in H /\ x.by = NewId /\ x.author = e.by /\ x.from = who
  BY DEF Supersedes
<1>3. N \subseteq Supersession
  <2>1. e.by \in HeadSession \cup {"operator", "system"}
    BY DEF HeadEvent
  <2> SUFFICES ASSUME NEW h \in H
               PROVE  [prior |-> h, by |-> NewId, author |-> e.by, from |-> who] \in Supersession
    BY DEF Supersedes
  <2>2. h \in Nat
    BY <1>1
  <2> QED BY <1>1, <2>1, <2>2 DEF Supersession
<1> HIDE DEF N
<1>4. hsup' = hsup \cup N
  BY DEF N
<1>5. HeadInv'
  <2>1. hsup' \subseteq Supersession
    BY <1>3, <1>4 DEF HeadInv
  <2>2. unread' \subseteq HeadIds'
    BY <1>1 DEF HeadInv
  <2>3. manifest' = NoManifest' \/ manifest'.req \in HeadIds'
    BY <1>1 DEF HeadInv, NoManifest
  <2>4. ASSUME NEW x \in hsup'
        PROVE  /\ x.prior \in HeadIds' /\ x.by \in HeadIds'
               /\ hlog'[x.prior].work = hlog'[x.by].work
    <3>1. CASE x \in hsup
      <4>1. x.prior \in HeadIds /\ x.by \in HeadIds /\ hlog[x.prior].work = hlog[x.by].work
        BY <3>1 DEF HeadInv
      <4> QED BY <1>1, <4>1
    <3>2. CASE x \in N
      <4>1. x.prior \in H /\ x.prior \in HeadIds /\ x.by = NewId
        BY <1>2, <3>2
      <4>2. hlog[x.prior].work = e.work
        BY <4>1
      <4> QED BY <1>1, <4>1, <4>2
    <3> QED BY <1>4, <3>1, <3>2
  <2>5. ASSUME NEW i \in HeadIds', hlog'[i].kind = "rollback" PROVE hlog'[i].by = CanarySession
    <3>1. CASE i \in HeadIds
      BY <1>1, <2>5, <3>1 DEF HeadInv
    <3>2. CASE i = NewId
      BY <1>1, <2>5, <3>2
    <3> QED BY <1>1, <3>1, <3>2
  <2> QED BY <1>1, <2>1, <2>2, <2>3, <2>4, <2>5 DEF HeadInv
<1>6. ASSUME NEW w, NEW h, h \in Superseded(w)', h \in HeadIds
      PROVE  h \in Superseded(w) \/ (h \in H /\ hlog[h].work = w)
  <2>1. PICK x \in hsup' : x.prior = h /\ hlog'[x.prior].work = w /\ Trusted(x)'
    BY <1>6 DEF Superseded
  <2>2. hlog[h].work = w
    BY <1>1, <1>6, <2>1
  <2>3. CASE x \in hsup
    <3>1. x.by \in HeadIds /\ hlog'[x.by] = hlog[x.by] /\ hlog'[x.prior] = hlog[x.prior]
      BY <1>1, <1>6, <2>1, <2>3 DEF HeadInv
    <3>2. Trusted(x)
      BY <2>1, <3>1
      DEF Trusted, HeadTrusted, OperatorTrusted, VerdictTrusted, MootTrusted, RetirementTrusted, RollbackTrusted
    <3> QED BY <2>1, <2>2, <2>3, <3>2 DEF Superseded
  <2>4. CASE x \in N
    BY <1>2, <2>1, <2>2, <2>4
  <2> QED BY <1>4, <2>3, <2>4
<1>7. ASSUME NEW w \in HeadWork, NEW h \in ActiveHeads(w), h \notin ActiveHeads(w)'
      PROVE  h \in H /\ e.work = w
  <2>1. h \in HeadIds /\ h \in Candidates(w) /\ h \notin Superseded(w) /\ hlog[h].work = w
    BY DEF ActiveHeads, Candidates
  <2>2. h \in Candidates(w)'
    BY <1>1, <2>1 DEF Candidates
  <2>3. h \in Superseded(w)'
    BY <1>7, <2>2 DEF ActiveHeads
  <2>4. h \in H
    BY <1>6, <2>1, <2>3
  <2> QED BY <2>1, <2>4
<1> QED BY <1>5, <1>6, <1>7

\* What a step may do to heads and to open requests.
HeadsEndForCause ==
  \A w \in HeadWork : \A h \in ActiveHeads(w) :
    (h \notin ActiveHeads(w)') =>
      \/ hlog' # hlog /\ hlog'[Len(hlog')].work = w
      \/ \E x \in hsup' \ hsup : x.prior = h /\ x.author = hlog[x.by].by /\ h < x.by
RequestsDropForCause ==
  \A r \in OpenRequests : r \notin OpenRequests' =>
    \/ hlog' = hlog /\ \E x \in hsup' \ hsup : hlog[x.prior].work = hlog[r].work
    \/ /\ hlog' # hlog
       /\ hlog'[Len(hlog')].work = hlog[r].work
       /\ hlog'[Len(hlog')].kind = "retired" =>
            \/ hrow[hlog[r].work].terminal
            \/ \E i \in HeadIds : i > r /\ hlog[i].work = hlog[r].work
                                  /\ hlog[i].kind \in {"note", "verdict", "old_verdict"}
HeadStepKeeps == HeadInv' /\ HeadsEndForCause /\ RequestsDropForCause

\* A retirement's cause, when it holds.
RetirementCause(r) ==
  \/ hrow[hlog[r].work].terminal
  \/ \E i \in HeadIds : i > r /\ hlog[i].work = hlog[r].work
                        /\ hlog[i].kind \in {"note", "verdict", "old_verdict"}

\* A request of an open list leaves it because it was read or superseded.
LEMMA OpenRequestEnds ==
  ASSUME NEW r \in OpenRequests, r \notin OpenRequests', hlog'[r] = hlog[r]
  PROVE  \E v : /\ v = hlog[r].work
                /\ \/ r \in unread \ unread'
                   \/ r \in Superseded(v)' /\ r \notin Superseded(v)
<1>1. PICK v : v = hlog[r].work
  OBVIOUS
<1>2. r \in unread /\ hlog[r].kind = "request" /\ r \notin Superseded(v)
  BY <1>1 DEF OpenRequests
<1>3. r \notin unread' \/ r \in Superseded(v)'
  <2> SUFFICES ASSUME r \in unread', r \notin Superseded(v)' PROVE r \in OpenRequests'
    OBVIOUS
  <2>1. hlog'[r].kind = "request" /\ hlog'[r].work = v
    BY <1>1, <1>2
  <2> QED BY <2>1 DEF OpenRequests
<1> QED BY <1>1, <1>2, <1>3

LEMMA HeadAppendKeeps ==
  ASSUME HeadInv, NEW e \in HeadEvent, hlog' = Append(hlog, e),
         NEW H \in SUBSET HeadIds, \A h \in H : hlog[h].work = e.work,
         NEW who \in {"agent", "system"},
         hsup' = hsup \cup Supersedes(H, e, who),
         e.kind = "rollback" => e.by = CanarySession,
         unread' \subseteq unread \cup {NewId},
         \A i \in unread \ unread' : hlog[i].work = e.work,
         e.kind = "retired" =>
           \A i \in H \cup (unread \ unread') : RetirementCause(i),
         manifest' \in {manifest, NoManifest}
  PROVE  HeadStepKeeps
<1>1. /\ hlog'[Len(hlog')] = e /\ hlog' # hlog /\ Len(hlog) \in Nat
      /\ \A i \in HeadIds : hlog'[i] = hlog[i]
  <2>1. /\ hlog'[Len(hlog')] = e /\ Len(hlog') = NewId /\ NewId = Len(hlog) + 1
        /\ NewId \in Nat /\ \A i \in HeadIds : hlog'[i] = hlog[i]
    BY HeadLogGrows, Zenon DEF NewId
  <2>2. Len(hlog) \in Nat
    BY DEF HeadInv
  <2>3. hlog' # hlog
    BY <2>1, <2>2
  <2> QED BY <2>1, <2>2, <2>3
<1>2. /\ HeadInv'
      /\ \A w \in HeadWork : \A h \in ActiveHeads(w) :
           h \notin ActiveHeads(w)' => h \in H /\ e.work = w
      /\ \A w : \A i \in HeadIds : i \in Superseded(w)' =>
           i \in Superseded(w) \/ (i \in H /\ hlog[i].work = w)
  BY HeadAppends, Zenon
<1>3. HeadsEndForCause
  BY <1>1, <1>2, Zenon DEF HeadsEndForCause
<1>4. ASSUME NEW r \in OpenRequests, r \notin OpenRequests'
      PROVE  /\ hlog'[Len(hlog')].work = hlog[r].work
             /\ hlog'[Len(hlog')].kind = "retired" => RetirementCause(r)
  <2>1. r \in HeadIds /\ hlog'[r] = hlog[r]
    BY <1>1 DEF OpenRequests, HeadInv
  <2>2. PICK v : /\ v = hlog[r].work
                 /\ \/ r \in unread \ unread'
                    \/ r \in Superseded(v)' /\ r \notin Superseded(v)
    BY <1>4, <2>1, OpenRequestEnds, Zenon
  <2>3. r \in H \cup (unread \ unread') /\ hlog[r].work = e.work
    BY <1>2, <2>1, <2>2
  <2> QED BY <1>1, <2>3
<1>5. RequestsDropForCause
  BY <1>1, <1>4, Zenon DEF RequestsDropForCause, RetirementCause
<1> QED BY <1>2, <1>3, <1>5 DEF HeadStepKeeps

LEMMA EventOnTypes ==
  ASSUME NEW k \in HeadKind, NEW s \in HeadSession \cup {"operator", "system"},
         NEW l \in HeadLane \cup {"none"}, NEW w \in HeadWork
  PROVE  /\ EventOn(k, s, l, w) \in HeadEvent
         /\ EventOn(k, s, l, w).kind = k /\ EventOn(k, s, l, w).work = w
         /\ EventOn(k, s, l, w).by = s
BY DEF EventOn, HeadEvent

LEMMA HeadsOfRow ==
  ASSUME NEW w
  PROVE  ActiveHeads(w) \subseteq {i \in HeadIds : hlog[i].work = w}
BY DEF ActiveHeads, Candidates

LEMMA NothingSuperseded ==
  ASSUME NEW e, NEW who
  PROVE  Supersedes({}, e, who) = {}
BY DEF Supersedes

LEMMA ConsumedOfRow ==
  ASSUME NEW s, NEW w
  PROVE  \A i \in Consumed(s, w) : hlog[i].work = w
BY DEF Consumed

LEMMA PostedEventsKeep ==
  ASSUME HeadInv, NEW s \in HeadSession, NEW w \in HeadWork,
         \/ \E k \in {"note", "old_verdict"} : PostNote(s, w, k)
         \/ \E l \in HeadLane :
              PostRequest(s, l, w) \/ PostPlainHandoff(s, l, w) \/ TypedHandoff(s, l, w)
         \/ \E n \in BOOLEAN : PostVerdict(s, w, n)
  PROVE  HeadStepKeeps
<1>1. ASSUME NEW k \in {"note", "old_verdict"}, PostNote(s, w, k) PROVE HeadStepKeeps
  <2> DEFINE e == EventOn(k, s, "none", w)
  <2>1. e \in HeadEvent /\ e.kind = k /\ e.work = w
    BY EventOnTypes DEF HeadKind
  <2>2. /\ hlog' = Append(hlog, e) /\ hsup' = hsup \cup Supersedes({}, e, "agent")
        /\ unread' \subseteq unread \cup {NewId} /\ manifest' = manifest
        /\ \A i \in unread \ unread' : hlog[i].work = w
    BY <1>1, NothingSuperseded, ConsumedOfRow DEF PostNote
  <2> HIDE DEF e
  <2> QED BY <2>1, <2>2, HeadAppendKeeps
<1>2. ASSUME NEW l \in HeadLane, PostRequest(s, l, w) PROVE HeadStepKeeps
  <2> DEFINE e == EventOn("request", s, l, w)
  <2>1. e \in HeadEvent /\ e.kind = "request" /\ e.work = w
    BY EventOnTypes DEF HeadKind
  <2>2. /\ hlog' = Append(hlog, e) /\ hsup' = hsup \cup Supersedes(ActiveHeads(w), e, "agent")
        /\ unread' \subseteq unread \cup {NewId} /\ manifest' = manifest
        /\ \A i \in unread \ unread' : hlog[i].work = w
    BY <1>2, ConsumedOfRow DEF PostRequest
  <2> HIDE DEF e
  <2> QED BY <2>1, <2>2, HeadsOfRow, HeadAppendKeeps
<1>3. ASSUME NEW l \in HeadLane, PostPlainHandoff(s, l, w) PROVE HeadStepKeeps
  <2> DEFINE e == EventOn("handoff", s, l, w)
  <2>1. e \in HeadEvent /\ e.kind = "handoff" /\ e.work = w
    BY EventOnTypes DEF HeadKind
  <2>2. /\ hlog' = Append(hlog, e) /\ hsup' = hsup \cup Supersedes({}, e, "agent")
        /\ unread' \subseteq unread \cup {NewId} /\ manifest' = manifest
        /\ \A i \in unread \ unread' : hlog[i].work = w
    BY <1>3, NothingSuperseded, ConsumedOfRow DEF PostPlainHandoff
  <2> HIDE DEF e
  <2> QED BY <2>1, <2>2, HeadAppendKeeps
<1>4. ASSUME NEW l \in HeadLane, TypedHandoff(s, l, w) PROVE HeadStepKeeps
  <2> DEFINE e == EventOn("typed", s, l, w)
  <2>1. e \in HeadEvent /\ e.kind = "typed" /\ e.work = w
    BY EventOnTypes DEF HeadKind
  <2>2. /\ hlog' = Append(hlog, e) /\ hsup' = hsup \cup Supersedes(ActiveHeads(w), e, "agent")
        /\ unread' = unread /\ manifest' = manifest
    BY <1>4 DEF TypedHandoff
  <2> HIDE DEF e
  <2> QED BY <2>1, <2>2, HeadsOfRow, HeadAppendKeeps
<1>5. ASSUME NEW n \in BOOLEAN, PostVerdict(s, w, n) PROVE HeadStepKeeps
  <2> DEFINE e == EventOn("verdict", s, "none", w)
             asked == {h \in ActiveHeads(w) : hlog[h].kind = "request"}
  <2>1. e \in HeadEvent /\ e.kind = "verdict" /\ e.work = w
    BY EventOnTypes DEF HeadKind
  <2>2. /\ hlog' = Append(hlog, e) /\ hsup' = hsup \cup Supersedes(asked, e, "agent")
        /\ unread' = unread /\ manifest' = manifest
    BY <1>5 DEF PostVerdict
  <2>3. asked \in SUBSET HeadIds /\ \A h \in asked : hlog[h].work = w
    BY HeadsOfRow
  <2> HIDE DEF e, asked
  <2> QED BY <2>1, <2>2, <2>3, HeadAppendKeeps
<1> QED BY <1>1, <1>2, <1>3, <1>4, <1>5, Zenon

\* A step that leaves the log and what is superseded drops nothing.
LEMMA HeadQuietKeeps ==
  ASSUME HeadInv, UNCHANGED <<hlog, hsup, unread>>,
         manifest' = manifest \/ manifest'.req \in HeadIds
  PROVE  HeadStepKeeps
<1>1. /\ HeadIds' = HeadIds /\ OpenRequests' = OpenRequests
      /\ \A w : ActiveHeads(w)' = ActiveHeads(w)
  BY DEF HeadIds, OpenRequests, ActiveHeads, Candidates, Superseded, Trusted, HeadTrusted,
         OperatorTrusted, VerdictTrusted, MootTrusted, RetirementTrusted, RollbackTrusted
<1>2. HeadInv'
  BY <1>1 DEF HeadInv, NoManifest
<1> QED BY <1>1, <1>2 DEF HeadStepKeeps, HeadsEndForCause, RequestsDropForCause

LEMMA PostSupersessionKeeps ==
  ASSUME HeadInv, NEW s \in HeadSession, NEW p \in HeadIds, NEW b \in HeadIds,
         PostSupersession(s, p, b)
  PROVE  HeadStepKeeps
<1> DEFINE w == hlog[p].work
           x == [prior |-> p, by |-> b, author |-> s, from |-> "post"]
<1>1. /\ x \notin hsup /\ hlog[b].work = w /\ p \in Candidates(w)
      /\ hsup' = hsup \cup {x} /\ unread' = unread \ Consumed(s, w)
      /\ UNCHANGED <<hlog, hrow, manifest>>
  BY DEF PostSupersession
<1>2. HeadIds' = HeadIds /\ HeadIds \subseteq Nat
  BY <1>1 DEF HeadIds, HeadInv
<1>3. x \in Supersession
  BY <1>2 DEF Supersession
<1>4. HeadInv'
  <2>1. hsup' \subseteq Supersession /\ unread' \subseteq HeadIds'
    BY <1>1, <1>2, <1>3 DEF HeadInv
  <2>2. ASSUME NEW y \in hsup'
        PROVE  /\ y.prior \in HeadIds' /\ y.by \in HeadIds'
               /\ hlog'[y.prior].work = hlog'[y.by].work
    BY <1>1, <1>2 DEF HeadInv
  <2> QED BY <1>1, <1>2, <2>1, <2>2 DEF HeadInv, NoManifest
<1>5. ASSUME NEW v, NEW h, h \in Superseded(v)', h \notin Superseded(v)
      PROVE  h = p /\ v = w /\ s = hlog[b].by /\ p < b
  <2>1. PICK y \in hsup' : y.prior = h /\ hlog[y.prior].work = v /\ Trusted(y)'
    BY <1>1, <1>5 DEF Superseded
  <2>2. Trusted(y)
    BY <1>1, <2>1
    DEF Trusted, HeadTrusted, OperatorTrusted, VerdictTrusted, MootTrusted, RetirementTrusted, RollbackTrusted
  <2>3. y = x
    BY <1>1, <1>5, <2>1, <2>2 DEF Superseded
  <2> QED BY <2>1, <2>2, <2>3 DEF Trusted
<1>6. HeadsEndForCause
  <2> SUFFICES ASSUME NEW v \in HeadWork, NEW h \in ActiveHeads(v), h \notin ActiveHeads(v)'
               PROVE  \E y \in hsup' \ hsup : y.prior = h /\ y.author = hlog[y.by].by /\ h < y.by
    BY DEF HeadsEndForCause
  <2>1. h \in Superseded(v)' /\ h \notin Superseded(v)
    BY <1>1 DEF ActiveHeads, Candidates, HeadIds
  <2>2. h = p /\ s = hlog[b].by /\ p < b
    BY <1>5, <2>1
  <2>3. x \in hsup' \ hsup /\ x.prior = p /\ x.by = b /\ x.author = s
    BY <1>1
  <2> QED BY <2>2, <2>3
<1>7. RequestsDropForCause
  <2> SUFFICES ASSUME NEW r \in OpenRequests, r \notin OpenRequests'
               PROVE  \E y \in hsup' \ hsup : hlog[y.prior].work = hlog[r].work
    BY <1>1 DEF RequestsDropForCause
  <2>1. PICK v : /\ v = hlog[r].work
                 /\ \/ r \in unread \ unread'
                    \/ r \in Superseded(v)' /\ r \notin Superseded(v)
    BY <1>1, OpenRequestEnds
  <2>2. hlog[r].work = w
    BY <1>1, <1>5, <2>1, ConsumedOfRow
  <2>3. x \in hsup' \ hsup /\ x.prior = p
    BY <1>1
  <2> QED BY <2>2, <2>3
<1> QED BY <1>4, <1>6, <1>7 DEF HeadStepKeeps

LEMMA OperatorsKeep ==
  ASSUME HeadInv, NEW w \in HeadWork, ClosePolicyMoot(w) \/ \E l \in HeadLane : OperatorReassignment(l, w)
  PROVE  HeadStepKeeps
<1>1. ASSUME NEW l \in HeadLane, OperatorReassignment(l, w) PROVE HeadStepKeeps
  <2> DEFINE e == EventOn("reassign", "operator", l, w)
  <2>1. e \in HeadEvent /\ e.kind = "reassign" /\ e.work = w
    <3>1. "reassign" \in HeadKind /\ "operator" \in HeadSession \cup {"operator", "system"}
      BY DEF HeadKind
    <3>2. l \in HeadLane \cup {"none"}
      OBVIOUS
    <3> QED BY <3>1, <3>2, EventOnTypes
  <2>2. /\ hlog' = Append(hlog, e) /\ hsup' = hsup \cup Supersedes(ActiveHeads(w), e, "system")
        /\ unread' = unread /\ manifest' = manifest
    BY <1>1 DEF OperatorReassignment
  <2> HIDE DEF e
  <2> QED BY <2>1, <2>2, HeadsOfRow, HeadAppendKeeps
<1>2. CASE ClosePolicyMoot(w)
  <2> DEFINE e == EventOn("moot", "system", "none", w)
             asked == {h \in ActiveHeads(w) : hlog[h].kind = "request"}
  <2>1. e \in HeadEvent /\ e.kind = "moot" /\ e.work = w
    <3>1. "moot" \in HeadKind /\ "system" \in HeadSession \cup {"operator", "system"}
      BY DEF HeadKind
    <3>2. "none" \in HeadLane \cup {"none"}
      OBVIOUS
    <3> QED BY <3>1, <3>2, EventOnTypes
  <2>2. /\ hlog' = Append(hlog, e) /\ hsup' = hsup \cup Supersedes(asked, e, "system")
        /\ unread' = unread \ asked /\ manifest' = manifest
    BY <1>2 DEF ClosePolicyMoot
  <2>3. asked \in SUBSET HeadIds /\ \A h \in asked : hlog[h].work = w
    BY HeadsOfRow
  <2> HIDE DEF e, asked
  <2>4. unread' \subseteq unread \cup {NewId} /\ \A i \in unread \ unread' : hlog[i].work = e.work
    BY <2>1, <2>2, <2>3
  <2> QED BY <2>1, <2>2, <2>3, <2>4, HeadAppendKeeps
<1> QED BY <1>1, <1>2

LEMMA CanaryRollbackKeeps ==
  ASSUME HeadInv, NEW w \in HeadWork, NEW h \in HeadIds, CanaryRollback(h, w)
  PROVE  HeadStepKeeps
<1> DEFINE e == EventOn("rollback", CanarySession, HeadLaneOf[CanarySession], w)
<1>1. e \in HeadEvent /\ e.kind = "rollback" /\ e.work = w /\ e.by = CanarySession
  <2>1. CanarySession \in HeadSession /\ HeadLaneOf[CanarySession] \in HeadLane
    BY HeadAssumption DEF HeadAssumption
  <2> QED BY <2>1, EventOnTypes DEF HeadKind
<1>2. /\ hlog' = Append(hlog, e) /\ hsup' = hsup \cup Supersedes({h}, e, "system")
      /\ unread' = unread /\ manifest' = manifest /\ ActiveHeads(w) = {h}
  BY DEF CanaryRollback, CanaryStands
<1> HIDE DEF e
<1>3. hlog[h].work = w
  BY <1>2, HeadsOfRow
<1> QED BY <1>1, <1>2, <1>3, HeadAppendKeeps

LEMMA RetireRequestKeeps ==
  ASSUME HeadInv, RetireRequest
  PROVE  HeadStepKeeps
<1> DEFINE r == manifest.req
           e == EventOn("retired", "system", hlog[r].to, hlog[r].work)
<1>1. /\ manifest # NoManifest /\ Retirable(r, manifest.reason)
      /\ hlog' = Append(hlog, e) /\ hsup' = hsup \cup Supersedes({r}, e, "system")
      /\ unread' = unread \ {r} /\ manifest' = NoManifest
  BY DEF RetireRequest, ManifestCurrent
<1>2. r \in HeadIds /\ hlog[r] \in HeadEvent
  BY <1>1 DEF HeadInv, HeadIds
<1>3. hlog[r].to \in HeadLane \cup {"none"} /\ hlog[r].work \in HeadWork
  BY <1>2 DEF HeadEvent
<1>4. e \in HeadEvent /\ e.kind = "retired" /\ e.work = hlog[r].work
  BY <1>3, EventOnTypes DEF HeadKind
<1>5. RetirementCause(r)
  BY <1>1 DEF Retirable, RetirementCause
<1> HIDE DEF e, r
<1> QED BY <1>1, <1>2, <1>4, <1>5, HeadAppendKeeps

LEMMA HeadNextKeeps ==
  ASSUME HeadInv, HeadNext
  PROVE  HeadStepKeeps
<1>1. ASSUME NEW s \in HeadSession, NEW w \in HeadWork,
             \/ \E k \in {"note", "old_verdict"} : PostNote(s, w, k)
             \/ \E l \in HeadLane \ {HeadLaneOf[s]} :
                  PostRequest(s, l, w) \/ PostPlainHandoff(s, l, w) \/ TypedHandoff(s, l, w)
             \/ \E n \in BOOLEAN : PostVerdict(s, w, n)
      PROVE  HeadStepKeeps
  BY <1>1, PostedEventsKeep, Zenon
<1>2. ASSUME NEW s \in HeadSession, NEW p \in HeadIds, NEW b \in HeadIds, PostSupersession(s, p, b)
      PROVE  HeadStepKeeps
  BY <1>2, PostSupersessionKeeps
<1>3. ASSUME NEW w \in HeadWork,
             ClosePolicyMoot(w) \/ FlipTerminal(w) \/ \E l \in HeadLane : OperatorReassignment(l, w)
      PROVE  HeadStepKeeps
  <2>1. CASE FlipTerminal(w)
    BY <2>1, HeadQuietKeeps DEF FlipTerminal
  <2> QED BY <1>3, <2>1, OperatorsKeep
<1>4. ASSUME NEW w \in HeadWork, NEW h \in HeadIds, CanaryRollback(h, w) PROVE HeadStepKeeps
  BY <1>4, CanaryRollbackKeeps
<1>5. ASSUME NEW r \in unread, NEW reason, BuildManifest(r, reason) PROVE HeadStepKeeps
  <2>1. manifest'.req \in HeadIds
    BY <1>5 DEF BuildManifest, ManifestOf, HeadInv
  <2> QED BY <1>5, <2>1, HeadQuietKeeps DEF BuildManifest
<1>6. CASE RetireRequest
  BY <1>6, RetireRequestKeeps
<1> QED BY <1>1, <1>2, <1>3, <1>4, <1>5, <1>6, Zenon DEF HeadNext

\* Whatever is trusted to end the newest head is an answer, a retirement or a
\* rollback: anything else would be a newer head.
LEMMA NewestHead ==
  ASSUME HeadInv, NEW w
  PROVE  NewestHeadStands(w)
<1> SUFFICES ASSUME NEW h \in Candidates(w), \A i \in Candidates(w) : i <= h, h \notin ActiveHeads(w)
             PROVE  \/ /\ hlog[h].kind = "request"
                       /\ \E i \in HeadIds : i > h /\ hlog[i].work = w
                                             /\ hlog[i].kind \in {"verdict", "moot", "retired"}
                    \/ /\ hlog[h].kind = "typed"
                       /\ \E i \in HeadIds : i > h /\ hlog[i].work = w
                                             /\ hlog[i].kind = "rollback" /\ hlog[i].by = hlog[h].by
  BY Zenon DEF NewestHeadStands
<1>1. PICK x \in hsup : x.prior = h /\ Trusted(x)
  BY DEF ActiveHeads, Superseded
<1> DEFINE b == x.by
<1>2. /\ b \in HeadIds /\ h \in HeadIds /\ hlog[b].work = w /\ b \in Nat /\ h \in Nat /\ h < b
  BY <1>1 DEF HeadInv, HeadIds, Candidates, Trusted
<1>3. b \notin Candidates(w)
  BY <1>2
<1>4. ~HeadTrusted(x) /\ ~OperatorTrusted(x)
  BY <1>2, <1>3 DEF Candidates, HeadTrusted, OperatorTrusted
<1>5. CASE VerdictTrusted(x) \/ MootTrusted(x) \/ RetirementTrusted(x)
  BY <1>1, <1>2, <1>5 DEF VerdictTrusted, MootTrusted, RetirementTrusted
<1>6. CASE RollbackTrusted(x)
  BY <1>1, <1>2, <1>6 DEF RollbackTrusted, HeadInv
<1> QED BY <1>1, <1>4, <1>5, <1>6 DEF Trusted

\* HeadsStand for any number of sessions, lanes, rows and events.
THEOREM HeadsStandHolds == HeadSpec => HeadsStand
<1>1. HeadInv => \A w \in HeadWork : NewestHeadStands(w)
  BY NewestHead
<1>2. HeadInv /\ [HeadNext]_headVars => HeadInv'
  BY HeadNextKeeps, HeadQuietKeeps DEF headVars, HeadStepKeeps, HeadInv
<1>3. HeadInv /\ [HeadNext]_headVars => [HeadsEndForCause]_headVars /\ [RequestsDropForCause]_headVars
  BY HeadNextKeeps DEF HeadStepKeeps
<1>4. HeadSpec => []HeadInv
  BY <1>2, HeadInitInv, PTL DEF HeadSpec
<1>5. HeadSpec => [][HeadsEndForCause]_headVars
  BY <1>3, <1>4, PTL DEF HeadSpec
<1>6. HeadSpec => [][RequestsDropForCause]_headVars
  BY <1>3, <1>4, PTL DEF HeadSpec
<1>7. HeadSpec => HeadEndsForCause
  BY <1>5 DEF HeadEndsForCause, HeadsEndForCause
<1>8. HeadSpec => RequestDroppedForCause
  BY <1>6 DEF RequestDroppedForCause, RequestsDropForCause
<1>9. HeadSpec => [](\A w \in HeadWork : NewestHeadStands(w))
  BY <1>1, <1>4, PTL
<1> QED BY <1>7, <1>8, <1>9 DEF HeadsStand

-----------------------------------------------------------------------------
(* Rulings.  What a walk sees is the least set that is closed under         *)
(* supersession; links point backwards, so the walk goes down.              *)

Ruling == [by : DecisionSession, sup : Nat, from : Nat, stale : SUBSET Fences, cand : BOOLEAN]
RulingsOK == rulings \in Seq(Ruling) /\ \A i \in RulingIds : rulings[i].sup \in 0 .. i - 1

\* What lies in a set closed under supersession.
LEMMA LineInClosed ==
  ASSUME NEW i, NEW S \in SUBSET RulingIds, SupersessionClosed(S), i \in S
  PROVE  LineOf(i) \subseteq S
  BY DEF LineOf

LEMMA LineClosed ==
  ASSUME RulingsOK, NEW i \in RulingIds
  PROVE  /\ i \in LineOf(i) /\ LineOf(i) \subseteq RulingIds
         /\ SupersessionClosed(LineOf(i))
<1>1. ASSUME NEW k \in LineOf(i), rulings[k].sup # 0 PROVE rulings[k].sup \in LineOf(i)
  <2>1. k \in RulingIds
    BY DEF LineOf
  <2>2. rulings[k].sup \in RulingIds
    BY <1>1, <2>1 DEF RulingsOK, RulingIds
  <2>3. ASSUME NEW S \in SUBSET RulingIds, SupersessionClosed(S), i \in S PROVE rulings[k].sup \in S
    BY <1>1, <2>3, LineInClosed DEF SupersessionClosed
  <2> QED BY <2>2, <2>3 DEF LineOf
<1> QED BY <1>1 DEF LineOf, SupersessionClosed

\* A walk only goes down.
LEMMA LineGoesDown ==
  ASSUME RulingsOK, NEW i \in RulingIds
  PROVE  \A k \in LineOf(i) : k <= i
<1> DEFINE S == {k \in RulingIds : k <= i}
<1>1. SupersessionClosed(S)
  <2> SUFFICES ASSUME NEW j \in S, rulings[j].sup # 0 PROVE rulings[j].sup \in S
    BY DEF SupersessionClosed
  <2> QED BY DEF RulingsOK, RulingIds
<1>2. i \in S
  BY DEF RulingIds
<1> HIDE DEF S
<1>3. S \in SUBSET RulingIds
  BY DEF S
<1>4. LineOf(i) \subseteq S
  BY <1>1, <1>2, <1>3, LineInClosed
<1> QED BY <1>4 DEF S

\* The walk from i is i and the walk from what it supersedes.
LEMMA LineSteps ==
  ASSUME RulingsOK, NEW i \in RulingIds, NEW k \in LineOf(i), k # i
  PROVE  rulings[i].sup \in RulingIds /\ k \in LineOf(rulings[i].sup)
<1> DEFINE s == rulings[i].sup
<1>1. CASE s \in RulingIds
  <2>1. SupersessionClosed(LineOf(s) \cup {i})
    BY <1>1, LineClosed DEF SupersessionClosed
  <2>2. LineOf(s) \cup {i} \in SUBSET RulingIds
    BY <1>1, LineClosed
  <2>3. LineOf(i) \subseteq LineOf(s) \cup {i}
    BY <2>1, <2>2, LineInClosed
  <2> QED BY <1>1, <2>3
<1>2. CASE s \notin RulingIds
  <2>1. s = 0
    BY <1>2 DEF RulingsOK, RulingIds
  <2>2. SupersessionClosed({i})
    BY <2>1 DEF SupersessionClosed
  <2>3. LineOf(i) \subseteq {i}
    BY <2>2, LineInClosed
  <2> QED BY <2>3
<1> QED BY <1>1, <1>2

\* What a ruling on the walk supersedes is on it too, and so is that one's walk.
LEMMA LineNests ==
  ASSUME RulingsOK, NEW i \in RulingIds, NEW k \in LineOf(i)
  PROVE  k \in RulingIds /\ LineOf(k) \subseteq LineOf(i)
<1>1. LineOf(i) \in SUBSET RulingIds /\ SupersessionClosed(LineOf(i))
  BY LineClosed
<1> QED BY <1>1, LineInClosed

\* What is on a walk, and not its start, was superseded by something on it.
LEMMA LineAbove ==
  ASSUME RulingsOK, NEW i \in RulingIds, NEW m \in LineOf(i), m # i
  PROVE  \E x \in LineOf(i) : rulings[x].sup = m
<1> SUFFICES ASSUME \A x \in LineOf(i) : rulings[x].sup # m PROVE FALSE
  OBVIOUS
<1> DEFINE S == LineOf(i) \ {m}
<1>1. S \in SUBSET RulingIds /\ i \in S
  BY LineClosed
<1>2. SupersessionClosed(S)
  BY LineClosed DEF SupersessionClosed
<1> HIDE DEF S
<1>3. LineOf(i) \subseteq S
  BY <1>1, <1>2, LineInClosed
<1> QED BY <1>3 DEF S

\* A walk passes by nothing: of two rulings on it the older is on the walk from
\* the newer.
LEMMA LineTotal ==
  ASSUME RulingsOK, NEW i \in RulingIds, NEW m \in LineOf(i), NEW k \in LineOf(i), k < m
  PROVE  k \in LineOf(m)
<1> DEFINE Up == {x \in LineOf(i) : m \in LineOf(x)}
           W == Up \cup LineOf(m)
<1>1. m \in RulingIds /\ k \in RulingIds /\ LineOf(i) \subseteq RulingIds /\ LineOf(m) \subseteq RulingIds
  BY LineNests, LineClosed
<1>2. W \in SUBSET RulingIds /\ i \in W
  BY <1>1, LineClosed
<1>3. ASSUME NEW x \in W, rulings[x].sup # 0 PROVE rulings[x].sup \in W
  <2>1. CASE x \in LineOf(m)
    BY <1>1, <1>3, <2>1, LineClosed DEF SupersessionClosed
  <2>2. CASE x \in Up /\ x # m
    <3>1. m \in LineOf(rulings[x].sup)
      BY <1>1, <2>2, LineSteps
    <3>2. rulings[x].sup \in LineOf(i)
      BY <1>3, <2>2, LineClosed DEF SupersessionClosed
    <3> QED BY <3>1, <3>2
  <2>3. CASE x = m
    BY <1>1, <1>3, <2>3, LineClosed DEF SupersessionClosed
  <2> QED BY <2>1, <2>2, <2>3
<1>4. SupersessionClosed(W)
  BY <1>3 DEF SupersessionClosed
<1> HIDE DEF W
<1>5. k \in W
  BY <1>2, <1>4, LineInClosed
<1>6. ~(m \in LineOf(k))
  <2>1. k \in Nat /\ m \in Nat
    BY <1>1 DEF RulingIds
  <2> QED BY <1>1, <2>1, LineGoesDown
<1> QED BY <1>5, <1>6 DEF W

\* Where nothing was superseded twice, one line leads to what nothing supersedes.
LEMMA LineOnly ==
  ASSUME RulingsOK, ~Forked, NEW i \in Terminals, NEW j \in RulingIds,
         NEW k, k \in LineOf(i), k \in LineOf(j)
  PROVE  j \in LineOf(i)
<1>1. i \in RulingIds /\ \A x \in RulingIds : rulings[x].sup # i
  BY DEF Terminals
<1>2. LineOf(i) \subseteq RulingIds /\ LineOf(j) \subseteq RulingIds
  BY <1>1, LineClosed
<1> DEFINE B == LineOf(i) \cap LineOf(j)
<1>3. Len(rulings) \in Nat /\ B \subseteq 0 .. Len(rulings) /\ B # {}
  BY <1>2 DEF RulingIds, RulingsOK
<1>4. PICK m \in B : \A x \in B : x <= m
  BY <1>3, GreatestNat, Zenon
<1> SUFFICES ASSUME m # j PROVE FALSE
  BY <1>4
<1>5. PICK x \in LineOf(j) : rulings[x].sup = m
  BY <1>4, LineAbove
<1>6. PICK y \in LineOf(i) : rulings[y].sup = m
  BY <1>1, <1>2, <1>4, <1>5, LineAbove
<1>7. m # 0
  BY <1>2, <1>4 DEF RulingIds
<1>8. x = y
  BY <1>2, <1>5, <1>6, <1>7 DEF Forked
<1>9. m < x /\ x \in B
  BY <1>2, <1>5, <1>6, <1>8 DEF RulingsOK, RulingIds
<1> QED BY <1>2, <1>4, <1>9 DEF RulingIds

Newest(i, held) == ValidAt(i, held) /\ \A j \in Above(i) : ~ValidAt(j, held)

\* What is in force is the newest of its line.
LEMMA InForceIsNewest ==
  ASSUME RulingsOK, ~Forked, NEW held, NEW i \in Resolvable, NEW k \in InForceOf(i, held)
  PROVE  k \in RulingIds /\ Newest(k, held)
<1>1. i \in Terminals /\ i \in RulingIds
  BY DEF Resolvable, Terminals
<1>2. k \in LineOf(i) /\ ValidAt(k, held) /\ \A m \in LineOf(i) : m > k => ~ValidAt(m, held)
  BY DEF InForceOf
<1>3. k \in RulingIds
  BY <1>1, <1>2, LineNests
<1>4. ASSUME NEW j \in Above(k) PROVE ~ValidAt(j, held)
  <2>1. j \in RulingIds /\ j # k /\ k \in LineOf(j)
    BY DEF Above
  <2>2. j \in LineOf(i)
    BY <1>1, <1>2, <2>1, LineOnly
  <2>3. j > k
    BY <1>3, <2>1, LineGoesDown DEF RulingIds
  <2> QED BY <1>2, <2>2, <2>3
<1> QED BY <1>2, <1>3, <1>4 DEF Newest

\* And the newest of a line is found from the line's end.
LEMMA NewestIsInForce ==
  ASSUME RulingsOK, ~Forked, Shallow, NEW held, NEW k \in RulingIds, Newest(k, held)
  PROVE  \E i \in Resolvable : k \in InForceOf(i, held)
<1> DEFINE Over == Above(k) \cup {k}
<1>1. Len(rulings) \in Nat /\ Over \subseteq 0 .. Len(rulings) /\ Over # {}
  BY DEF RulingIds, RulingsOK, Above
<1>2. PICK i \in Over : \A x \in Over : x <= i
  BY <1>1, GreatestNat, Zenon
<1>3. i \in RulingIds /\ k \in LineOf(i)
  BY <1>2, LineClosed DEF Above
<1>4. i \in Terminals
  <2> SUFFICES ASSUME NEW j \in RulingIds, rulings[j].sup = i PROVE FALSE
    BY <1>3 DEF Terminals
  <2>1. i \in LineOf(j) /\ j > i
    <3>1. j \in LineOf(j) /\ SupersessionClosed(LineOf(j)) /\ i # 0
      BY <1>3, LineClosed DEF RulingIds
    <3>2. i \in LineOf(j)
      BY <3>1 DEF SupersessionClosed
    <3> QED BY <3>2 DEF RulingsOK, RulingIds
  <2>2. k \in LineOf(j)
    BY <1>3, <2>1, LineNests
  <2>3. j # k
    BY <1>2, <1>3, <2>1 DEF RulingIds
  <2>4. j \in Over
    BY <2>2, <2>3 DEF Above
  <2> QED BY <1>2, <1>3, <2>1, <2>4 DEF RulingIds
<1>5. i \in Resolvable
  BY <1>3, <1>4 DEF Resolvable, Terminals, Forked, RulingIds
<1>6. Depth(i, k) <= WalkMax
  <2>1. IsFiniteSet(LineOf(i))
    <3>1. IsFiniteSet(RulingIds)
      BY <1>1, FS_Interval DEF RulingIds
    <3>2. LineOf(i) \subseteq RulingIds
      BY <1>3, LineClosed
    <3> QED BY <3>1, <3>2, FS_Subset
  <2>2. Depth(i, k) <= Cardinality(LineOf(i)) /\ Depth(i, k) \in Nat /\ Cardinality(LineOf(i)) \in Nat
    <3>1. {m \in LineOf(i) : m >= k} \subseteq LineOf(i)
      OBVIOUS
    <3> QED BY <2>1, <3>1, FS_Subset, FS_CardinalityType DEF Depth
  <2>3. Cardinality(LineOf(i)) <= WalkMax /\ WalkMax \in Nat
    BY <1>3, DecisionAssumption DEF Shallow, DecisionAssumption
  <2> QED BY <2>2, <2>3
<1>7. ASSUME NEW m \in LineOf(i), m > k PROVE ~ValidAt(m, held)
  <2>1. m \in RulingIds /\ k \in LineOf(m)
    BY <1>3, <1>7, LineTotal, LineNests DEF RulingIds
  <2>2. m # k
    BY <1>7, <2>1 DEF RulingIds
  <2> QED BY <2>1, <2>2 DEF Newest, Above
<1>8. ValidAt(k, held)
  BY DEF Newest
<1> QED BY <1>3, <1>5, <1>6, <1>7, <1>8 DEF InForceOf

LEMMA HeadsAreNewest ==
  ASSUME RulingsOK
  PROVE  HeadsAreNewestInForce
<1> SUFFICES ASSUME ~Forked, Shallow, NEW held \in SUBSET Fences
             PROVE  Heads(held) = {i \in RulingIds : Newest(i, held)}
  BY DEF HeadsAreNewestInForce, Newest
<1> QED BY InForceIsNewest, NewestIsInForce DEF Heads

\* A decision names one that exists, or none.
LEMMA RulingsKept ==
  ASSUME RulingsOK, [DecisionNext]_decisionVars
  PROVE  RulingsOK'
<1>1. CASE UNCHANGED rulings
  BY <1>1 DEF RulingsOK, RulingIds
<1>2. ASSUME NEW s \in DecisionSession, NEW sup \in 0 .. MaxRulings, NEW from \in 0 .. MaxDay,
             NEW stales \in {{}} \cup {{f} : f \in Fences}, NEW cand \in BOOLEAN,
             PostDecision(s, sup, from, stales, cand)
      PROVE  RulingsOK'
  <2> DEFINE r == [by |-> s, sup |-> sup, from |-> from, stale |-> stales, cand |-> cand]
  <2>1. r \in Ruling /\ r.sup = sup
    BY DEF Ruling
  <2>2. rulings' = Append(rulings, r) /\ sup \in RulingIds \cup {0}
    BY <1>2 DEF PostDecision
  <2> HIDE DEF r
  <2>3. rulings' \in Seq(Ruling) /\ Len(rulings') = Len(rulings) + 1 /\ Len(rulings) \in Nat
        /\ rulings'[Len(rulings) + 1] = r /\ \A i \in 1 .. Len(rulings) : rulings'[i] = rulings[i]
    BY <2>1, <2>2 DEF RulingsOK
  <2>4. ASSUME NEW i \in RulingIds' PROVE rulings'[i].sup \in 0 .. i - 1
    <3>1. CASE i \in 1 .. Len(rulings)
      BY <2>3, <3>1 DEF RulingsOK, RulingIds
    <3>2. CASE i = Len(rulings) + 1
      BY <2>1, <2>2, <2>3, <3>2 DEF RulingIds
    <3> QED BY <2>3, <3>1, <3>2 DEF RulingIds
  <2> QED BY <2>3, <2>4 DEF RulingsOK
<1> QED BY <1>1, <1>2 DEF DecisionNext, NextDay, decisionVars

\* For any log of rulings, any fences a reader holds and at any moment: where no
\* ruling was superseded twice and no walk is deeper than the bound, the rulings
\* in force are those that hold and that no ruling that holds supersedes,
\* directly or through others (_resolve_decision_heads_and_conflicts).
THEOREM HeadsAreNewestInForceHolds == DecisionSpec => []HeadsAreNewestInForce
<1>1. DecisionInit => RulingsOK
  BY DEF DecisionInit, RulingsOK, RulingIds
<1>2. RulingsOK /\ [DecisionNext]_decisionVars => RulingsOK'
  BY RulingsKept
<1>3. RulingsOK => HeadsAreNewestInForce
  BY HeadsAreNewest
<1> QED BY <1>1, <1>2, <1>3, PTL DEF DecisionSpec

-----------------------------------------------------------------------------
(* Memory proposals.  A candidate of a closeout is being offered, was        *)
(* offered, or is in a receipt that is pending; whoever resolves the receipt *)
(* has offered what is in it or found it superseded.                         *)

Offerings(s) == {i \in snap[s] : rulings[i].by \in Family[s] /\ rulings[i].cand}
Taken(i) == queue[i] # "none" \/ i \in refused
\* A ruling somebody who closed out may offer.
Worth(i) == i \in RulingIds /\ rulings[i].cand /\ \E s \in closed : rulings[i].by \in Family[s]

Stages == {"open", "checked", "closed", "replay", "produce", "done", "dead"}
Receipt == [rulings : SUBSET Nat, home : BOOLEAN]
MemoryTyped ==
  /\ rulings \in Seq(Ruling) /\ Len(rulings) <= MaxRulings
  /\ stage \in [DecisionSession -> Stages]
  /\ snap \in [DecisionSession -> SUBSET RulingIds] /\ rsnap \in [DecisionSession -> SUBSET RulingIds]
  /\ todo \in [DecisionSession -> SUBSET RulingIds] /\ lost \in [DecisionSession -> SUBSET RulingIds]
  /\ retry \in [DecisionSession -> SUBSET DOMAIN receipts]
  /\ closed \subseteq DecisionSession
  /\ receipts \in Seq(Receipt) /\ resolved \subseteq DOMAIN receipts
  /\ queue \in [1 .. MaxRulings -> {"none", "proposed", "accepted", "rejected"}]
ReceiptsWorth == \A f \in DOMAIN receipts : \A i \in receipts[f].rulings : Worth(i)
CallSound(s) ==
  /\ stage[s] \in {"closed", "replay", "produce", "done"} => s \in closed
  /\ todo[s] \cup lost[s] \subseteq Offerings(s)
  /\ stage[s] \in {"open", "checked", "closed", "replay"} => todo[s] = {} /\ lost[s] = {}
  /\ stage[s] = "produce" => \A i \in Offerings(s) : i \in todo[s] \cup lost[s] \/ Taken(i)
  /\ stage[s] = "done" =>
       \A i \in Offerings(s) : Taken(i) \/ i \in stale \/ \E f \in Pending : i \in receipts[f].rulings
MemoryInv == MemoryTyped /\ ReceiptsWorth /\ \A s \in DecisionSession : CallSound(s)

LEMMA FirstIsOf == ASSUME NEW S, S \subseteq Nat, S # {} PROVE FirstOf(S) \in S
<1>1. \E f \in S : \A g \in S : f <= g
  BY LeastNat
<1> QED BY <1>1 DEF FirstOf

LEMMA RulingsInQueue ==
  ASSUME MemoryTyped PROVE RulingIds \subseteq 1 .. MaxRulings /\ Len(rulings) \in Nat
BY DecisionAssumption DEF MemoryTyped, RulingIds, DecisionAssumption

LEMMA HeadsAreRulings == \A held : Heads(held) \subseteq RulingIds
BY DEF Heads, InForceOf, LineOf

\* What every step respects: nothing that was offered, refused, recorded or found
\* superseded is forgotten, and a receipt is resolved only when what is in it was.
Onward ==
  /\ RulingIds \subseteq RulingIds' /\ \A i \in RulingIds : rulings'[i] = rulings[i]
  /\ closed \subseteq closed' /\ refused \subseteq refused' /\ stale \subseteq stale'
  /\ \A i \in RulingIds : queue[i] # "none" => queue'[i] # "none"
  /\ DOMAIN receipts \subseteq DOMAIN receipts' /\ \A f \in DOMAIN receipts : receipts'[f] = receipts[f]
  /\ \A f \in resolved' \ resolved : \A i \in receipts[f].rulings : Taken(i) \/ i \in stale'

LEMMA OnwardTaken == ASSUME Onward, NEW i \in RulingIds, Taken(i) PROVE Taken(i)'
BY DEF Onward, Taken
LEMMA OnwardWorth == ASSUME Onward, NEW i, Worth(i) PROVE Worth(i)'
<1>1. i \in RulingIds /\ i \in RulingIds' /\ rulings'[i] = rulings[i] /\ closed \subseteq closed'
  BY DEF Onward, Worth
<1> QED BY <1>1 DEF Worth

\* A candidate on record stays on record.
LEMMA OnwardAccounts ==
  ASSUME MemoryInv, Onward, NEW i \in RulingIds,
         Taken(i) \/ i \in stale \/ \E f \in Pending : i \in receipts[f].rulings
  PROVE  Taken(i)' \/ i \in stale' \/ \E f \in Pending' : i \in (receipts[f].rulings)'
<1>1. CASE Taken(i)
  BY <1>1, OnwardTaken
<1>2. CASE i \in stale
  BY <1>2 DEF Onward
<1>3. ASSUME NEW f \in Pending, i \in receipts[f].rulings
      PROVE  Taken(i)' \/ i \in stale' \/ \E g \in Pending' : i \in (receipts[g].rulings)'
  <2>1. f \in DOMAIN receipts /\ f \in DOMAIN receipts' /\ f \notin resolved /\ receipts'[f] = receipts[f]
    BY <1>3 DEF Pending, Onward
  <2>2. CASE f \in resolved'
    <3>1. Taken(i) \/ i \in stale'
      BY <1>3, <2>1, <2>2 DEF Onward
    <3> QED BY <3>1, OnwardTaken
  <2>3. CASE f \notin resolved'
    BY <1>3, <2>1, <2>3 DEF Pending
  <2> QED BY <2>2, <2>3
<1> QED BY <1>1, <1>2, <1>3

\* A call that did not move stands as it stood.
LEMMA OnwardKeepsCall ==
  ASSUME MemoryInv, Onward, NEW s \in DecisionSession,
         stage'[s] = stage[s], snap'[s] = snap[s], todo'[s] = todo[s], lost'[s] = lost[s]
  PROVE  CallSound(s)'
<1>1. snap[s] \subseteq RulingIds
  BY DEF MemoryInv, MemoryTyped
<1>2. Offerings(s)' = Offerings(s) /\ Offerings(s) \subseteq RulingIds
  BY <1>1 DEF Offerings, Onward
<1>3. CallSound(s)
  BY DEF MemoryInv
<1>4. stage[s] = "produce" => \A i \in Offerings(s) : i \in todo[s] \cup lost[s] \/ Taken(i)'
  BY <1>2, <1>3, OnwardTaken DEF CallSound
<1>5. stage[s] = "done" =>
        \A i \in Offerings(s) : Taken(i)' \/ i \in stale' \/ \E f \in Pending' : i \in (receipts[f].rulings)'
  BY <1>2, <1>3, OnwardAccounts DEF CallSound
<1>6. closed \subseteq closed'
  BY DEF Onward
<1> QED BY <1>2, <1>3, <1>4, <1>5, <1>6 DEF CallSound

\* Where a step leaves the log and the tables alone.
LEMMA QuietStep ==
  ASSUME MemoryInv, UNCHANGED <<rulings, closed, receipts, resolved, queue, refused, stale>>
  PROVE  Onward /\ ReceiptsWorth'
<1>1. Onward
  BY DEF Onward, RulingIds
<1>2. ReceiptsWorth'
  BY DEF MemoryInv, ReceiptsWorth, Worth, RulingIds
<1> QED BY <1>1, <1>2

LEMMA OtherCallsStand ==
  ASSUME MemoryInv, MemoryTyped', Onward, ReceiptsWorth', NEW s \in DecisionSession, CallSound(s)',
         \A c \in DecisionSession \ {s} :
           stage'[c] = stage[c] /\ snap'[c] = snap[c] /\ todo'[c] = todo[c] /\ lost'[c] = lost[c]
  PROVE  MemoryInv'
BY OnwardKeepsCall DEF MemoryInv

LEMMA AllCallsStand ==
  ASSUME MemoryInv, MemoryTyped', Onward, ReceiptsWorth', UNCHANGED <<stage, snap, todo, lost>>
  PROVE  MemoryInv'
BY OnwardKeepsCall DEF MemoryInv

LEMMA MemoryStart == MemoryInit => MemoryInv
<1> SUFFICES ASSUME MemoryInit PROVE MemoryInv
  OBVIOUS
<1>1. rulings = << >> /\ receipts = << >> /\ resolved = {} /\ closed = {}
  BY DEF MemoryInit, DecisionInit
<1>2. rulings \in Seq(Ruling) /\ Len(rulings) = 0 /\ receipts \in Seq(Receipt) /\ DOMAIN receipts = {}
  BY <1>1
<1>3. MemoryTyped
  BY <1>1, <1>2, DecisionAssumption DEF MemoryInit, MemoryTyped, PerSession, Stages, DecisionAssumption
<1>4. \A s \in DecisionSession : CallSound(s)
  BY DEF MemoryInit, CallSound, PerSession, Offerings
<1> QED BY <1>2, <1>3, <1>4 DEF MemoryInv, ReceiptsWorth

-----------------------------------------------------------------------------
(* The steps.                                                               *)

LEMMA OthersRuleKeeps == ASSUME MemoryInv, OthersRule PROVE MemoryInv'
<1>u. UNCHANGED <<callVars, receipts, resolved, queue, refused, stale, facts>>
  BY DEF OthersRule
<1>1. CASE UNCHANGED decisionVars
  <2>1. UNCHANGED <<rulings, closed, receipts, resolved, queue, refused, stale, stage, snap, rsnap, retry, todo, lost>>
    BY <1>1, <1>u DEF decisionVars, callVars
  <2>2. MemoryTyped'
    BY <2>1 DEF MemoryInv, MemoryTyped, RulingIds
  <2> QED BY <2>1, <2>2, QuietStep, AllCallsStand
<1>2. ASSUME NEW s \in DecisionSession, NEW sup \in RulingIds \cup {0}, NEW cand \in BOOLEAN,
             PostDecision(s, sup, 0, {}, cand)
      PROVE  MemoryInv'
  <2>1. PICK r : r = [by |-> s, sup |-> sup, from |-> 0, stale |-> {}, cand |-> cand]
    OBVIOUS
  <2>2. Len(rulings) \in Nat /\ RulingIds = 1 .. Len(rulings) /\ rulings \in Seq(Ruling)
    BY RulingsInQueue DEF MemoryInv, MemoryTyped, RulingIds
  <2>3. r \in Ruling
    BY <2>1, <2>2 DEF Ruling
  <2>4. rulings' = Append(rulings, r) /\ Len(rulings) < MaxRulings
    BY <1>2, <2>1 DEF PostDecision
  <2>5. rulings' \in Seq(Ruling) /\ Len(rulings') = Len(rulings) + 1 /\ \A i \in 1 .. Len(rulings) : rulings'[i] = rulings[i]
    BY <2>2, <2>3, <2>4
  <2>6. RulingIds' = 1 .. Len(rulings) + 1 /\ RulingIds \subseteq RulingIds' /\ Len(rulings') <= MaxRulings
    BY <2>2, <2>4, <2>5, DecisionAssumption DEF RulingIds, DecisionAssumption
  <2>7. UNCHANGED <<closed, receipts, resolved, queue, refused, stale, stage, snap, rsnap, retry, todo, lost>>
    BY <1>u DEF callVars
  <2>8. Onward
    BY <2>2, <2>5, <2>6, <2>7 DEF Onward
  <2>9. ReceiptsWorth'
    BY <2>7, <2>8, OnwardWorth DEF MemoryInv, ReceiptsWorth
  <2>10. MemoryTyped'
    <3>1. \A g \in [DecisionSession -> SUBSET RulingIds] : g \in [DecisionSession -> SUBSET RulingIds']
      BY <2>6
    <3> QED BY <2>5, <2>6, <2>7, <3>1 DEF MemoryInv, MemoryTyped
  <2> QED BY <2>7, <2>8, <2>9, <2>10, AllCallsStand
<1> QED BY <1>1, <1>2 DEF OthersRule

\* The calls' steps that only move the call.
LEMMA CallMovesKeep ==
  ASSUME MemoryInv, NEW s \in DecisionSession,
         CheckCloseout(s) \/ BeginReplay(s) \/ ReplayPending(s) \/ BeginProduction(s) \/ CloseoutDies(s)
  PROVE  MemoryInv'
<1>u. UNCHANGED <<rulings, closed, receipts, resolved, queue, refused, stale, snap, lost>>
  BY DEF CheckCloseout, BeginReplay, ReplayPending, BeginProduction, CloseoutDies, storeVars, decisionVars
<1>q. Onward /\ ReceiptsWorth'
  BY <1>u, QuietStep
<1>t. MemoryTyped /\ CallSound(s)
  BY DEF MemoryInv
<1>c. Offerings(s)' = Offerings(s) /\ Offerings(s) \subseteq RulingIds
  BY <1>u, <1>t DEF Offerings, MemoryTyped
<1>1. CASE CheckCloseout(s) \/ CloseoutDies(s)
  <2>1. /\ UNCHANGED <<rsnap, retry, todo>>
        /\ \/ stage[s] = "open" /\ stage' = [stage EXCEPT ![s] = "checked"]
           \/ stage' = [stage EXCEPT ![s] = "dead"]
    BY <1>1 DEF CheckCloseout, CloseoutDies
  <2>2. MemoryTyped'
    BY <1>t, <1>u, <2>1 DEF MemoryTyped, RulingIds, Stages
  <2>3. CallSound(s)'
    BY <1>c, <1>t, <1>u, <2>1 DEF MemoryTyped, CallSound
  <2>4. \A c \in DecisionSession \ {s} : stage'[c] = stage[c]
    BY <1>t, <2>1 DEF MemoryTyped
  <2> QED BY <1>q, <1>u, <2>1, <2>2, <2>3, <2>4, OtherCallsStand
<1>2. CASE BeginReplay(s)
  <2>1. /\ UNCHANGED todo /\ stage[s] = "closed" /\ stage' = [stage EXCEPT ![s] = "replay"]
        /\ rsnap' = [rsnap EXCEPT ![s] = Heads({})]
    BY <1>2 DEF BeginReplay
  <2>2. PICK tried \in SUBSET DOMAIN receipts : retry' = [retry EXCEPT ![s] = tried]
    BY <1>2, Zenon DEF BeginReplay, Pending
  <2>3. MemoryTyped'
    <3>1. rsnap' \in [DecisionSession -> SUBSET RulingIds]
      BY <1>t, <2>1, HeadsAreRulings DEF MemoryTyped
    <3>2. retry' \in [DecisionSession -> SUBSET DOMAIN receipts]
      BY <1>t, <2>2 DEF MemoryTyped
    <3> QED BY <1>t, <1>u, <2>1, <3>1, <3>2 DEF MemoryTyped, RulingIds, Stages
  <2>4. CallSound(s)'
    BY <1>c, <1>t, <1>u, <2>1 DEF MemoryTyped, CallSound
  <2>5. \A c \in DecisionSession \ {s} : stage'[c] = stage[c]
    BY <1>t, <2>1 DEF MemoryTyped
  <2> QED BY <1>q, <1>u, <2>1, <2>3, <2>4, <2>5, OtherCallsStand
<1>3. CASE ReplayPending(s)
  <2>1. UNCHANGED <<stage, snap, rsnap, todo, lost>>
    BY <1>3 DEF ReplayPending
  <2>2. retry' \in [DecisionSession -> SUBSET DOMAIN receipts]
    BY <1>3, <1>t DEF ReplayPending, MemoryTyped
  <2>3. MemoryTyped'
    BY <1>t, <1>u, <2>1, <2>2 DEF MemoryTyped, RulingIds
  <2> QED BY <1>q, <2>1, <2>3, AllCallsStand
<1>4. CASE BeginProduction(s)
  <2>1. /\ UNCHANGED <<rsnap, retry>> /\ stage[s] = "replay" /\ stage' = [stage EXCEPT ![s] = "produce"]
        /\ todo' = [todo EXCEPT ![s] = Offerings(s)]
    BY <1>4 DEF BeginProduction, Offerings
  <2>2. MemoryTyped'
    BY <1>c, <1>t, <1>u, <2>1 DEF MemoryTyped, RulingIds, Stages
  <2>3. CallSound(s)'
    BY <1>c, <1>t, <1>u, <2>1 DEF MemoryTyped, CallSound
  <2>4. \A c \in DecisionSession \ {s} : stage'[c] = stage[c] /\ todo'[c] = todo[c]
    BY <1>t, <2>1 DEF MemoryTyped
  <2> QED BY <1>q, <1>u, <2>2, <2>3, <2>4, OtherCallsStand
<1> QED BY <1>1, <1>2, <1>3, <1>4

LEMMA PostCloseoutKeeps ==
  ASSUME MemoryInv, NEW s \in DecisionSession, PostCloseout(s) PROVE MemoryInv'
<1>t. MemoryTyped /\ CallSound(s)
  BY DEF MemoryInv
<1>1. /\ UNCHANGED <<rulings, receipts, resolved, queue, refused, stale, rsnap, retry, todo, lost>>
      /\ stage[s] = "checked" /\ stage' = [stage EXCEPT ![s] = "closed"]
      /\ closed' = closed \cup {s} /\ snap' = [snap EXCEPT ![s] = Heads({})]
  BY DEF PostCloseout, storeVars, decisionVars
<1>2. MemoryTyped'
  BY <1>t, <1>1, HeadsAreRulings DEF MemoryTyped, RulingIds, Stages
<1>3. Onward
  BY <1>1 DEF Onward, RulingIds
<1>4. ReceiptsWorth'
  BY <1>1, <1>3, OnwardWorth DEF MemoryInv, ReceiptsWorth
<1>5. CallSound(s)'
  BY <1>t, <1>1 DEF MemoryTyped, CallSound
<1>6. \A c \in DecisionSession \ {s} : stage'[c] = stage[c] /\ snap'[c] = snap[c]
  BY <1>t, <1>1 DEF MemoryTyped
<1> QED BY <1>1, <1>2, <1>3, <1>4, <1>5, <1>6, OtherCallsStand

\* Offering i takes it or refuses it, and puts nothing else in the queue.
LEMMA OfferTakes ==
  ASSUME MemoryInv, NEW i \in RulingIds, Offer(i)
  PROVE  /\ Taken(i)' /\ refused \subseteq refused'
         /\ queue' \in [1 .. MaxRulings -> {"none", "proposed", "accepted", "rejected"}]
         /\ \A j \in RulingIds : queue[j] # "none" => queue'[j] = queue[j]
         /\ \A j \in RulingIds : queue[j] = "none" /\ queue'[j] # "none" => j = i
<1>t. /\ queue \in [1 .. MaxRulings -> {"none", "proposed", "accepted", "rejected"}]
      /\ RulingIds \subseteq 1 .. MaxRulings
  BY RulingsInQueue DEF MemoryInv, MemoryTyped
<1>1. CASE Emit(i)
  <2>1. PICK st \in {"proposed", "accepted", "rejected"} :
          /\ queue' = [queue EXCEPT ![i] = st] /\ (queue[i] # "none" => st = queue[i])
    BY <1>1, <1>t DEF Emit
  <2>2. UNCHANGED refused
    BY <1>1 DEF Emit
  <2> QED BY <1>t, <2>1, <2>2 DEF Taken
<1>2. CASE Refuse(i)
  BY <1>2, <1>t DEF Refuse, Taken
<1> QED BY <1>1, <1>2 DEF Offer

\* A step that only writes the queue.
LEMMA QueueStep ==
  ASSUME MemoryInv, UNCHANGED <<rulings, closed, receipts, resolved, stale>>, refused \subseteq refused',
         \A j \in RulingIds : queue[j] # "none" => queue'[j] # "none"
  PROVE  Onward /\ ReceiptsWorth'
<1>1. Onward
  BY DEF Onward, RulingIds
<1>2. ReceiptsWorth'
  BY <1>1, OnwardWorth DEF MemoryInv, ReceiptsWorth
<1> QED BY <1>1, <1>2

\* What a replay offers is in the receipt it is at and was in force when it looked.
LEMMA ReplayIsAt ==
  ASSUME MemoryInv, NEW s \in DecisionSession, retry[s] # {}
  PROVE  /\ FirstOf(retry[s]) \in retry[s] /\ FirstOf(retry[s]) \in DOMAIN receipts
         /\ \A i \in StillInForce(s, FirstOf(retry[s])) : Worth(i) /\ i \in rsnap[s]
<1>1. retry[s] \subseteq DOMAIN receipts /\ receipts \in Seq(Receipt)
  BY DEF MemoryInv, MemoryTyped
<1>2. DOMAIN receipts \subseteq Nat
  BY <1>1
<1>3. FirstOf(retry[s]) \in retry[s]
  BY <1>1, <1>2, FirstIsOf
<1> QED BY <1>1, <1>3 DEF MemoryInv, ReceiptsWorth, StillInForce

LEMMA ReplayOfferKeeps ==
  ASSUME MemoryInv, NEW s \in DecisionSession, ReplayOffer(s) PROVE MemoryInv'
<1>1. /\ UNCHANGED <<rulings, stage, snap, rsnap, retry, todo, lost, closed, receipts, resolved, stale>>
      /\ retry[s] # {}
  BY DEF ReplayOffer, callVars, decisionVars
<1>2. PICK i \in StillInForce(s, FirstOf(retry[s])) : Offer(i)
  BY DEF ReplayOffer
<1>3. i \in RulingIds
  BY <1>1, ReplayIsAt DEF Worth
<1>4. /\ queue' \in [1 .. MaxRulings -> {"none", "proposed", "accepted", "rejected"}]
      /\ refused \subseteq refused' /\ \A j \in RulingIds : queue[j] # "none" => queue'[j] # "none"
  BY <1>2, <1>3, OfferTakes
<1>5. MemoryTyped'
  BY <1>1, <1>4 DEF MemoryInv, MemoryTyped, RulingIds
<1> QED BY <1>1, <1>4, <1>5, QueueStep, AllCallsStand

LEMMA ReplayResolveKeeps ==
  ASSUME MemoryInv, NEW s \in DecisionSession, ReplayResolve(s) PROVE MemoryInv'
<1> DEFINE f == FirstOf(retry[s])
<1>1. /\ UNCHANGED <<rulings, stage, snap, rsnap, todo, lost, closed, receipts, queue, refused>>
      /\ retry[s] # {} /\ \A i \in StillInForce(s, f) : Taken(i)
      /\ resolved' = resolved \cup {f} /\ stale' = stale \cup (receipts[f].rulings \ rsnap[s])
      /\ retry' = [retry EXCEPT ![s] = retry[s] \ {f}]
  BY DEF ReplayResolve, storeVars, decisionVars, Taken, MemoryInv, MemoryTyped
<1>2. f \in DOMAIN receipts
  BY <1>1, ReplayIsAt
<1> HIDE DEF f
<1>3. \A i \in receipts[f].rulings : Taken(i) \/ i \in stale'
  BY <1>1 DEF StillInForce
<1>4. Onward
  BY <1>1, <1>3 DEF Onward, RulingIds
<1>5. ReceiptsWorth'
  BY <1>1, <1>4, OnwardWorth DEF MemoryInv, ReceiptsWorth
<1>6. MemoryTyped'
  BY <1>1, <1>2 DEF MemoryInv, MemoryTyped, RulingIds
<1> QED BY <1>1, <1>4, <1>5, <1>6, AllCallsStand

LEMMA ProduceOneKeeps ==
  ASSUME MemoryInv, NEW s \in DecisionSession, ProduceOne(s) PROVE MemoryInv'
<1>t. MemoryTyped /\ CallSound(s)
  BY DEF MemoryInv
<1>1. PICK i : i = FirstOf(todo[s])
  OBVIOUS
<1>2. /\ UNCHANGED <<rulings, stage, snap, rsnap, retry, closed, receipts, resolved, stale>>
      /\ stage[s] = "produce" /\ todo[s] # {} /\ todo' = [todo EXCEPT ![s] = todo[s] \ {i}]
  BY <1>1, <1>t DEF ProduceOne, decisionVars, MemoryTyped
<1>3. todo[s] \subseteq RulingIds /\ RulingIds \subseteq Nat
  BY <1>t DEF MemoryTyped, RulingIds
<1>4. i \in todo[s] /\ i \in RulingIds
  BY <1>1, <1>2, <1>3, FirstIsOf
<1>5. /\ queue' \in [1 .. MaxRulings -> {"none", "proposed", "accepted", "rejected"}]
      /\ refused \subseteq refused' /\ \A j \in RulingIds : queue[j] # "none" => queue'[j] # "none"
      /\ \/ UNCHANGED lost /\ Taken(i)'
         \/ lost' = [lost EXCEPT ![s] = lost[s] \cup {i}]
  <2>1. CASE Offer(i) /\ UNCHANGED lost
    BY <1>4, <2>1, OfferTakes
  <2>2. CASE lost' = [lost EXCEPT ![s] = lost[s] \cup {i}] /\ UNCHANGED storeVars
    BY <1>t, <2>2 DEF storeVars, MemoryTyped
  <2>3. \/ Offer(i) /\ UNCHANGED lost
        \/ lost' = [lost EXCEPT ![s] = @ \cup {i}] /\ UNCHANGED storeVars
    BY <1>1 DEF ProduceOne
  <2> QED BY <1>t, <2>1, <2>2, <2>3 DEF MemoryTyped
<1>6. lost' \in [DecisionSession -> SUBSET RulingIds] /\ todo' \in [DecisionSession -> SUBSET RulingIds]
  <2>1. todo[s] \in SUBSET RulingIds /\ lost[s] \in SUBSET RulingIds
    BY <1>t DEF MemoryTyped
  <2>2. todo[s] \ {i} \in SUBSET RulingIds /\ lost[s] \cup {i} \in SUBSET RulingIds
    BY <1>4, <2>1
  <2>3. todo' \in [DecisionSession -> SUBSET RulingIds]
    BY <1>2, <1>t, <2>2 DEF MemoryTyped
  <2>4. lost' \in [DecisionSession -> SUBSET RulingIds]
    BY <1>5, <1>t, <2>2 DEF MemoryTyped
  <2> QED BY <2>3, <2>4
<1>7. MemoryTyped'
  BY <1>2, <1>5, <1>6, <1>t DEF MemoryTyped, RulingIds
<1>8. Onward /\ ReceiptsWorth'
  BY <1>2, <1>5, QueueStep
<1>9. Offerings(s)' = Offerings(s) /\ Offerings(s) \subseteq RulingIds
  BY <1>2, <1>t DEF Offerings, MemoryTyped
<1>10. CallSound(s)'
  <2>1. todo'[s] = todo[s] \ {i} /\ (lost'[s] = lost[s] \/ lost'[s] = lost[s] \cup {i}) /\ lost[s] \subseteq lost'[s]
    BY <1>2, <1>5, <1>t DEF MemoryTyped
  <2>2. Taken(i)' \/ i \in lost'[s]
    BY <1>5, <1>t DEF MemoryTyped
  <2>3. \A j \in Offerings(s) : j \in todo'[s] \cup lost'[s] \/ Taken(j)'
    BY <1>2, <1>8, <1>9, <1>t, <2>1, <2>2, OnwardTaken DEF CallSound
  <2>4. todo'[s] \cup lost'[s] \subseteq Offerings(s)
    BY <1>4, <1>t, <2>1 DEF CallSound
  <2> QED BY <1>2, <1>9, <1>t, <2>3, <2>4 DEF CallSound
<1>11. \A c \in DecisionSession \ {s} : todo'[c] = todo[c] /\ lost'[c] = lost[c]
  BY <1>2, <1>5, <1>t DEF MemoryTyped
<1> QED BY <1>2, <1>7, <1>8, <1>10, <1>11, OtherCallsStand

LEMMA ReviewKeeps ==
  ASSUME MemoryInv, NEW i \in RulingIds, NEW r \in ReviewerLane, NEW st \in {"accepted", "rejected"},
         ReviewProposal(i, r, st) \/ PromoteProposal(i)
  PROVE  MemoryInv'
<1>t. MemoryTyped /\ RulingIds \subseteq 1 .. MaxRulings
  BY RulingsInQueue DEF MemoryInv
<1>1. UNCHANGED <<rulings, stage, snap, rsnap, retry, todo, lost, closed, receipts, resolved, stale, refused>>
  BY DEF ReviewProposal, PromoteProposal, callVars, decisionVars
<1>2. UNCHANGED queue \/ queue' = [queue EXCEPT ![i] = st]
  BY DEF ReviewProposal, PromoteProposal
<1>3. /\ queue' \in [1 .. MaxRulings -> {"none", "proposed", "accepted", "rejected"}]
      /\ \A j \in RulingIds : queue[j] # "none" => queue'[j] # "none"
  BY <1>t, <1>2 DEF MemoryTyped
<1>4. MemoryTyped'
  BY <1>1, <1>3, <1>t DEF MemoryTyped, RulingIds
<1> QED BY <1>1, <1>3, <1>4, QueueStep, AllCallsStand

\* A receipt for each: whatever failed is in one of them, and nothing else is.
LEMMA EachHasReceipt ==
  ASSUME NEW n \in Nat, NEW S \in SUBSET (1 .. n), NEW home \in BOOLEAN
  PROVE  /\ AsReceipts(S, home) \in Seq([rulings : SUBSET S, home : BOOLEAN])
         /\ \A i \in S : \E k \in DOMAIN AsReceipts(S, home) : i \in AsReceipts(S, home)[k].rulings
<1> DEFINE R == {p \in S \X S : p[1] < p[2]}
           at(i) == {j \in S : j < i}
<1>1. IsFiniteSet(S)
  <2>1. IsFiniteSet(1 .. n)
    BY FS_Interval
  <2> QED BY <2>1, FS_Subset
<1>2. \A i, j \in S : <<i, j>> \in R <=> i < j
  OBVIOUS
<1>3. Orders(R, S)
  BY <1>2 DEF Orders
<1>4. \A i \in S : Preceding(i, R, S) = at(i)
  BY <1>2 DEF Preceding
<1> HIDE DEF R
<1>5. /\ Cardinality(S) \in Nat
      /\ \A i \in S : Cardinality(at(i)) + 1 \in 1 .. Cardinality(S)
      /\ \A i, j \in S : Cardinality(at(i)) = Cardinality(at(j)) => i = j
      /\ \A k \in 1 .. Cardinality(S) : \E i \in S : Cardinality(at(i)) + 1 = k
  <2> HIDE DEF at
  <2>1. /\ Cardinality(S) \in Nat
        /\ \A i \in S : Cardinality(Preceding(i, R, S)) + 1 \in 1 .. Cardinality(S)
        /\ \A i, j \in S : Cardinality(Preceding(i, R, S)) = Cardinality(Preceding(j, R, S)) => i = j
        /\ \A k \in 1 .. Cardinality(S) : \E i \in S : Cardinality(Preceding(i, R, S)) + 1 = k
    BY <1>1, <1>3, RankFills
  <2> QED BY <1>4, <2>1
<1>6. \A i \in S : Cardinality(at(i)) \in Nat
  <2> SUFFICES ASSUME NEW i \in S PROVE Cardinality(at(i)) \in Nat
    OBVIOUS
  <2>1. at(i) \subseteq S
    OBVIOUS
  <2> HIDE DEF at
  <2> QED BY <1>1, <2>1, FS_Subset, FS_CardinalityType
<1> DEFINE N == Cardinality(S)
           whose(k) == CHOOSE i \in S : Cardinality(at(i)) = k - 1
<1>7. ASSUME NEW k \in 1 .. N PROVE whose(k) \in S /\ Cardinality(at(whose(k))) = k - 1
  <2>1. \E i \in S : Cardinality(at(i)) = k - 1
    <3> HIDE DEF at
    <3> QED BY <1>5, <1>6
  <2> HIDE DEF at
  <2> QED BY <2>1
<1>8. AsReceipts(S, home) = [k \in 1 .. N |-> [rulings |-> {whose(k)}, home |-> home]]
  BY DEF AsReceipts
<1> HIDE DEF whose, N, at
<1>9. N \in Nat
  BY <1>5 DEF N
<1>10. AsReceipts(S, home) \in [1 .. N -> [rulings : SUBSET S, home : BOOLEAN]]
  BY <1>7, <1>8
<1>11. ASSUME NEW i \in S PROVE \E k \in 1 .. N : i \in AsReceipts(S, home)[k].rulings
  <2>1. PICK k \in 1 .. N : k = Cardinality(at(i)) + 1
    BY <1>5 DEF N
  <2>2. Cardinality(at(whose(k))) = Cardinality(at(i)) /\ whose(k) \in S
    BY <1>6, <1>7, <2>1
  <2>3. whose(k) = i
    BY <1>5, <2>2
  <2>4. AsReceipts(S, home)[k].rulings = {i}
    BY <1>8, <2>3
  <2> QED BY <2>4
<1>12. AsReceipts(S, home) \in Seq([rulings : SUBSET S, home : BOOLEAN])
  <2>1. PICK T : T = [rulings : SUBSET S, home : BOOLEAN]
    OBVIOUS
  <2>2. PICK g : g = AsReceipts(S, home)
    OBVIOUS
  <2>3. g \in [1 .. N -> T]
    BY <1>10, <2>1, <2>2
  <2>4. g \in Seq(T)
    BY <1>9, <2>3
  <2> QED BY <2>1, <2>2, <2>4
<1>13. DOMAIN AsReceipts(S, home) = 1 .. N
  BY <1>8
<1> QED BY <1>11, <1>12, <1>13

\* A call ends with new receipts that hold all it has not offered.
LEMMA EndKeeps ==
  ASSUME MemoryInv, NEW s \in DecisionSession, stage[s] = "produce", NEW more \in Seq(Receipt),
         UNCHANGED <<rulings, snap, rsnap, retry, todo, lost, closed, resolved, queue, refused, stale>>,
         stage' = [stage EXCEPT ![s] = "done"], receipts' = receipts \o more,
         \A k \in DOMAIN more : more[k].rulings \subseteq Offerings(s),
         \A i \in Offerings(s) : Taken(i) \/ \E k \in DOMAIN more : i \in more[k].rulings
  PROVE  MemoryInv'
<1>t. MemoryTyped /\ CallSound(s) /\ ReceiptsWorth
  BY DEF MemoryInv
<1>1. /\ receipts \in Seq(Receipt) /\ DOMAIN receipts = 1 .. Len(receipts) /\ DOMAIN more = 1 .. Len(more)
      /\ Len(receipts) \in Nat /\ Len(more) \in Nat
  BY <1>t DEF MemoryTyped
<1>2. /\ receipts' \in Seq(Receipt) /\ DOMAIN receipts' = 1 .. Len(receipts) + Len(more)
      /\ \A f \in 1 .. Len(receipts) : receipts'[f] = receipts[f]
      /\ \A k \in 1 .. Len(more) : receipts'[Len(receipts) + k] = more[k]
  BY <1>1, ConcatProperties
<1>3. DOMAIN receipts \subseteq DOMAIN receipts'
  BY <1>1, <1>2
<1>4. Onward
  BY <1>1, <1>2, <1>3 DEF Onward, RulingIds
<1>5. Offerings(s)' = Offerings(s) /\ Offerings(s) \subseteq RulingIds
  BY <1>t DEF Offerings, MemoryTyped
<1>6. \A i \in Offerings(s) : Worth(i)
  BY <1>5, <1>t DEF Worth, Offerings, CallSound
<1>7. ReceiptsWorth'
  <2> SUFFICES ASSUME NEW f \in DOMAIN receipts', NEW i \in receipts'[f].rulings PROVE Worth(i)'
    BY DEF ReceiptsWorth
  <2>1. CASE f \in 1 .. Len(receipts)
    <3>1. receipts'[f] = receipts[f] /\ f \in DOMAIN receipts
      BY <1>1, <1>2, <2>1
    <3> QED BY <1>4, <1>t, <3>1, OnwardWorth DEF ReceiptsWorth
  <2>2. CASE f \notin 1 .. Len(receipts)
    <3>1. PICK k \in 1 .. Len(more) : f = Len(receipts) + k
      <4>1. f - Len(receipts) \in 1 .. Len(more)
        BY <1>1, <1>2, <2>2
      <4>2. f = Len(receipts) + (f - Len(receipts))
        BY <1>1, <1>2
      <4> QED BY <4>1, <4>2
    <3>2. receipts'[f] = more[k] /\ k \in DOMAIN more
      BY <1>1, <1>2, <3>1
    <3> QED BY <1>4, <1>6, <3>2, OnwardWorth
  <2> QED BY <2>1, <2>2
<1>8. MemoryTyped'
  <2>1. \A g \in [DecisionSession -> SUBSET DOMAIN receipts] : g \in [DecisionSession -> SUBSET DOMAIN receipts']
    BY <1>3
  <2>2. stage' \in [DecisionSession -> Stages]
    BY <1>t DEF MemoryTyped, Stages
  <2> QED BY <1>2, <1>3, <1>t, <2>1, <2>2 DEF MemoryTyped, RulingIds
<1>9. CallSound(s)'
  <2>1. ASSUME NEW i \in Offerings(s)
        PROVE  Taken(i)' \/ i \in stale' \/ \E f \in Pending' : i \in (receipts[f].rulings)'
    <3>1. CASE Taken(i)
      BY <1>4, <1>5, <3>1, OnwardTaken
    <3>2. ASSUME NEW k \in DOMAIN more, i \in more[k].rulings
          PROVE  \E f \in Pending' : i \in (receipts[f].rulings)'
      <4>1. PICK f : f = Len(receipts) + k
        OBVIOUS
      <4>2. f \in DOMAIN receipts' /\ receipts'[f] = more[k] /\ f \notin DOMAIN receipts
        BY <1>1, <1>2, <4>1
      <4>3. f \in Pending'
        BY <1>t, <4>2 DEF Pending, MemoryTyped
      <4> QED BY <3>2, <4>2, <4>3
    <3> QED BY <3>1, <3>2
  <2>2. stage'[s] = "done" /\ s \in closed'
    BY <1>t DEF MemoryTyped, CallSound
  <2> QED BY <1>5, <1>t, <2>1, <2>2 DEF CallSound
<1>10. \A c \in DecisionSession \ {s} : stage'[c] = stage[c]
  BY <1>t DEF MemoryTyped
<1> QED BY <1>4, <1>7, <1>8, <1>9, <1>10, OtherCallsStand

LEMMA FinishKeeps ==
  ASSUME MemoryInv, NEW s \in DecisionSession, NEW home \in BOOLEAN,
         FinishProduction(s, home) \/ ProductionRaised(s, home)
  PROVE  MemoryInv'
<1>t. MemoryTyped /\ CallSound(s)
  BY DEF MemoryInv
<1>1. /\ UNCHANGED <<rulings, snap, rsnap, retry, todo, lost, closed, resolved, queue, refused, stale>>
      /\ stage[s] = "produce" /\ stage' = [stage EXCEPT ![s] = "done"]
  BY DEF FinishProduction, ProductionRaised, storeVars, decisionVars
<1>2. Offerings(s) \subseteq RulingIds /\ RulingIds \subseteq Nat /\ lost[s] \subseteq Offerings(s) /\ lost[s] \subseteq RulingIds
  BY <1>t DEF Offerings, MemoryTyped, CallSound, RulingIds
<1>3. CASE FinishProduction(s, home)
  <2>1. PICK more : more = AsReceipts(lost[s], home)
    OBVIOUS
  <2>2. receipts' = receipts \o more /\ todo[s] = {}
    BY <1>3, <2>1 DEF FinishProduction
  <2>3. /\ more \in Seq([rulings : SUBSET lost[s], home : BOOLEAN])
        /\ \A i \in lost[s] : \E k \in DOMAIN more : i \in more[k].rulings
    BY <1>2, <1>t, <2>1, RulingsInQueue, EachHasReceipt DEF RulingIds
  <2>4. \A k \in DOMAIN more : more[k] \in [rulings : SUBSET lost[s], home : BOOLEAN]
    <3>1. PICK T : T = [rulings : SUBSET lost[s], home : BOOLEAN]
      OBVIOUS
    <3>2. more \in Seq(T)
      BY <2>3, <3>1
    <3>3. \A k \in DOMAIN more : more[k] \in T
      BY <3>2
    <3> QED BY <3>1, <3>3
  <2>5. more \in Seq(Receipt)
    <3>1. \A k \in DOMAIN more : more[k] \in Receipt
      BY <1>2, <2>4 DEF Receipt
    <3>2. DOMAIN more = 1 .. Len(more) /\ Len(more) \in Nat /\ more = [k \in 1 .. Len(more) |-> more[k]]
      BY <2>3
    <3> QED BY <3>1, <3>2, IsASeq
  <2>6. \A k \in DOMAIN more : more[k].rulings \subseteq Offerings(s)
    BY <1>2, <2>4
  <2>7. \A i \in Offerings(s) : Taken(i) \/ \E k \in DOMAIN more : i \in more[k].rulings
    BY <1>1, <1>t, <2>2, <2>3 DEF CallSound
  <2> QED BY <1>1, <2>2, <2>5, <2>6, <2>7, EndKeeps
<1>4. CASE ProductionRaised(s, home)
  <2>1. PICK r : r = [rulings |-> Offerings(s), home |-> home]
    OBVIOUS
  <2>2. r \in Receipt /\ r.rulings = Offerings(s)
    BY <1>2, <2>1 DEF Receipt
  <2>3. PICK more : more = <<r>>
    OBVIOUS
  <2>4. more \in Seq(Receipt) /\ DOMAIN more = {1} /\ more[1] = r
    BY <2>2, <2>3
  <2>5. receipts' = Append(receipts, r)
    BY <1>4, <2>1 DEF ProductionRaised, Offerings
  <2>6. receipts' = receipts \o more
    BY <1>t, <2>2, <2>3, <2>5, AppendIsConcat DEF MemoryTyped
  <2> QED BY <1>1, <2>2, <2>4, <2>6, EndKeeps
<1> QED BY <1>3, <1>4

LEMMA MemoryRests == ASSUME MemoryInv, UNCHANGED memoryVars PROVE MemoryInv'
<1>1. UNCHANGED <<rulings, stage, snap, rsnap, retry, todo, lost, closed, receipts, resolved, queue, refused, stale>>
  BY DEF memoryVars, decisionVars
<1>2. MemoryTyped'
  BY <1>1 DEF MemoryInv, MemoryTyped, RulingIds
<1> QED BY <1>1, <1>2, QuietStep, AllCallsStand

LEMMA MemoryKept == ASSUME MemoryInv, [MemoryNext]_memoryVars PROVE MemoryInv'
<1>1. ASSUME NEW s \in DecisionSession, NEW home \in BOOLEAN,
             \/ CheckCloseout(s) \/ PostCloseout(s) \/ BeginReplay(s) \/ ReplayOffer(s)
             \/ ReplayResolve(s) \/ ReplayPending(s) \/ BeginProduction(s) \/ ProduceOne(s)
             \/ FinishProduction(s, home) \/ ProductionRaised(s, home) \/ CloseoutDies(s)
      PROVE  MemoryInv'
  BY <1>1, CallMovesKeep, PostCloseoutKeeps, ReplayOfferKeeps, ReplayResolveKeeps, ProduceOneKeeps, FinishKeeps
<1>2. ASSUME NEW i \in RulingIds, NEW r \in ReviewerLane, NEW st \in {"accepted", "rejected"},
             ReviewProposal(i, r, st)
      PROVE  MemoryInv'
  BY <1>2, ReviewKeeps
<1>3. ASSUME NEW i \in RulingIds, PromoteProposal(i) PROVE MemoryInv'
  <2>1. UNCHANGED <<rulings, stage, snap, rsnap, retry, todo, lost, closed, receipts, resolved, queue, stale, refused>>
    BY <1>3 DEF PromoteProposal, callVars, decisionVars
  <2>2. MemoryTyped'
    BY <2>1 DEF MemoryInv, MemoryTyped, RulingIds
  <2> QED BY <2>1, <2>2, QuietStep, AllCallsStand
<1> QED BY <1>1, <1>2, <1>3, MemoryRests, OthersRuleKeeps DEF MemoryNext

\* What a step may put in the queue, and what it may do to what is there.
OfferedWell(i) ==
  queue[i] = "none" /\ queue'[i] # "none" =>
     /\ rulings[i].cand /\ \E s \in closed : rulings[i].by \in Family[s]
     /\ \E s \in DecisionSession :
          \/ stage[s] = "produce" /\ i \in snap[s]
          \/ stage[s] = "replay" /\ i \in rsnap[s]
ReviewStands(i) ==
  /\ queue[i] \in {"accepted", "rejected"} => queue'[i] \in {"accepted", "rejected"}
  /\ i \in facts' \ facts => queue[i] = "accepted"

LEMMA QueueStands ==
  ASSUME MemoryInv, MemoryNext, NEW i \in RulingIds PROVE OfferedWell(i) /\ ReviewStands(i)
<1>t. /\ MemoryTyped /\ RulingIds \subseteq 1 .. MaxRulings /\ i \in 1 .. MaxRulings
  BY RulingsInQueue DEF MemoryInv
<1>1. ASSUME UNCHANGED <<queue, facts>> PROVE OfferedWell(i) /\ ReviewStands(i)
  BY <1>1 DEF OfferedWell, ReviewStands
<1>2. ASSUME NEW j \in RulingIds, Offer(j), Worth(j), NEW s \in DecisionSession,
             (stage[s] = "produce" /\ j \in snap[s]) \/ (stage[s] = "replay" /\ j \in rsnap[s])
      PROVE  OfferedWell(i) /\ ReviewStands(i)
  <2>1. /\ queue[i] # "none" => queue'[i] = queue[i]
        /\ queue[i] = "none" /\ queue'[i] # "none" => i = j
    BY <1>2, OfferTakes
  <2>2. UNCHANGED facts
    BY <1>2 DEF Offer, Emit, Refuse
  <2> QED BY <1>2, <2>1, <2>2 DEF OfferedWell, ReviewStands, Worth
<1>3. ASSUME NEW s \in DecisionSession, ReplayOffer(s) PROVE OfferedWell(i) /\ ReviewStands(i)
  <2>1. PICK j \in StillInForce(s, FirstOf(retry[s])) : Offer(j)
    BY <1>3 DEF ReplayOffer
  <2>2. stage[s] = "replay" /\ Worth(j) /\ j \in rsnap[s] /\ j \in RulingIds
    BY <1>3, ReplayIsAt DEF ReplayOffer, Worth
  <2> QED BY <1>2, <2>1, <2>2
<1>4. ASSUME NEW s \in DecisionSession, ProduceOne(s) PROVE OfferedWell(i) /\ ReviewStands(i)
  <2>1. PICK j : j = FirstOf(todo[s])
    OBVIOUS
  <2>2. todo[s] # {} /\ todo[s] \subseteq Nat /\ todo[s] \subseteq RulingIds /\ stage[s] = "produce"
    BY <1>4, <1>t DEF ProduceOne, MemoryTyped, RulingIds
  <2>3. j \in todo[s] /\ j \in RulingIds
    BY <2>1, <2>2, FirstIsOf
  <2>4. j \in Offerings(s) /\ s \in closed
    BY <2>2, <2>3 DEF MemoryInv, CallSound
  <2>5. Worth(j) /\ j \in snap[s]
    BY <2>3, <2>4 DEF Worth, Offerings
  <2>6. Offer(j) \/ UNCHANGED storeVars
    BY <1>4, <2>1 DEF ProduceOne
  <2> QED BY <1>1, <1>2, <2>2, <2>3, <2>5, <2>6 DEF storeVars
<1>5. ASSUME NEW j \in RulingIds, NEW r \in ReviewerLane, NEW st \in {"accepted", "rejected"},
             ReviewProposal(j, r, st)
      PROVE  OfferedWell(i) /\ ReviewStands(i)
  <2>1. queue[j] # "none" /\ queue' = [queue EXCEPT ![j] = st] /\ UNCHANGED facts
    BY <1>5 DEF ReviewProposal
  <2> QED BY <1>t, <2>1 DEF MemoryTyped, OfferedWell, ReviewStands
<1>6. ASSUME NEW j \in RulingIds, PromoteProposal(j) PROVE OfferedWell(i) /\ ReviewStands(i)
  BY <1>6 DEF PromoteProposal, OfferedWell, ReviewStands
<1>7. ASSUME NEW s \in DecisionSession, NEW home \in BOOLEAN,
             \/ CheckCloseout(s) \/ PostCloseout(s) \/ BeginReplay(s) \/ ReplayResolve(s) \/ ReplayPending(s)
             \/ BeginProduction(s) \/ FinishProduction(s, home) \/ ProductionRaised(s, home) \/ CloseoutDies(s)
      PROVE  UNCHANGED <<queue, facts>>
  BY <1>7 DEF CheckCloseout, PostCloseout, BeginReplay, ReplayResolve, ReplayPending, BeginProduction,
              FinishProduction, ProductionRaised, CloseoutDies, storeVars
<1>8. OthersRule => UNCHANGED <<queue, facts>>
  BY DEF OthersRule
<1> QED BY <1>1, <1>3, <1>4, <1>5, <1>6, <1>7, <1>8 DEF MemoryNext

-----------------------------------------------------------------------------
(* No candidate of a closeout that came to its end is lost, none is offered  *)
(* that was not in force for a closeout of its author's family, and no       *)
(* review is undone by a retry: for any sessions, rulings, failures, deaths  *)
(* and any limit of the replay (produce and replay of memory proposals).     *)
THEOREM MemoryAccountedForHolds == MemorySpec => MemoryAccountedFor
<1>1. MemoryInit => MemoryInv
  BY MemoryStart
<1>2. MemoryInv /\ [MemoryNext]_memoryVars => MemoryInv'
  BY MemoryKept
<1>3. MemoryInv => \A s \in DecisionSession : CandidateAccountedFor(s)
  BY DEF MemoryInv, CallSound, CandidateAccountedFor, Offerings, Taken
<1>4. MemoryInv /\ [MemoryNext]_memoryVars =>
       [\A i \in RulingIds : queue[i] = "none" /\ queue'[i] # "none" =>
       /\ rulings[i].cand /\ \E s \in closed : rulings[i].by \in Family[s]
       /\ \E s \in DecisionSession :
            \/ stage[s] = "produce" /\ i \in snap[s]
            \/ stage[s] = "replay" /\ i \in rsnap[s]]_memoryVars
  BY QueueStands DEF OfferedWell
<1>5. MemoryInv /\ [MemoryNext]_memoryVars =>
       [\A i \in RulingIds :
       /\ queue[i] \in {"accepted", "rejected"} => queue'[i] \in {"accepted", "rejected"}
       /\ i \in facts' \ facts => queue[i] = "accepted"]_memoryVars
  BY QueueStands DEF ReviewStands
<1> QED BY <1>1, <1>2, <1>3, <1>4, <1>5, PTL DEF MemorySpec, MemoryAccountedFor, OfferedInForce, ReviewSurvivesRetry
=============================================================================
