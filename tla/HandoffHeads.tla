---------------------------- MODULE HandoffHeads ----------------------------
(***************************************************************************)
(* Assignment heads and open review requests, derived from the event log   *)
(* of coord/coord_db.py.                                                   *)
(*                                                                         *)
(* A structured handoff or audit_request is a head of its work row.  A     *)
(* head ends when a handoff_superseded event names it, and any session may *)
(* post such an event: the reader decides which of them to trust.  An      *)
(* audit_request to another lane also opens a request_consumption row that *)
(* ends with the next event of that lane on the row.  Maintenance verbs    *)
(* retire requests nobody will answer, from a manifest built beforehand.   *)
(***************************************************************************)
EXTENDS Integers, Sequences, FiniteSets

CONSTANTS
  HeadSession,   \* agent sessions
  HeadLane,      \* configured lanes
  HeadLaneOf,    \* the lane of each session
  HeadWork,      \* work rows
  FirstAssignee, \* the lane the rows are assigned to at first
  CanarySession, \* the session whose typed handoffs may be rolled back
  MaxHeadLog,    \* bound on the events that are not supersessions
  MaxPublic      \* bound on the supersessions sessions post themselves

ASSUME HeadAssumption ==
  /\ HeadLaneOf \in [HeadSession -> HeadLane]
  /\ CanarySession \in HeadSession
  /\ MaxHeadLog \in Nat /\ MaxPublic \in Nat

VARIABLES
  hlog,      \* events but handoff_superseded: [kind, by, to, work]
  hsup,      \* handoff_superseded events: [prior, by, author, from]
  unread,    \* request events whose request_consumption row is not consumed
  hrow,      \* work_items: [assignee, terminal]
  manifest   \* the retirement manifest an operator prepared, or NoManifest

headVars == <<hlog, hsup, unread, hrow, manifest>>

NoManifest == [req |-> 0, reason |-> "none", terminal |-> FALSE, open |-> {}]

HeadInit ==
  /\ hlog = << >> /\ hsup = {} /\ unread = {}
  /\ hrow = [w \in HeadWork |-> [assignee |-> FirstAssignee, terminal |-> FALSE]]
  /\ manifest = NoManifest

-----------------------------------------------------------------------------
(* The reader of the log.                                                  *)

HeadIds == 1..Len(hlog)
Candidates(w) ==
  {i \in HeadIds : hlog[i].work = w /\ hlog[i].kind \in {"handoff", "typed", "reassign", "request"}}

\* Mutant: a supersession may point backwards.
TrustedAnyOrder(x) ==
  LET b == hlog[x.by] IN
  /\ b.kind \in {"handoff", "typed", "reassign", "request", "verdict", "moot", "retired", "rollback"}
  /\ x.author = b.by

\* _typed_handoff_head_state_unlocked: the forms of a supersession a reader
\* trusts.  Only the code's own writers can set trust = system.
HeadTrusted(x) == hlog[x.by].kind \in {"handoff", "typed", "request"}
OperatorTrusted(x) == hlog[x.by].kind = "reassign" /\ x.from = "system"
VerdictTrusted(x) == hlog[x.by].kind = "verdict" /\ hlog[x.prior].kind = "request"
\* _policy_moot_request_retirement_is_valid_unlocked
MootTrusted(x) ==
  hlog[x.by].kind = "moot" /\ hlog[x.prior].kind = "request" /\ x.from = "system"
\* _audit_request_retirement_is_valid_unlocked
RetirementTrusted(x) ==
  hlog[x.by].kind = "retired" /\ hlog[x.prior].kind = "request" /\ x.from = "system"
\* _typed_handoff_canary_rollback_is_valid_unlocked
RollbackTrusted(x) ==
  /\ hlog[x.by].kind = "rollback" /\ x.from = "system"
  /\ hlog[x.prior].kind = "typed" /\ hlog[x.prior].by = CanarySession
Trusted(x) ==
  /\ x.prior < x.by
  /\ x.author = hlog[x.by].by
  /\ \/ HeadTrusted(x) \/ OperatorTrusted(x) \/ VerdictTrusted(x)
     \/ MootTrusted(x) \/ RetirementTrusted(x) \/ RollbackTrusted(x)

Superseded(w) == {x.prior : x \in {y \in hsup : hlog[y.prior].work = w /\ Trusted(y)}}
ActiveHeads(w) == Candidates(w) \ Superseded(w)

\* open_audit_request_summary: not consumed and not superseded.
OpenRequests ==
  {i \in unread : hlog[i].kind = "request" /\ i \notin Superseded(hlog[i].work)}

-----------------------------------------------------------------------------
(* Writers.                                                                *)

NewId == Len(hlog) + 1
Room == Len(hlog) < MaxHeadLog
EventOn(k, s, l, w) == [kind |-> k, by |-> s, to |-> l, work |-> w]
Supersedes(H, e, writer) ==
  {[prior |-> h, by |-> NewId, author |-> e.by, from |-> writer] : h \in H}

\* Every event of a lane on a row consumes the requests waiting for it there.
Consumed(s, w) ==
  {i \in unread : hlog[i].work = w /\ hlog[i].to = HeadLaneOf[s]}

\* post_event: a note, a verdict in the old form, a request or a plain handoff.
\* A request supersedes every active head and waits for its recipient.
PostNote(s, w, k) ==
  /\ Room
  /\ hlog' = Append(hlog, EventOn(k, s, "none", w))
  /\ unread' = unread \ Consumed(s, w)
  /\ UNCHANGED <<hsup, hrow, manifest>>

PostRequest(s, l, w) ==
  LET e == EventOn("request", s, l, w) IN
  /\ Room
  /\ hlog' = Append(hlog, e)
  /\ hsup' = hsup \cup Supersedes(ActiveHeads(w), e, "agent")
  /\ unread' = (unread \ Consumed(s, w)) \cup {NewId}
  /\ UNCHANGED <<hrow, manifest>>

PostPlainHandoff(s, l, w) ==
  /\ Room
  /\ hlog' = Append(hlog, EventOn("handoff", s, l, w))
  /\ unread' = (unread \ Consumed(s, w)) \cup {NewId}
  /\ UNCHANGED <<hsup, hrow, manifest>>

\* post_event(kind="handoff_superseded"): any session, any head and event of
\* the row.  One addressed differently from its successor is never trusted.
PostSupersession(s, p, b) ==
  LET w == hlog[p].work
      x == [prior |-> p, by |-> b, author |-> s, from |-> "post"] IN
  /\ x \notin hsup /\ Cardinality({y \in hsup : y.from = "post"}) < MaxPublic
  /\ p \in Candidates(w) /\ hlog[b].work = w
  /\ hsup' = hsup \cup {x}
  /\ unread' = unread \ Consumed(s, w)
  /\ UNCHANGED <<hlog, hrow, manifest>>

\* post_existing_work_handoff: by the assignee, against the heads it expected,
\* never over another session's claim.  Every active head ends with it.
TypedRequest(s, l, w) ==
  /\ HeadLaneOf[s] # l
  /\ hrow[w].assignee = HeadLaneOf[s]
TypedHandoff(s, l, w) ==
  LET e == EventOn("typed", s, l, w) IN
  /\ Room
  /\ TypedRequest(s, l, w) /\ ~hrow[w].terminal
  /\ hlog' = Append(hlog, e)
  /\ hsup' = hsup \cup Supersedes(ActiveHeads(w), e, "agent")
  /\ hrow' = [hrow EXCEPT ![w].assignee = l]
  /\ UNCHANGED <<unread, manifest>>

\* post_operator_reassignment: written with the system's trust, against the
\* row and the heads its operator saw, and to another lane than the row's.
OperatorRequest(l, w) == hrow[w].assignee # l
Reassignable(w) == ~hrow[w].terminal
OperatorReassignment(l, w) ==
  LET e == EventOn("reassign", "operator", l, w) IN
  /\ Room
  /\ OperatorRequest(l, w) /\ Reassignable(w)
  /\ hlog' = Append(hlog, e)
  /\ hsup' = hsup \cup Supersedes(ActiveHeads(w), e, "system")
  /\ hrow' = [hrow EXCEPT ![w].assignee = l]
  /\ UNCHANGED <<unread, manifest>>

\* _post_typed_handoff_canary_rollback_unlocked: takes back the canary's typed
\* handoff while it is the only head and the row is as it left it.  Putting the
\* row back is the business of the transaction around it.
CanaryStands(h, w) ==
  /\ hlog[h].kind = "typed" /\ hlog[h].by = CanarySession
  /\ hrow[w] = [assignee |-> hlog[h].to, terminal |-> FALSE]
  /\ ActiveHeads(w) = {h}
CanaryRollback(h, w) ==
  LET e == EventOn("rollback", CanarySession, HeadLaneOf[CanarySession], w) IN
  /\ Room
  /\ CanaryStands(h, w)
  /\ hlog' = Append(hlog, e)
  /\ hsup' = hsup \cup Supersedes({h}, e, "system")
  /\ UNCHANGED <<unread, hrow, manifest>>

\* post_audit_verdict: answers the active requests, consumes nothing, and a
\* negative one puts the row back to work.
PostVerdict(s, w, negative) ==
  LET e == EventOn("verdict", s, "none", w)
      asked == {h \in ActiveHeads(w) : hlog[h].kind = "request"} IN
  /\ Room
  /\ hlog' = Append(hlog, e)
  /\ hsup' = hsup \cup Supersedes(asked, e, "agent")
  /\ hrow' = [hrow EXCEPT ![w].terminal = @ /\ ~negative]
  /\ UNCHANGED <<unread, manifest>>

\* close_review_as_policy_moot: a row as its packet describes it, that no event
\* has touched since.
PolicyMoot(w) == ~hrow[w].terminal
ClosePolicyMoot(w) ==
  LET e == EventOn("moot", "system", "none", w)
      asked == {h \in ActiveHeads(w) : hlog[h].kind = "request"} IN
  /\ Room
  /\ PolicyMoot(w)
  /\ hlog' = Append(hlog, e)
  /\ hsup' = hsup \cup Supersedes(asked, e, "system")
  /\ unread' = unread \ asked
  /\ hrow' = [hrow EXCEPT ![w].terminal = TRUE]
  /\ UNCHANGED manifest

\* The row is finished or, by upsert_work, put back to work.
FlipTerminal(w) ==
  /\ hrow' = [hrow EXCEPT ![w].terminal = ~@]
  /\ UNCHANGED <<hlog, hsup, unread, manifest>>

-----------------------------------------------------------------------------
(* Retiring requests nobody will answer.                                   *)

\* What build_audit_request_retirement_manifest demands of a request.
Retirable(r, reason) ==
  /\ r \in unread /\ hlog[r].kind = "request"
  /\ r \in ActiveHeads(hlog[r].work)
  /\ CASE reason = "answered" ->
            \E i \in HeadIds : i > r /\ hlog[i].work = hlog[r].work
                               /\ hlog[i].kind \in {"old_verdict", "verdict"}
       [] reason = "withdrawn" ->
            \E i \in HeadIds : i > r /\ hlog[i].work = hlog[r].work
                               /\ hlog[i].kind = "note"
                               /\ HeadLaneOf[hlog[i].by] = HeadLaneOf[hlog[r].by]
       [] OTHER -> hrow[hlog[r].work].terminal

ManifestOf(r, reason) ==
  [req |-> r, reason |-> reason, terminal |-> hrow[hlog[r].work].terminal,
   open |-> OpenRequests]

BuildManifest(r, reason) ==
  /\ manifest = NoManifest
  /\ Retirable(r, reason)
  /\ manifest' = ManifestOf(r, reason)
  /\ UNCHANGED <<hlog, hsup, unread, hrow>>

\* retire_zombie_audit_requests builds the manifest again inside its
\* transaction: any difference, and nothing is retired.
ManifestCurrent ==
  /\ Retirable(manifest.req, manifest.reason)
  /\ manifest = ManifestOf(manifest.req, manifest.reason)

RetireRequest ==
  LET r == manifest.req
      e == EventOn("retired", "system", hlog[r].to, hlog[r].work) IN
  /\ manifest # NoManifest /\ Room
  /\ ManifestCurrent
  /\ hlog' = Append(hlog, e)
  /\ hsup' = hsup \cup Supersedes({r}, e, "system")
  /\ unread' = unread \ {r}
  /\ manifest' = NoManifest
  /\ UNCHANGED <<hrow>>

HeadNext ==
  \/ \E s \in HeadSession, w \in HeadWork :
       \/ \E k \in {"note", "old_verdict"} : PostNote(s, w, k)
       \/ \E l \in HeadLane \ {HeadLaneOf[s]} :
            PostRequest(s, l, w) \/ PostPlainHandoff(s, l, w) \/ TypedHandoff(s, l, w)
       \/ \E n \in BOOLEAN : PostVerdict(s, w, n)
  \/ \E s \in HeadSession, p \in HeadIds, b \in HeadIds : PostSupersession(s, p, b)
  \/ \E w \in HeadWork :
       ClosePolicyMoot(w) \/ FlipTerminal(w) \/ \E l \in HeadLane : OperatorReassignment(l, w)
  \/ \E w \in HeadWork, h \in HeadIds : CanaryRollback(h, w)
  \/ \E r \in unread, reason \in {"answered", "withdrawn", "terminal"} : BuildManifest(r, reason)
  \/ RetireRequest

HeadSpec == HeadInit /\ [][HeadNext]_headVars

-----------------------------------------------------------------------------
(* What the log promises its readers.                                      *)

\* The newest head of a row stands until it is answered, retired or, by the
\* session that posted it, rolled back: whatever
\* supersessions sessions post, and in whatever order, none of them hides the
\* assignment or the request that came last.
NewestHeadStands(w) ==
  \A h \in Candidates(w) :
    (\A i \in Candidates(w) : i <= h) =>
      \/ h \in ActiveHeads(w)
      \/ /\ hlog[h].kind = "request"
         /\ \E i \in HeadIds : i > h /\ hlog[i].work = w
                               /\ hlog[i].kind \in {"verdict", "moot", "retired"}
      \/ /\ hlog[h].kind = "typed"
         /\ \E i \in HeadIds : i > h /\ hlog[i].work = w
                               /\ hlog[i].kind = "rollback" /\ hlog[i].by = hlog[h].by

\* A head only ends in a step that adds a real event to its row, or by a
\* supersession of the session whose own later event takes its place.
HeadEndsForCause ==
  [][\A w \in HeadWork : \A h \in ActiveHeads(w) :
       (h \notin ActiveHeads(w)') =>
         \/ hlog' # hlog /\ hlog'[Len(hlog')].work = w
         \/ \E x \in hsup' \ hsup : x.prior = h /\ x.author = hlog[x.by].by /\ h < x.by]_headVars

\* A request leaves the recipient's list only through an event on its row, and
\* a retirement drops no request but its own, and only for a cause that holds
\* at that moment: the row is over, or a verdict or the requester's note
\* followed the request.
RequestDroppedForCause ==
  [][\A r \in OpenRequests : r \notin OpenRequests' =>
       \/ hlog' = hlog /\ \E x \in hsup' \ hsup : hlog[x.prior].work = hlog[r].work
       \/ /\ hlog' # hlog
          /\ hlog'[Len(hlog')].work = hlog[r].work
          /\ hlog'[Len(hlog')].kind = "retired" =>
               \/ hrow[hlog[r].work].terminal
               \/ \E i \in HeadIds : i > r /\ hlog[i].work = hlog[r].work
                                     /\ hlog[i].kind \in {"note", "verdict", "old_verdict"}]_headVars

\* A head stands until something real ends it: the newest is never hidden by
\* an older one, none ends without an event or a later one of its author, and
\* no request leaves the recipient's list without a cause
\* (_typed_handoff_head_state_unlocked, the retirement of stale requests).
HeadsStand ==
  [](\A w \in HeadWork : NewestHeadStands(w)) /\ HeadEndsForCause /\ RequestDroppedForCause
=============================================================================
