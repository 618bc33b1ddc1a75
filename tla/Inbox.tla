------------------------------- MODULE Inbox -------------------------------
(***************************************************************************)
(* The mailbox of coord/coord_db.py: messages about one work row, a read   *)
(* cursor per reader, the requests a lane owes an answer to, and the       *)
(* reaper's escalation of overdue requests (coord/reaper.py).              *)
(*                                                                         *)
(* The inbox tool of coord/mcp_coord_server.py reads a page and moves the  *)
(* cursor in two transactions: messages arrive in between.                 *)
(***************************************************************************)
EXTENDS Integers, Sequences, FiniteSets

CONSTANTS
  MailLane,      \* configured lanes
  MailSession,   \* agent sessions
  MailLaneOf,    \* the lane of each session
  Reader,        \* keys of inbox_cursors: a session, or a lane as a whole
  LegacyLanes,   \* lanes that may have an old request to themselves
  PageLimit,     \* the limit of an inbox read
  EscalationCap, \* escalations per reaper pass
  MaxMail,       \* bound on the messages agents post
  MaxMailTime    \* bound on the clock, in units of the requests' SLA

ASSUME InboxAssumption ==
  /\ MailLaneOf \in [MailSession -> MailLane]
  /\ LegacyLanes \subseteq MailLane
  /\ Reader \subseteq MailLane \cup MailSession
  /\ PageLimit \in Nat \ {0} /\ EscalationCap \in Nat \ {0}
  /\ MaxMail \in Nat /\ MaxMailTime \in Nat

VARIABLES
  mail,      \* events: [kind, from, to, at, req, mult]
  waiting,   \* requests whose request_consumption row is not consumed
  live,      \* sessions with an active row and an unexpired lease
  cursor,    \* inbox_cursors.last_seen_event_id of each reader
  page,      \* the page an inbox call has read and will acknowledge
  mailNow,   \* the database clock
  shown,     \* every event a reader was shown
  skimmed    \* readers that were given a newest-first or a filtered page

inboxVars == <<mail, waiting, live, cursor, page, mailNow, shown, skimmed>>

LaneOf(r) == IF r \in MailLane THEN r ELSE MailLaneOf[r]

\* A message: its sender's lane, its selector ("all" is NULL), its time, and
\* for an escalation the request it is about and the multiple of its SLA.
Message(k, l, to, n, m) ==
  [kind |-> k, from |-> l, to |-> to, at |-> mailNow, req |-> n, mult |-> m]

InboxInit ==
  /\ mailNow = 0
  /\ \/ mail = << >> /\ waiting = {}
     \/ \E l \in LegacyLanes :
          mail = <<Message("handoff", l, l, 0, 0)>> /\ waiting = {1}
  /\ live = MailSession
  /\ cursor = [r \in Reader |-> 0]
  /\ page = [r \in Reader |-> {}]
  /\ shown = [r \in Reader |-> {}]
  /\ skimmed = {}

MailIds == 1..Len(mail)
Kind(K) == {i \in MailIds : mail[i].kind \in K}
RoomInMail == Len(mail) - Cardinality(Kind({"escalation", "reclassified"})) < MaxMail

-----------------------------------------------------------------------------
(* Posting.                                                                *)

\* post_note: one insert, checked against a live session when it names one.
\* Nobody reads its author again.
PostNoteTo(to) ==
  /\ RoomInMail
  /\ to \in MailSession => to \in live
  /\ mail' = Append(mail, Message("note", "any", to, 0, 0))
  /\ UNCHANGED <<waiting, live, cursor, page, mailNow, shown, skimmed>>

\* post_event: the lane's event answers what waited for the lane, and a
\* request to another lane waits for that one.
PostMail(l, k, to) ==
  /\ RoomInMail
  /\ mail' = Append(mail, Message(k, l, to, 0, 0))
  /\ waiting' = {i \in waiting : mail[i].to # l}
                \cup {i \in {Len(mail) + 1} : k \in {"handoff", "audit_request"} /\ to # l}
  /\ UNCHANGED <<live, cursor, page, mailNow, shown, skimmed>>

\* post_audit_verdict: broadcast, and it consumes nothing.
PostVerdictMail(l) ==
  /\ RoomInMail
  /\ mail' = Append(mail, Message("audit_verdict", l, "all", 0, 0))
  /\ UNCHANGED <<waiting, live, cursor, page, mailNow, shown, skimmed>>

\* A session ends, its lease lapses, or it registers again.
SessionFlips(s) ==
  /\ live' = IF s \in live THEN live \ {s} ELSE live \cup {s}
  /\ UNCHANGED <<mail, waiting, cursor, page, mailNow, shown, skimmed>>

MailTick ==
  /\ mailNow < MaxMailTime
  /\ mailNow' = mailNow + 1
  /\ UNCHANGED <<mail, waiting, live, cursor, page, shown, skimmed>>

-----------------------------------------------------------------------------
(* Reading.                                                                *)

Selectors(r) == {r, LaneOf(r)}
Unread(r, legs) == {i \in MailIds : i > cursor[r] /\ mail[i].to \in legs}

\* Mutant: a reader that names its session loses the broadcast leg.
PageForSession(r, newest, directed) ==
  LET ids == Unread(r, Selectors(r) \cup
                       (IF directed \/ r \in MailSession THEN {} ELSE {"all"})) IN
  {i \in ids : Cardinality({j \in ids : IF newest THEN j > i ELSE j < i}) < PageLimit}
\* read_inbox: the directed and the broadcast leg past the cursor, cut to the
\* limit from the end the caller asked for.
PageOf(r, newest, directed) ==
  LET ids == Unread(r, Selectors(r) \cup (IF directed THEN {} ELSE {"all"})) IN
  {i \in ids : Cardinality({j \in ids : IF newest THEN j > i ELSE j < i}) < PageLimit}

\* _tool_inbox up to its acknowledgement.
ReadInbox(r, newest, directed) ==
  LET ids == PageOf(r, newest, directed) IN
  /\ page[r] = {} /\ ids # {}
  /\ page' = [page EXCEPT ![r] = ids]
  /\ shown' = [shown EXCEPT ![r] = @ \cup ids]
  /\ skimmed' = IF newest \/ directed THEN skimmed \cup {r} ELSE skimmed
  /\ UNCHANGED <<mail, waiting, live, cursor, mailNow>>

\* The newest event of the page, which is not its last when newest come first.
AckedThrough(r) == CHOOSE i \in page[r] : \A j \in page[r] : j <= i

\* advance_cursor: never backwards, and the requests the lane has passed are
\* consumed, whichever of its sessions read.
AdvanceCursor(r) ==
  /\ page[r] # {}
  /\ cursor' = [cursor EXCEPT ![r] = IF AckedThrough(r) > @ THEN AckedThrough(r) ELSE @]
  /\ waiting' = {i \in waiting : mail[i].to # LaneOf(r) \/ i > AckedThrough(r)}
  /\ page' = [page EXCEPT ![r] = {}]
  /\ UNCHANGED <<mail, live, mailNow, shown, skimmed>>

\* The call did not ask for an acknowledgement, or died before it.
NoAck(r) ==
  /\ page[r] # {}
  /\ page' = [page EXCEPT ![r] = {}]
  /\ UNCHANGED <<mail, waiting, live, cursor, mailNow, shown, skimmed>>

-----------------------------------------------------------------------------
(* The reaper's pass over the requests.                                    *)

\* reclassify_self_directed_requests: a lane owes itself no answer.
SelfDirected == {i \in waiting : mail[i].from = mail[i].to}

AnsweredByVerdict(i) ==
  /\ mail[i].kind = "audit_request"
  /\ \E v \in Kind({"audit_verdict"}) : v > i /\ mail[v].from = mail[i].to

Multiple(i) == IF mailNow - mail[i].at >= 2 THEN 2 ELSE mailNow - mail[i].at
Escalated(i, m) == \E e \in Kind({"escalation"}) : mail[e].req = i /\ mail[e].mult = m
Overdue == {i \in waiting \ SelfDirected : ~AnsweredByVerdict(i) /\ Multiple(i) > 0}

\* Mutant: the cap counts every overdue row.
CapOnRows ==
  {i \in Overdue : /\ ~Escalated(i, Multiple(i))
                   /\ Cardinality({j \in Overdue : j < i}) < EscalationCap}
\* evaluate_request_slas: in order of age, each multiple once by its
\* idempotency key; the cap counts what was really posted.
DueEscalations ==
  LET fresh == {i \in Overdue : ~Escalated(i, Multiple(i))} IN
  {i \in fresh : Cardinality({j \in fresh : j < i}) < EscalationCap}

\* The events of a set in order of age.
Nth(S, k) == CHOOSE i \in S : Cardinality({j \in S : j < i}) = k - 1

EvaluateRequestSlas ==
  LET note == IF SelfDirected = {} THEN << >>
              ELSE <<Message("reclassified", "system", "all", 0, 0)>>
      escalation(i) == Message("escalation", "system", mail[i].to, i, Multiple(i)) IN
  /\ mail' = mail \o note \o
       [k \in 1..Cardinality(DueEscalations) |-> escalation(Nth(DueEscalations, k))]
  /\ waiting' = waiting \ SelfDirected
  /\ UNCHANGED <<live, cursor, page, mailNow, shown, skimmed>>

InboxNext ==
  \/ \E to \in MailLane \cup MailSession \cup {"all"} : PostNoteTo(to)
  \/ \E l \in MailLane :
       \/ \E k \in {"handoff", "audit_request"}, to \in MailLane : PostMail(l, k, to)
       \/ PostVerdictMail(l)
  \/ \E s \in MailSession : SessionFlips(s)
  \/ \E r \in Reader :
       \/ \E newest, directed \in BOOLEAN : ReadInbox(r, newest, directed)
       \/ AdvanceCursor(r)
       \/ NoAck(r)
  \/ MailTick
  \/ EvaluateRequestSlas

\* The reaper runs on a timer; nobody is obliged to read or to answer.
InboxFairness == WF_inboxVars(EvaluateRequestSlas)

InboxSpec == InboxInit /\ [][InboxNext]_inboxVars /\ InboxFairness

-----------------------------------------------------------------------------
(* What the mailbox promises.                                              *)

\* The cursor stands on an event its reader was shown, so nothing that arrived
\* after a read is acknowledged by it; and a reader that drains in queue order
\* was shown every message addressed to it that its cursor has passed.
AckedMeansShown ==
  \A r \in Reader :
    /\ cursor[r] \in shown[r] \cup {0}
    /\ r \notin skimmed =>
         \A i \in 1..cursor[r] : mail[i].to \in Selectors(r) \cup {"all"} => i \in shown[r]

\* An escalation is about a request that waits for its lane at that moment and
\* has no verdict of the lane, and each multiple of the SLA is posted once.
EscalationIsDue ==
  [][\A e \in DOMAIN mail' \ DOMAIN mail :
       mail'[e].kind = "escalation" =>
         LET i == mail'[e].req IN
         /\ i \in waiting' /\ mail[i].from # mail[i].to
         /\ ~AnsweredByVerdict(i)
         /\ ~Escalated(i, mail'[e].mult)]_inboxVars

\* However many older requests are overdue, a request that stays overdue is
\* escalated: the cap of a pass delays it but cannot starve it.
OverdueIsEscalated ==
  \A i \in 1..MaxMail :
    (i \in MailIds /\ i \in Overdue) ~>
      (i \notin Overdue \/ Escalated(i, 1) \/ Escalated(i, 2))

\* A request that waits past its SLA is escalated, each multiple once and only
\* while it waits (evaluate_request_slas).
RequestsEscalate == EscalationIsDue /\ OverdueIsEscalated
=============================================================================
