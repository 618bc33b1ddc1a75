---------------------------- MODULE CockpitRows -----------------------------
(***************************************************************************)
(* The native cockpit: the operator's transfer of a row, and the grouping of *)
(* rows by chat.                                                           *)
(***************************************************************************)
EXTENDS Integers, FiniteSets

-----------------------------------------------------------------------------
(***************************************************************************)
(* A row of the native cockpit and the operator's transfer of it:          *)
(* coord/native_cockpit.py, board/server.py (native_operator_action) and   *)
(* coord_db.post_operator_reassignment.                                    *)
(*                                                                         *)
(* The projection reads the row and, in later statements, its heads, its   *)
(* claims and its runs; it offers a transfer and publishes the version,    *)
(* the assignee and the heads the operator's click sends back.  The row    *)
(* moves on meanwhile, the answer may be lost and the click repeated.      *)
(***************************************************************************)

CONSTANTS
  TransferLane,   \* configured lanes
  ActionId,       \* action ids of clicks
  MaxRowVersion   \* bound on the row's version

ASSUME CockpitAssumption == MaxRowVersion \in Nat /\ {"building", "face"} \cap ActionId = {}

VARIABLES
  crow,     \* the work row, with its heads, claim and runs
  building, \* a refresh: what it has read
  face,     \* the published row
  clicks,   \* requests sent: action id -> what the click carried
  applied,  \* action ids with an event
  answer,   \* the last answer of the server
  writes,   \* [face, server]: where COORD_NATIVE_OPERATOR_WRITES is set up
  outdated  \* ghost: the copies of the row that it has moved on from

cockpitVars == <<crow, building, face, clicks, applied, answer, writes, outdated>>

NotBuilding == [stage |-> "idle"]
NoFace == [offered |-> FALSE]
NoAnswer == [to |-> "none", said |-> "none"]

CockpitInit ==
  /\ crow = [ver |-> 0, lane |-> "claude", head |-> 0, over |-> "no", claim |-> FALSE,
             run |-> FALSE, artifact |-> FALSE]
  /\ building = NotBuilding /\ face = NoFace
  /\ clicks = << >> /\ applied = {} /\ answer = NoAnswer
  /\ writes \in [face : BOOLEAN, server : BOOLEAN]
  /\ outdated = {}

Copies == {"building", "face"} \cup ActionId
\* A copy made from another is as old as that one.
CopiedFrom(src, dst) ==
  outdated' = IF src \in outdated THEN outdated \cup {dst} ELSE outdated \ {dst}

-----------------------------------------------------------------------------
(* The row moves.                                                          *)

Moves(r) ==
  /\ r.ver <= MaxRowVersion
  /\ crow' = r /\ outdated' = Copies
  /\ UNCHANGED <<building, face, clicks, applied, answer, writes>>

\* A claim is taken, and ends or lapses; lapsing writes nothing to the row.
ClaimTaken == ~crow.claim /\ crow.over = "no" /\ Moves([crow EXCEPT !.claim = TRUE, !.ver = @ + 1])
ClaimGone == crow.claim /\ \E n \in {0, 1} : Moves([crow EXCEPT !.claim = FALSE, !.ver = @ + n])
\* A run is opened and closed beside the row.
RunFlips == Moves([crow EXCEPT !.run = ~@])
\* An artifact is recorded, or the proof the row names appears.
ProofAppears == ~crow.artifact /\ Moves([crow EXCEPT !.artifact = TRUE])
\* An agent hands the row to another lane: new head, new version.
AgentHandsOff(l) ==
  /\ l # crow.lane /\ crow.over = "no"
  /\ Moves([crow EXCEPT !.lane = l, !.claim = FALSE, !.head = @ + 1, !.ver = @ + 1])
\* The row is finished, or ends failed.
RowEnds(how) == crow.over = "no" /\ Moves([crow EXCEPT !.over = how, !.claim = FALSE, !.ver = @ + 1])

-----------------------------------------------------------------------------
(* The projection.                                                         *)

\* board_rows: the row's columns and its artifact.
ReadsRow ==
  /\ building = NotBuilding
  /\ building' = [stage |-> "row", at |-> crow] /\ outdated' = outdated \ {"building"}
  /\ UNCHANGED <<crow, face, clicks, applied, answer, writes>>

\* _assignment_projection_state: heads, live claims and runs.
ReadsAssignment ==
  /\ building.stage = "row"
  /\ building' = [stage |-> "state", at |-> building.at, head |-> crow.head,
                  claim |-> crow.claim, run |-> crow.run]
  /\ UNCHANGED <<crow, face, clicks, applied, answer, writes, outdated>>

\* Mutant: a run beside the row is overlooked.
OffersRunning(b) == writes.face /\ b.at.over # "done" /\ ~b.at.artifact /\ ~b.claim
\* _transfer_disabled_reason: none of the reasons holds.  "failed" is not one
\* of _TERMINAL_TRANSFER_STATES.
Transferable(b) ==
  /\ writes.face
  /\ b.at.over # "done" /\ ~b.at.artifact
  /\ ~b.claim /\ ~b.run

\* _row_payload and the action rows, written in one transaction.
PublishesRow ==
  /\ building.stage = "state"
  /\ face' = [offered |-> Transferable(building), ver |-> building.at.ver,
              lane |-> building.at.lane, head |-> building.head]
  /\ building' = NotBuilding /\ CopiedFrom("building", "face")
  /\ UNCHANGED <<crow, clicks, applied, answer, writes>>

-----------------------------------------------------------------------------
(* The operator.                                                           *)

\* task.assign.<lane>, offered for another lane than the row's.
Clicks(a, l) ==
  /\ face.offered /\ l # face.lane
  /\ a \notin DOMAIN clicks
  /\ clicks' = [x \in DOMAIN clicks \cup {a} |-> IF x = a THEN [face |-> face, to |-> l] ELSE clicks[x]]
  /\ CopiedFrom("face", a)
  /\ UNCHANGED <<crow, building, face, applied, answer, writes>>

\* _native_operator_configuration of the board server's own process.
ServerTakesWrites == writes.server

\* The guards of post_operator_reassignment, in its transaction.
Acceptable(c) ==
  /\ crow.over = "no" /\ ~crow.artifact /\ ~crow.run
  /\ crow.ver = c.face.ver /\ crow.lane = c.face.lane /\ crow.head = c.face.head
  /\ ~crow.claim

\* _operator_reassignment_replay_unlocked: the receipt of the same request.
Replayed(a) == a \in applied

\* native_operator_action: a click, or the same click sent again.
ServerActs(a) ==
  LET c == clicks[a] IN
  /\ a \in DOMAIN clicks
  /\ IF ServerTakesWrites /\ ~Replayed(a) /\ Acceptable(c)
     THEN /\ c.face.ver < MaxRowVersion
          /\ crow' = [crow EXCEPT !.lane = c.to, !.head = @ + 1, !.ver = @ + 1]
          /\ applied' = applied \cup {a} /\ outdated' = Copies
          /\ answer' = [to |-> a, said |-> "applied"]
     ELSE /\ answer' = [to |-> a, said |-> CASE ~ServerTakesWrites -> "read-only"
                                             [] Replayed(a) -> "replayed"
                                             [] OTHER -> "refused"]
          /\ UNCHANGED <<crow, applied, outdated>>
  /\ UNCHANGED <<building, face, clicks, writes>>

CockpitNext ==
  \/ ClaimTaken \/ ClaimGone \/ RunFlips \/ ProofAppears
  \/ \E l \in TransferLane : AgentHandsOff(l)
  \/ \E how \in {"done", "failed"} : RowEnds(how)
  \/ ReadsRow \/ ReadsAssignment \/ PublishesRow
  \/ \E a \in ActionId, l \in TransferLane : Clicks(a, l)
  \/ \E a \in ActionId : ServerActs(a)

CockpitSpec == CockpitInit /\ [][CockpitNext]_cockpitVars

-----------------------------------------------------------------------------
(* Properties.                                                             *)

\* The button keeps its word: a transfer the cockpit offered is refused only if
\* the row moved after the refresh began to read it, or is a failed one, and a
\* transfer that was made is never refused to the click that repeats it.  The
\* reasons of _transfer_disabled_reason are those of post_operator_reassignment,
\* although the two lists are written and read apart.
OfferedIsHonoured ==
  [][\A a \in ActionId : (ServerActs(a) /\ answer'.said = "refused") =>
       /\ a \notin applied
       /\ a \in outdated \/ crow.over = "failed"]_cockpitVars

-----------------------------------------------------------------------------
(***************************************************************************)
(* Which chat a cockpit row belongs to: _apply_session_grouping of         *)
(* coord/native_cockpit.py.                                                *)
(*                                                                         *)
(* One chat may be registered under several session ids.  A session id, an *)
(* external thread and a parent are strong identities; a worktree only     *)
(* bridges when everything registered in it is one family already.         *)
(***************************************************************************)

CONSTANTS
  Chat,       \* session ids
  Thread,     \* external thread ids
  Worktree    \* worktree ids

ASSUME GroupAssumption == Chat # {} /\ Worktree \cap (Chat \cup Thread) = {}

VARIABLES
  registry,   \* agent_sessions: session id -> [parent, thread, tree]
  owners,     \* the sessions that own a row
  groups      \* the group of each owner's row, once computed

groupVars == <<registry, owners, groups>>

NoOne == "none"
Registered == DOMAIN registry

GroupInit ==
  /\ \E R \in SUBSET Chat :
       registry \in [R -> [parent : Chat \cup {NoOne}, thread : Thread \cup {NoOne},
                           tree : Worktree \cup {NoOne}]]
  /\ owners \in {Chat, {CHOOSE c \in Chat : TRUE}}
  /\ groups = << >>

-----------------------------------------------------------------------------
\* _session_identities of a registered session, and its parent.
StrongLinks ==
  UNION {{<<c, i>> : i \in {registry[c].parent, registry[c].thread} \ {NoOne}} : c \in Registered}

Strong == Chat \cup Thread
\* _IdentityUnion: each node's family, all that the links join it to.
LinkClosed(S, links) == \A l \in links : l[1] \in S <=> l[2] \in S
Families(nodes, links) ==
  LET closed == {S \in SUBSET nodes : LinkClosed(S, links)}
  IN [n \in nodes |-> {m \in nodes : \A S \in closed : n \in S => m \in S}]
SameFamily(c, d, families) == families[c] = families[d]

\* unique_worktree_roots: the sessions of a worktree are of one family.
Residents(t, strong) ==
  LET in == {c \in Registered : registry[c].tree = t}
  IN IF \A c, d \in in : SameFamily(c, d, strong) THEN in ELSE {}

TreeLinks(strong) == UNION {{<<t, c>> : c \in Residents(t, strong)} : t \in Worktree}

\* A row carries the thread of the session that owns it; v_work_owner has none
\* for a session that is not registered.
RowLinks ==
  UNION {{<<o, i>> : i \in {registry[o].thread} \ {NoOne}} : o \in owners \cap Registered}

\* _canonical: a root chat of the family, else a registered session, else any.
Roots == {c \in Registered : registry[c].parent = NoOne}
CanonicalOf(family) ==
  LET best == IF family \cap Roots # {} THEN family \cap Roots
              ELSE IF family \cap Registered # {} THEN family \cap Registered ELSE family
  IN CHOOSE c \in best : TRUE

ApplyGrouping ==
  LET strong == Families(Strong, StrongLinks)
      joined == Families(Strong \cup Worktree, StrongLinks \cup TreeLinks(strong) \cup RowLinks)
  IN /\ groups = << >>
     /\ groups' = [o \in owners |-> CanonicalOf(joined[o])]
     /\ UNCHANGED <<registry, owners>>

GroupNext == ApplyGrouping

GroupSpec == GroupInit /\ [][GroupNext]_groupVars

-----------------------------------------------------------------------------
(* Properties.                                                             *)

\* A worktree never gives one chat the rows of another: rows share a group only
\* if their sessions are one family by id, thread or parent, and a subagent
\* whose family has a root chat never heads a group
\* (_apply_session_grouping: "a worktree alone must never grant either chat the
\* other's group").
WorktreeNeverJoins ==
  groups # << >> =>
    LET strong == Families(Strong, StrongLinks)
    IN \A o, p \in DOMAIN groups :
         /\ groups[o] = groups[p] => SameFamily(o, p, strong)
         /\ (\E r \in Roots : SameFamily(o, r, strong)) => groups[o] \in Roots

\* The cockpit keeps its word on transfers and shows no chat the rows of
\* another.
CockpitKeepsWord == OfferedIsHonoured /\ []WorktreeNeverJoins
=============================================================================
