----------------------------- MODULE PostTools ------------------------------
(***************************************************************************)
(* The MCP tools that post (coord/mcp_coord_server.py): typed handoff,     *)
(* note, audit request, ruling and verdict.                                *)
(*                                                                         *)
(* Each client has a server process of its own.  An answer may be lost,    *)
(* then the client asks again with the same request; a handoff, a note and *)
(* a verdict are recognised by an idempotency key, the others are not.     *)
(***************************************************************************)
EXTENDS Integers, Sequences, FiniteSets

CONSTANTS
  Client, PostLane,  \* clients and the lane of each
  Wishes,            \* requests: [tool, by, op, text, to]; two may share a lane and an operation id
  MayDie,            \* sessions a note may name that may end
  MaxPosted, MaxRestart

\* A request is all of its arguments.
ASSUME PostAssumption ==
  \A w \in Wishes : w = [tool |-> w.tool, by |-> w.by, op |-> w.op, text |-> w.text, to |-> w.to]

VARIABLES
  posted,     \* events: [key, sha, wish]
  instance,   \* per client: instances its server process has had
  known,      \* per client: the instance the client last saw
  call,       \* per client: [pc, wish, version]
  pending,    \* per client: the wishes asked and not answered
  rowVersion, \* version of the work row
  blocking,   \* the mutable policy refuses
  gone,       \* sessions that ended
  answers,    \* ghost: <<wish, event>>
  turned      \* ghost: <<wish, why>> refused while its event is on record

postVars == <<posted, instance, known, call, pending, rowVersion, blocking, gone, answers, turned>>

Waiting == [pc |-> "idle", wish |-> << >>, version |-> 0]
PostInit ==
  /\ posted = << >> /\ instance = [c \in Client |-> 0] /\ known = instance
  /\ call = [c \in Client |-> Waiting] /\ pending = [c \in Client |-> << >>]
  /\ rowVersion = 0 /\ blocking = FALSE /\ gone = {} /\ answers = {} /\ turned = {}

-----------------------------------------------------------------------------
(* Keys.                                                                   *)

\* The key of a request, << >> when it has none.  A note's is the hash of all
\* of it, its selector included; the others name the lane and the operation.
Key(w) == CASE w.tool = "note" -> <<"mcp-note", w.by, w.op, w.text, w.to>>
            [] w.tool \in {"handoff", "verdict"} -> <<w.tool, PostLane[w.by], w.op>>
            [] OTHER -> << >>
\* _typed_handoff_request: the hash is over the caller and the expected version as well.
Sha(w, version) == <<w, version>>
Prior(w) == {e \in DOMAIN posted : Key(w) # << >> /\ posted[e].key = Key(w)}

\* Mutant: the operation id alone is the operation.
SameOperation(e, w, version) == posted[e].wish.op = w.op
\* _typed_handoff_replay_unlocked and its like: a key used for another request is refused.
SameRequest(e, w, version) == IF w.tool = "handoff" THEN posted[e].sha = Sha(w, version) ELSE posted[e].wish = w

OnRecord(w, version) == \E e \in DOMAIN posted : posted[e].key = Key(w) /\ posted[e].sha = Sha(w, version)

Answer(c, e) ==
  /\ answers' = answers \cup {<<call[c].wish, e>>}
  /\ call' = [call EXCEPT ![c] = [@ EXCEPT !.pc = "answer"]]
Refuse(c, why) ==
  LET w == call[c].wish IN
  /\ turned' = IF OnRecord(w, call[c].version) THEN turned \cup {<<w, why>>} ELSE turned
  /\ call' = [call EXCEPT ![c] = Waiting] /\ pending' = [pending EXCEPT ![c] = << >>]
  /\ UNCHANGED <<posted, instance, known, rowVersion, blocking, gone, answers>>

-----------------------------------------------------------------------------
(* The client and its server process.                                      *)

\* A new request names the version the client sees; a retry is the request again.
Ask(c, w) ==
  /\ call[c].pc = "idle" /\ w.by = c /\ pending[c] = << >>
  /\ call' = [call EXCEPT ![c] = [pc |-> "entry", wish |-> w, version |-> rowVersion]]
  /\ pending' = [pending EXCEPT ![c] = <<w, rowVersion>>]
  /\ UNCHANGED <<posted, instance, known, rowVersion, blocking, gone, answers, turned>>
Retry(c) ==
  /\ call[c].pc = "idle" /\ pending[c] # << >>
  /\ call' = [call EXCEPT ![c] = [pc |-> "entry", wish |-> pending[c][1], version |-> pending[c][2]]]
  /\ UNCHANGED <<posted, instance, known, pending, rowVersion, blocking, gone, answers, turned>>
Answered(c) ==
  /\ call[c].pc = "answer" /\ call' = [call EXCEPT ![c] = Waiting]
  /\ pending' = [pending EXCEPT ![c] = << >>]
  /\ UNCHANGED <<posted, instance, known, rowVersion, blocking, gone, answers, turned>>
\* The process dies with what it was doing and starts again under another id.
ServerRestarts(c) ==
  /\ instance[c] < MaxRestart /\ instance' = [instance EXCEPT ![c] = @ + 1]
  /\ call' = [call EXCEPT ![c] = Waiting]
  /\ UNCHANGED <<posted, known, pending, rowVersion, blocking, gone, answers, turned>>
\* orient tells the client the instance, the build and the profile.
Orient(c) ==
  /\ call[c].pc = "idle" /\ known[c] # instance[c] /\ known' = [known EXCEPT ![c] = instance[c]]
  /\ UNCHANGED <<posted, instance, call, pending, rowVersion, blocking, gone, answers, turned>>

-----------------------------------------------------------------------------
(* The steps of a tool.                                                    *)

Step(c, tools, pc) == call[c].pc = pc /\ call[c].wish.tool \in tools
Goto(c, pc) == call' = [call EXCEPT ![c].pc = pc]
Same == UNCHANGED <<posted, instance, known, pending, rowVersion, blocking, gone, turned>>

\* _validate_typed_handoff_transport_fence
Fenced(c) == known[c] = instance[c]

\* lookup_existing_work_handoff_replay comes before anything that may have changed.
EarlyReplay(c) == Prior(call[c].wish)

\* handoff_existing: the fence and the identity, then the replay, then the policy.
HandoffEnters(c) ==
  /\ Step(c, {"handoff"}, "entry")
  /\ IF ~Fenced(c) THEN Refuse(c, "fence")
     ELSE \/ EarlyReplay(c) = {} /\ Goto(c, "policy") /\ Same /\ UNCHANGED answers
          \/ \E e \in EarlyReplay(c) :
               IF SameRequest(e, call[c].wish, call[c].version) THEN Answer(c, e) /\ Same ELSE Refuse(c, "reused")

\* _tool_audit and _tool_verdict: the verdict's key is asked only when it is posted.
VerdictEnters(c) == Step(c, {"verdict"}, "entry") /\ Goto(c, "policy") /\ Same /\ UNCHANGED answers

\* _mcp_policy
PolicyRuns(c) ==
  /\ Step(c, {"handoff", "verdict"}, "policy")
  /\ IF blocking THEN Refuse(c, "policy") ELSE Goto(c, "post") /\ Same /\ UNCHANGED answers

Posts(c, bumps) ==
  LET w == call[c].wish IN
  /\ Len(posted) < MaxPosted
  /\ posted' = Append(posted, [key |-> Key(w), sha |-> Sha(w, call[c].version), wish |-> w])
  /\ rowVersion' = rowVersion + bumps
  /\ Answer(c, Len(posted) + 1)
  /\ UNCHANGED <<instance, known, pending, blocking, gone, turned>>

\* One transaction: replay, or for a handoff the expected version and the post.
KeyedPost(c) ==
  LET w == call[c].wish IN
  /\ Step(c, {"handoff", "verdict"}, "post")
  /\ \/ \E e \in Prior(w) : IF SameRequest(e, w, call[c].version) THEN Answer(c, e) /\ Same ELSE Refuse(c, "reused")
     \/ /\ Prior(w) = {}
        /\ IF w.tool = "handoff" /\ call[c].version # rowVersion THEN Refuse(c, "version")
           ELSE Posts(c, IF w.tool = "handoff" THEN 1 ELSE 0)

\* note: the session it names must be live, then the insert or the event of the same key.
NotePosts(c) ==
  LET w == call[c].wish IN
  /\ Step(c, {"note"}, "entry")
  /\ IF w.to \in gone THEN Refuse(c, "target")
     ELSE \/ Prior(w) = {} /\ Posts(c, 0)
          \/ \E e \in Prior(w) : Answer(c, e) /\ Same

\* request_audit of the standard kind: an event on a row the other lane does not own.
AuditRequestPosts(c) == Step(c, {"audit_request"}, "entry") /\ Posts(c, 0)
\* decision: a ruling, posted each time it is asked for.
DecisionPosts(c) == Step(c, {"decision"}, "entry") /\ Posts(c, 0)

-----------------------------------------------------------------------------

PolicyFlips == /\ blocking' = ~blocking
               /\ UNCHANGED <<posted, instance, known, call, pending, rowVersion, gone, answers, turned>>
TargetEnds(s) ==
  /\ gone' = gone \cup {s}
  /\ UNCHANGED <<posted, instance, known, call, pending, rowVersion, blocking, answers, turned>>

PostNext ==
  \/ \E c \in Client, w \in Wishes : Ask(c, w)
  \/ \E c \in Client :
       \/ Retry(c) \/ Answered(c) \/ ServerRestarts(c) \/ Orient(c)
       \/ HandoffEnters(c) \/ VerdictEnters(c) \/ PolicyRuns(c) \/ KeyedPost(c)
       \/ NotePosts(c) \/ AuditRequestPosts(c) \/ DecisionPosts(c)
  \/ PolicyFlips \/ \E s \in MayDie : TargetEnds(s)

PostSpec == PostInit /\ [][PostNext]_postVars

-----------------------------------------------------------------------------
(* Properties.                                                             *)

\* Whoever asks is told of the event of their own request, the sender of a
\* session and the text included, even when another session of the lane used
\* the same operation id or the same words for another addressee
\* (_typed_handoff_replay_unlocked, post_audit_verdict, _tool_note).
AnswerIsOwn == \A a \in answers : posted[a[2]].wish = a[1]

\* A handoff on record is never refused to the client that lost its answer,
\* whatever the row's version or the policy became since; only a server it
\* does not know yet turns it away (_tool_handoff_existing).
MadeIsNotRefused == \A t \in turned : t[1].tool = "handoff" => t[2] = "fence"

\* Whoever retries a call is answered about their own event and is not turned
\* away from what is on record.
RetryFindsItsOwn == AnswerIsOwn /\ MadeIsNotRefused
=============================================================================
