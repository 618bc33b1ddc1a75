----------------------------- MODULE ClaimTools -----------------------------
(***************************************************************************)
(* The MCP tools that claim, declare, renew and complete work, and the proof *)
(* a completion asks for.                                                  *)
(***************************************************************************)
EXTENDS Integers, FiniteSets, Sequences

-----------------------------------------------------------------------------
(***************************************************************************)
(* The MCP tools that work under a claim (coord/mcp_coord_server.py) and   *)
(* the write sets they declare (coord/work_contracts.py).                  *)
(*                                                                         *)
(* A tool is several transactions: it reads the row or the claim, decides  *)
(* on what it read, and writes; the database checks again what it can.     *)
(* ClaimLifecycle models the transactions in full; here a claim is its     *)
(* holder, its status and whether its lease has lapsed.                    *)
(***************************************************************************)

CONSTANTS
  Session,
  Row, Filed,  \* rows, and those of them that exist at the start
  WriteScope,  \* per session: the scopes it may declare
  Covers,      \* pairs of scopes of which one contains the other
  MaxClaimed, MayLapse   \* bounds: claims taken, and those of them whose lease may lapse

VARIABLES
  item,      \* per row: [exists, text, state]; text says that its fields are filled
  claimed,   \* claims in the order they were taken: [row, by, status, lapsed, excused, scopes];
             \* excused: the lease lapsed once, or no answer followed a declaration
  toolCall,  \* per session: the call under way
  told       \* pairs of claims an answer named as overlapping

toolVars == <<item, claimed, toolCall, told>>

Held == {"running", "paused", "blocked"}
NoCall == [pc |-> "idle", tool |-> "none", row |-> "none", claim |-> 0, seed |-> FALSE,
           scopes |-> {}, active |-> {}]
Claim == DOMAIN claimed

ToolInit ==
  /\ item = [w \in Row |-> [exists |-> w \in Filed, text |-> FALSE, state |-> "queued"]]
  /\ claimed = << >> /\ toolCall = [s \in Session |-> NoCall] /\ told = {}

\* Mutant: the overlaps are looked for before the set is declared.
LookFirst(pc) == CASE pc = "begin" -> "active" [] pc = "active" -> "sets" [] pc = "sets" -> "declare"
                   [] OTHER -> "idle"
\* The order of the steps: declare, then look.
StepAfter(pc) == CASE pc = "begin" -> "declare" [] pc = "declare" -> "active" [] pc = "active" -> "sets"
                   [] OTHER -> "idle"
Ended(s) == toolCall' = [toolCall EXCEPT ![s] = NoCall]

-----------------------------------------------------------------------------
(* claim.                                                                  *)

\* _born_complete_seed_fields and _fill_if_empty_fields over the row as read.
FillsEmpty(w, seed) == seed /\ ~item[w].text

\* _claim_quality_missing: a row without its fields is refused.
Ready(w, seed) == seed \/ item[w].text

\* The read half: identity, session, the row, its readiness, the policy.  A row
\* that does not exist is made by the claim when the call describes it.
ClaimReads(s, w, seed, scopes) ==
  /\ toolCall[s] = NoCall /\ (item[w].exists \/ seed) /\ Ready(w, seed)
  /\ toolCall' = [toolCall EXCEPT ![s] =
       [NoCall EXCEPT !.pc = "claim", !.row = w,
                      !.seed = FillsEmpty(w, seed), !.scopes = scopes]]
  /\ UNCHANGED <<item, claimed, told>>

\* The live claim on a row, if any; a lapsed one is released on the way.
Holding(w) == {c \in Claim : claimed[c].row = w /\ claimed[c].status \in Held /\ ~claimed[c].lapsed}
Swept(w) ==
  [c \in Claim |-> IF claimed[c].row = w /\ claimed[c].lapsed /\ claimed[c].status \in Held
                   THEN [claimed[c] EXCEPT !.status = "released"] ELSE claimed[c]]
Filled(s, w, state) ==
  [item EXCEPT ![w] = [exists |-> TRUE, text |-> @.text \/ toolCall[s].seed, state |-> state]]
AfterClaim(s, c) ==
  toolCall' = [toolCall EXCEPT ![s] =
    IF toolCall[s].scopes = {} THEN NoCall
    ELSE [NoCall EXCEPT !.pc = StepAfter("begin"), !.claim = c, !.scopes = toolCall[s].scopes]]

\* claim_work: the fields and the claim in one transaction.
ClaimCommits(s) ==
  LET w == toolCall[s].row IN
  /\ toolCall[s].pc = "claim"
  /\ \/ /\ Holding(w) = {} /\ item[w].state = "queued" /\ Len(claimed) < MaxClaimed
        /\ item' = Filled(s, w, "running")
        /\ claimed' = Append(Swept(w), [row |-> w, by |-> s, status |-> "running", lapsed |-> FALSE,
                                        excused |-> FALSE, scopes |-> {}])
        /\ AfterClaim(s, Len(claimed) + 1)
     \/ \E c \in Holding(w) :
          /\ claimed[c].by = s
          /\ item' = Filled(s, w, "running")
          /\ claimed' = [claimed EXCEPT ![c].status = "running"]
          /\ AfterClaim(s, c)
  /\ UNCHANGED told

\* The row is held, blocked or done: nothing is written but a conflict event.
ClaimRefused(s) ==
  LET w == toolCall[s].row IN
  /\ toolCall[s].pc = "claim"
  /\ IF Holding(w) = {} THEN item[w].state # "queued" ELSE \A c \in Holding(w) : claimed[c].by # s
  /\ Ended(s) /\ UNCHANGED <<item, claimed, told>>

-----------------------------------------------------------------------------
(* Write sets.                                                             *)

\* declare_write_set, the tool: for the holder only.
DeclareReads(s, c, scopes) ==
  /\ toolCall[s] = NoCall /\ c \in Claim /\ claimed[c].by = s
  /\ toolCall' = [toolCall EXCEPT ![s] =
       [NoCall EXCEPT !.pc = StepAfter("begin"), !.claim = c, !.scopes = scopes]]
  /\ UNCHANGED <<item, claimed, told>>

Goes(s, step, looked) ==
  toolCall' = [toolCall EXCEPT ![s] =
    IF StepAfter(step) = "idle" THEN NoCall ELSE [@ EXCEPT !.pc = StepAfter(step), !.active = looked]]

\* declare_write_set: the rows are added to those of the claim, whatever its status is by now.
Declares(s) ==
  /\ toolCall[s].pc = "declare"
  /\ claimed' = [claimed EXCEPT ![toolCall[s].claim].scopes = @ \cup toolCall[s].scopes]
  /\ Goes(s, "declare", toolCall[s].active) /\ UNCHANGED <<item, told>>

\* write_set_overlaps: the live claims, then the set of each.
LooksForActive(s) ==
  /\ toolCall[s].pc = "active"
  /\ Goes(s, "active", {c \in Claim : claimed[c].status \in Held /\ ~claimed[c].lapsed})
  /\ UNCHANGED <<item, claimed, told>>

Overlap(c, d) ==
  /\ claimed[c].by # claimed[d].by
  /\ \E x \in claimed[c].scopes, y \in claimed[d].scopes : x = y \/ <<x, y>> \in Covers \/ <<y, x>> \in Covers
LooksAtSets(s) ==
  /\ toolCall[s].pc = "sets"
  /\ LET own == toolCall[s].claim IN
     told' = told \cup {{own, d} : d \in {x \in toolCall[s].active \ {own} :
                                            own \in toolCall[s].active /\ Overlap(own, x)}}
  /\ Goes(s, "sets", toolCall[s].active) /\ UNCHANGED <<item, claimed>>

-----------------------------------------------------------------------------
(* heartbeat, release, park, block.                                        *)

\* _resolve_lifecycle_claim_row: by claim or by row, a held claim of the caller.
ResolveClaim(s, c, tool) ==
  /\ toolCall[s] = NoCall /\ c \in Claim /\ claimed[c].by = s /\ claimed[c].status \in Held
  /\ toolCall' = [toolCall EXCEPT ![s] = [NoCall EXCEPT !.pc = "act", !.tool = tool, !.claim = c]]
  /\ UNCHANGED <<item, claimed, told>>

\* heartbeat_claim renews, a lapsed lease too while nobody released it.
HeartbeatActs(s) ==
  LET c == toolCall[s].claim IN
  /\ toolCall[s].pc = "act" /\ toolCall[s].tool = "heartbeat"
  /\ claimed' = IF claimed[c].status = "running" THEN [claimed EXCEPT ![c].lapsed = FALSE] ELSE claimed
  /\ Ended(s) /\ UNCHANGED <<item, told>>

\* release_claim with the status of the tool; a claim that ended meanwhile is refused.
ReleaseActs(s) ==
  LET c == toolCall[s].claim  to == toolCall[s].tool IN
  /\ toolCall[s].pc = "act" /\ to \in {"released", "paused", "blocked"}
  /\ IF claimed[c].status \in Held
     THEN /\ claimed' = [claimed EXCEPT ![c].status = to]
          /\ item' = [item EXCEPT ![claimed[c].row].state = IF to = "released" THEN "queued" ELSE "blocked"]
     ELSE UNCHANGED <<claimed, item>>
  /\ Ended(s) /\ UNCHANGED told

\* recover_blocked: a blocked row without a live claim is queued again.
RecoverBlocked(s, w) ==
  /\ toolCall[s] = NoCall /\ item[w].state = "blocked" /\ Holding(w) = {}
  /\ item' = [item EXCEPT ![w].state = "queued"] /\ claimed' = Swept(w)
  /\ UNCHANGED <<toolCall, told>>

-----------------------------------------------------------------------------
(* Time, the reaper and the death of a server process.                     *)

LeaseLapses(c) ==
  /\ c \in MayLapse /\ claimed[c].status \in Held /\ ~claimed[c].lapsed
  /\ claimed' = [claimed EXCEPT ![c].lapsed = TRUE, ![c].excused = TRUE]
  /\ UNCHANGED <<item, toolCall, told>>
ReaperSweeps(c) ==
  /\ claimed[c].status = "running" /\ claimed[c].lapsed
  /\ claimed' = [claimed EXCEPT ![c].status = "released"]
  /\ item' = [item EXCEPT ![claimed[c].row].state = "queued"]
  /\ UNCHANGED <<toolCall, told>>
ServerDies(s) ==
  /\ toolCall[s] # NoCall /\ Ended(s)
  /\ claimed' = IF toolCall[s].scopes # {} /\ toolCall[s].claim # 0
                THEN [claimed EXCEPT ![toolCall[s].claim].excused = TRUE]
                ELSE claimed
  /\ UNCHANGED <<item, told>>

ToolNext ==
  \/ \E s \in Session, w \in Row, seed, scoped \in BOOLEAN :
       ClaimReads(s, w, seed, IF scoped THEN WriteScope[s] ELSE {})
  \/ \E s \in Session : \/ ClaimCommits(s) \/ ClaimRefused(s) \/ Declares(s) \/ LooksForActive(s)
                        \/ LooksAtSets(s) \/ HeartbeatActs(s) \/ ReleaseActs(s) \/ ServerDies(s)
  \/ \E s \in Session, c \in 1 .. MaxClaimed : DeclareReads(s, c, WriteScope[s])
  \/ \E s \in Session, c \in 1 .. MaxClaimed, tool \in {"heartbeat", "released", "paused", "blocked"} :
       ResolveClaim(s, c, tool)
  \/ \E s \in Session, w \in Row : RecoverBlocked(s, w)
  \/ \E c \in Claim : LeaseLapses(c) \/ ReaperSweeps(c)

ToolSpec == ToolInit /\ [][ToolNext]_toolVars

-----------------------------------------------------------------------------
(* Properties.                                                             *)

\* Of two sessions whose live claims declare overlapping writes one at least
\* was told, once neither has a call under way, although they declare at the
\* same time and the sets are read one by one (declare_write_set,
\* write_set_overlaps).  Excused are a claim whose lease lapsed, for the other
\* does not look at it then, and one whose server died before it answered.
OverlapIsTold ==
  \A c, d \in Claim :
    /\ Overlap(c, d) /\ {claimed[c].status, claimed[d].status} \subseteq Held
    /\ ~claimed[c].excused /\ ~claimed[d].excused
    /\ toolCall[claimed[c].by] = NoCall /\ toolCall[claimed[d].by] = NoCall
    => {c, d} \in told

-----------------------------------------------------------------------------
(***************************************************************************)
(* When a declared proof counts (jobs/status.py) and the complete tool that *)
(* asks (coord/mcp_coord_server.py).                                       *)
(*                                                                         *)
(* A proof is one or several files.  A file must be a real artifact, and   *)
(* unless its kind is exempt git must carry it.  What git carries is       *)
(* listed once per token of the index file and kept; a refused completion  *)
(* clears what was kept and tries once more.  The server runs one call at  *)
(* a time, the files and the index change under it.                        *)
(***************************************************************************)

CONSTANTS
  Cand,        \* the candidates of the declared signal
  Exempt,      \* those of a kind git cannot carry
  Named,       \* the candidate whose kind the signal as a whole ends in
  MaxToken     \* bound: times the token of the index changes

VARIABLES
  form,        \* per candidate: what the file is
  carried,     \* candidates in the index
  token,       \* stat of the index file
  kept,        \* token -> the listing kept under it
  asked,       \* the call: [pc, attempt, valid, token]
  outcome,     \* how the last call ended
  failed       \* ghost: candidates that at some moment of the call did not count

proofVars == <<form, carried, token, kept, asked, outcome, failed>>

\* A control record, a lock or a marker is never a proof, nor is a file with
\* two names; a sidecar counts when its job ended well and was not a trial.
Form == {"absent", "empty", "text", "partial", "control", "linked", "running", "finished", "trial"}
Job == {"running", "finished", "trial"}
Idle == [pc |-> "idle", attempt |-> 0, valid |-> {}, token |-> 0]

ProofInit ==
  /\ form = [c \in Cand |-> "absent"] /\ carried = {} /\ token = 0 /\ kept = << >>
  /\ asked = Idle /\ outcome = "none" /\ failed = {}

\* _valid_done_path: there, not empty, and not smaller than its kind can be.
ValidPath(f) == f \notin {"absent", "empty", "partial"}
\* _valid_completion_candidate
ValidForm(f) == ValidPath(f) /\ f \notin {"control", "linked"} /\ (f \in Job => f = "finished")
\* custody_requires_tracking
RequiresTracking(c) == c \notin Exempt
\* done_signal_custodied over a listing.
Custodied(valid, listing) == \E c \in valid : ~RequiresTracking(c) \/ c \in listing

Counts(c) == ValidForm(form'[c]) /\ (RequiresTracking(c) => c \in carried')
Watch == failed' = IF asked'.pc = "idle" THEN failed ELSE failed \cup {c \in Cand : ~Counts(c)}

-----------------------------------------------------------------------------
(* The files and the index.                                                *)

FileChanges(c, f) ==
  /\ f # form[c] /\ (form[c] \in Job => f \in Job) /\ form' = [form EXCEPT ![c] = f]
  /\ UNCHANGED <<carried, token, kept, asked, outcome>> /\ Watch
\* git add and git rm.  The token moves unless the index file cannot be read
\* and the clock stands for it, one second at a time.
IndexChanges(c, moves) ==
  /\ form[c] # "absent" /\ carried' = IF c \in carried THEN carried \ {c} ELSE carried \cup {c}
  /\ IF moves THEN token < MaxToken /\ token' = token + 1 ELSE UNCHANGED token
  /\ UNCHANGED <<form, kept, asked, outcome>> /\ Watch

-----------------------------------------------------------------------------
(* complete.                                                               *)

\* _tool_complete: the claim, the policy and the review request are ClaimLifecycle's.
CompleteBegins ==
  /\ asked.pc = "idle"
  /\ asked' = [Idle EXCEPT !.pc = "examine", !.attempt = 1] /\ outcome' = "none"
  /\ failed' = {c \in Cand : ~(ValidForm(form[c]) /\ (RequiresTracking(c) => c \in carried))}
  /\ UNCHANGED <<form, carried, token, kept>>

\* The candidates that are there (_done_signal_candidates).
Examine ==
  /\ asked.pc = "examine"
  /\ asked' = [asked EXCEPT !.pc = "token", !.valid = {c \in Cand : ValidForm(form[c])}]
  /\ UNCHANGED <<form, carried, token, kept, outcome>> /\ Watch

\* _git_index_token
ReadToken ==
  /\ asked.pc = "token" /\ asked' = [asked EXCEPT !.pc = "list", !.token = token]
  /\ UNCHANGED <<form, carried, token, kept, outcome>> /\ Watch

\* _git_tracked_files_at: kept under the token read before the listing.
Listing(t) == IF t \in DOMAIN kept THEN kept[t] ELSE carried
Keeps(t) == kept' = [x \in DOMAIN kept \cup {t} |-> IF x = t THEN Listing(t) ELSE kept[x]]

\* _complete_claim_with_proof_index_refresh: one more attempt, after a refresh.
Final(attempt) == attempt = 2

ListAndDecide ==
  /\ asked.pc = "list" /\ Keeps(asked.token)
  /\ IF Custodied(asked.valid, Listing(asked.token))
     THEN outcome' = "completed" /\ asked' = Idle
     ELSE IF Final(asked.attempt) \/ ~RequiresTracking(Named)
          THEN outcome' = "refused" /\ asked' = Idle
          ELSE asked' = [asked EXCEPT !.pc = "refresh"] /\ UNCHANGED outcome
  /\ UNCHANGED <<form, carried, token>> /\ Watch

\* refresh_completion_proof_index: forget, then list again.
Refreshed(t) == [x \in {t} |-> carried]
RefreshIndex ==
  /\ asked.pc = "refresh" /\ kept' = Refreshed(token)
  /\ asked' = [asked EXCEPT !.pc = "examine", !.attempt = 2]
  /\ UNCHANGED <<form, carried, token, outcome>> /\ Watch

ProofNext ==
  \/ \E c \in Cand, f \in Form : FileChanges(c, f)
  \/ \E c \in Cand, moves \in BOOLEAN : IndexChanges(c, moves)
  \/ CompleteBegins \/ Examine \/ ReadToken \/ ListAndDecide \/ RefreshIndex

ProofSpec == ProofInit /\ [][ProofNext]_proofVars

-----------------------------------------------------------------------------
(* Properties.                                                             *)

\* A refused completion is owed to the proof: each candidate was, at some
\* moment of the call, no artifact or not carried by git.  A listing kept from
\* before, under a token that did not move, refuses nothing that stands
\* (_complete_claim_with_proof_index_refresh, refresh_completion_proof_index).
NotRefusedInVain == outcome = "refused" => failed = Cand

\* The tools tell an agent the truth: of an overlap with another's writes, and
\* of why a completion is refused.
ToolsTellTruth == OverlapIsTold /\ NotRefusedInVain
=============================================================================
