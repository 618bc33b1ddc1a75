------------------------------- MODULE Loops --------------------------------
(***************************************************************************)
(* Bounded loops, the evidence they leave, and the advice that proposes them. *)
(***************************************************************************)
EXTENDS Integers, Sequences, FiniteSets

-----------------------------------------------------------------------------
(***************************************************************************)
(* Bounded loops and the evidence they leave: coord/loop_contracts.py      *)
(* (run_bounded_loop_contract) and coord/run_events.py.                    *)
(*                                                                         *)
(* Runners, token recorders and lifecycle verbs append to one table.  An   *)
(* append is a transaction keyed by an idempotency key; a runner may die   *)
(* and be started again under the same run id, an answer may be lost and   *)
(* the call repeated, and the wall clock runs out at any moment.           *)
(***************************************************************************)

CONSTANTS
  Runner,          \* processes that run a loop contract
  RunOf,           \* Runner -> run id it records under
  Signature,       \* what an iteration observed, did and verified
  MaxIterations,   \* limits.max_iterations
  StagnationLimit, \* stagnation_limit
  Recorder,        \* callers that record measured tokens
  UsageId,         \* logical usages
  RunId, Aliases,  \* run ids, and the ids each is also known by
  Verb,            \* lifecycle verbs that leave an event
  EventLimits,     \* limits the token rollup is asked with
  MaxReports       \* bound on the token events without a key and those of coord.db's log

NoUsage == "no usage"

\* run_id_aliases: a run and its aliases are known by the same ids.
ASSUME LoopsAssumption ==
  /\ MaxIterations \in Nat \ {0} /\ StagnationLimit \in Nat \ {0}
  /\ RunOf \in [Runner -> RunId] /\ Aliases \in [RunId -> SUBSET RunId]
  /\ \A r \in RunId : r \in Aliases[r] /\ \A q \in Aliases[r] : Aliases[q] = Aliases[r]
  /\ NoUsage \notin UsageId /\ EventLimits \subseteq Nat /\ MaxReports \in Nat

VARIABLES
  runEvents, \* run_events: [key, run, thread, seq, tokens]
  runner,    \* a runner: where it stands and what it knows
  spent,     \* runners whose wall-clock budget is used up
  proof,     \* the done signal exists
  recorder,  \* a recorder: the usage it found nothing for
  answered,  \* usages some recorder was answered about
  reported   \* events of kind token_usage: [usage, tokens]

loopVars == <<runEvents, runner, spent, proof, recorder, answered, reported>>

Unthreaded == "unthreaded"
Resting == [pc |-> "idle", iter |-> 0, last |-> "none", repeated |-> 0,
            said |-> "none", receipts |-> << >>, late |-> 0]

LoopInit ==
  /\ runEvents = << >> /\ runner = [l \in Runner |-> Resting] /\ spent = {}
  /\ proof = FALSE /\ recorder = [r \in Recorder |-> NoUsage] /\ answered = {} /\ reported = << >>

-----------------------------------------------------------------------------
(* The table.                                                              *)

EventIds == DOMAIN runEvents
\* Mutant: keys are not looked up.
NeverRecorded(key) == {}
\* The event a key already names.
Recorded(key) == {i \in EventIds : runEvents[i].key = key}

\* _next_seq: counted per thread, or per run for events without a thread.
ScopeOf(e) == IF e.thread = Unthreaded THEN <<"run", e.run>> ELSE <<"thread", e.thread>>
NextSeq(scope) == Cardinality({i \in EventIds : ScopeOf(runEvents[i]) = scope}) + 1

\* record_run_event: the key is looked up inside the transaction.
RecordRunEvent(key, run, thread, tokens) ==
  LET e == [key |-> key, run |-> run, thread |-> thread, seq |-> 0, tokens |-> tokens] IN
  runEvents' = IF Recorded(key) # {} THEN runEvents
               ELSE Append(runEvents, [e EXCEPT !.seq = NextSeq(ScopeOf(e))])

\* record_coord_lifecycle_event of session "s": its thread is the session.
RecordLifecycle(v, run) ==
  /\ RecordRunEvent(<<"lifecycle", v>>, run, "s", 0)
  /\ UNCHANGED <<runner, spent, proof, recorder, answered, reported>>

\* list_run_events by thread.
ByThread(t) == {i \in EventIds : runEvents[i].thread = t}
\* reconstruct_run_timeline: the events under any alias of the run, and their tokens.
Timeline(run) == {i \in EventIds : runEvents[i].run \in Aliases[run]}
TokenEvents(run) == {i \in Timeline(run) : runEvents[i].tokens > 0}

-----------------------------------------------------------------------------
(* Measured tokens.                                                        *)

\* token_usage_idempotency_key: the usage, not the run it is recorded under.
UsageKey(u) == <<"usage", u>>

\* record_measured_token_usage: a first look, outside any transaction.
LooksForUsage(r, u) ==
  /\ recorder[r] = NoUsage
  /\ IF Recorded(UsageKey(u)) # {}
     THEN answered' = answered \cup {u} /\ UNCHANGED recorder
     ELSE recorder' = [recorder EXCEPT ![r] = u] /\ UNCHANGED answered
  /\ UNCHANGED <<runEvents, runner, spent, proof, reported>>

\* record_token_usage, with what this caller measured.
RecordsUsage(r, run, n) ==
  /\ recorder[r] # NoUsage
  /\ RecordRunEvent(UsageKey(recorder[r]), run, Unthreaded, n)
  /\ answered' = answered \cup {recorder[r]}
  /\ recorder' = [recorder EXCEPT ![r] = NoUsage]
  /\ UNCHANGED <<runner, spent, proof, reported>>

\* The recorder dies between the look and the write, and calls again later.
RecorderDies(r) ==
  /\ recorder[r] # NoUsage
  /\ recorder' = [recorder EXCEPT ![r] = NoUsage]
  /\ UNCHANGED <<runEvents, runner, spent, proof, answered, reported>>

-----------------------------------------------------------------------------
(* The weekly rollup of tokens (coord/token_ledger_rollup.py): the events of *)
(* both logs, mirrors and repetitions left out.                              *)

\* The events that record_token_usage wrote without an idempotency key.
Bare == {i \in EventIds : runEvents[i].key[1] = "bare"}
Reports == Len(reported) + Cardinality(Bare)

\* post_event of a token_usage, by a model runner, which names no usage, or by
\* whoever measured one.
ReportsTokens(u, n) ==
  /\ Reports < MaxReports /\ reported' = Append(reported, [usage |-> u, tokens |-> n])
  /\ UNCHANGED <<runEvents, runner, spent, proof, recorder, answered>>

\* record_token_usage without an idempotency key.
RecordsBare(run, n) ==
  /\ Reports < MaxReports
  /\ RecordRunEvent(<<"bare", Len(runEvents)>>, run, Unthreaded, n)
  /\ UNCHANGED <<runner, spent, proof, recorder, answered, reported>>

\* Of the ids of a log, the newest.
Newest(ids, limit) == {i \in ids : Cardinality({j \in ids : j > i}) < limit}
TokenIds == {i \in EventIds : runEvents[i].tokens > 0}

NormalizeCoordRow(i) ==
  [source |-> "coord_events", id |-> i, usage |-> reported[i].usage, run |-> "none", tokens |-> reported[i].tokens]
NormalizeRunEventRow(i) ==
  [source |-> "run_events", id |-> i, run |-> runEvents[i].run, tokens |-> runEvents[i].tokens,
   usage |-> IF i \in Bare THEN NoUsage ELSE runEvents[i].key[2]]

\* SOURCE_PREFERENCE, then the older event.
Preferred(e, f) ==
  \/ e.source = "run_events" /\ f.source = "coord_events"
  \/ e.source = f.source /\ e.id <= f.id

\* _dedupe_events: one event of each usage that is named; of two events without
\* a name, alike and under the two ids of one run, the older.
DedupeEvents(events) ==
  LET named == {e \in events : e.usage # NoUsage}
      aliased == {e \in events \ named : e.source = "run_events" /\ Cardinality(Aliases[e.run]) > 1}
      Group(e) == {f \in aliased : f.run \in Aliases[e.run] /\ f.tokens = e.tokens}
      Mirrored(e) == Cardinality(Group(e)) = 2 /\ {f.run : f \in Group(e)} = Aliases[e.run]
  IN (events \ (named \cup aliased))
     \cup {e \in named : \A f \in named : f.usage = e.usage => Preferred(e, f)}
     \cup {e \in aliased : Mirrored(e) => \A f \in Group(e) : e.id <= f.id}

\* build_token_ledger_rollup: what the limit lets it see, what it counts of
\* that, and whether it calls the total authoritative.
Rollup(limit) ==
  LET normalized == {NormalizeCoordRow(i) : i \in Newest(DOMAIN reported, limit)}
                      \cup {NormalizeRunEventRow(i) : i \in Newest(TokenIds, limit)}
  IN [observed |-> normalized, ledger |-> DedupeEvents(normalized),
      authoritative |-> Len(reported) <= limit /\ Cardinality(TokenIds) <= limit]

-----------------------------------------------------------------------------
(* The runner.                                                             *)

Steps(l, r) ==
  runner' = [runner EXCEPT ![l] = r] /\ UNCHANGED <<spent, proof, recorder, answered, reported>>
Ends(l, how) == Steps(l, [runner[l] EXCEPT !.pc = "ended", !.said = how])

\* The contract is valid; a proof that is there already ends the loop.
BeginLoop(l) ==
  /\ runner[l].pc = "idle" /\ UNCHANGED runEvents
  /\ IF proof THEN Ends(l, "success")
     ELSE Steps(l, [Resting EXCEPT !.pc = "top", !.iter = 1])

\* The head of the for loop.
TopOfLoop(l) ==
  /\ runner[l].pc = "top" /\ UNCHANGED runEvents
  /\ IF runner[l].iter > MaxIterations \/ l \in spent THEN Ends(l, "exhausted")
     ELSE Steps(l, [runner[l] EXCEPT !.pc = "iterating"])

\* The state an iteration's receipt is recorded with.
Exhausted(l, said) == IF l \in spent /\ said = "continue" THEN "exhausted" ELSE said
Stagnated(repeated, said) ==
  IF repeated >= StagnationLimit /\ said = "continue" THEN "stagnated" ELSE said

ReceiptKey(l) == <<"receipt", RunOf[l], runner[l].iter>>
\* validate_loop_receipt: a state that is not one of RECEIPT_STATES raises.
ReceiptStates == {"continue", "success", "blocked"}

\* iterate() returns; its receipt is completed, validated and recorded.
Iterates(l, sig, said) ==
  LET repeated == IF sig = runner[l].last THEN runner[l].repeated + 1 ELSE 1
      state == Stagnated(repeated, Exhausted(l, said))
  IN /\ runner[l].pc = "iterating" /\ said \in ReceiptStates
     /\ RecordRunEvent(ReceiptKey(l), RunOf[l], Unthreaded, 0)
     /\ Steps(l, [runner[l] EXCEPT !.pc = "recorded", !.last = sig, !.repeated = repeated,
                     !.said = state, !.receipts = Append(@, sig),
                     !.late = IF l \in spent THEN @ + 1 ELSE @])

\* iterate() raises or returns what is not a receipt.
IterateRaises(l) ==
  /\ runner[l].pc = "iterating" /\ UNCHANGED runEvents
  /\ Ends(l, "raised")

\* The proof is looked for, then the recorded state decides.
AfterReceipt(l) ==
  /\ runner[l].pc = "recorded" /\ UNCHANGED runEvents
  /\ IF proof THEN Ends(l, "success")
     ELSE IF runner[l].said # "continue" THEN Ends(l, runner[l].said)
     ELSE Steps(l, [runner[l] EXCEPT !.pc = "top", !.iter = @ + 1])

\* The runner's process dies; the loop is started again under its run id.
RunnerDies(l) ==
  /\ runner[l].pc \notin {"idle", "ended"}
  /\ runner' = [runner EXCEPT ![l] = Resting] /\ spent' = spent \ {l}
  /\ UNCHANGED <<runEvents, proof, recorder, answered, reported>>

WallClockRunsOut(l) ==
  /\ l \notin spent /\ runner[l].pc \notin {"idle", "ended"}
  /\ spent' = spent \cup {l}
  /\ UNCHANGED <<runEvents, runner, proof, recorder, answered, reported>>

ProofWritten ==
  /\ ~proof /\ proof' = TRUE
  /\ UNCHANGED <<runEvents, runner, spent, recorder, answered, reported>>

LoopNext ==
  \/ \E l \in Runner :
       \/ BeginLoop(l) \/ TopOfLoop(l) \/ AfterReceipt(l) \/ IterateRaises(l)
       \/ \E sig \in Signature, said \in ReceiptStates : Iterates(l, sig, said)
       \/ RunnerDies(l) \/ WallClockRunsOut(l)
  \/ ProofWritten
EvidenceNext ==
  \/ \E r \in Recorder :
       \/ \E u \in UsageId : LooksForUsage(r, u)
       \/ \E run \in RunId, n \in {1, 2} : RecordsUsage(r, run, n)
       \/ RecorderDies(r)
  \/ \E v \in Verb, run \in RunId : RecordLifecycle(v, run)
TokensNext ==
  \/ \E r \in Recorder :
       \/ \E u \in UsageId : LooksForUsage(r, u)
       \/ \E run \in RunId : Aliases[run] # {run} /\ RecordsUsage(r, run, 1)
  \/ \E run \in RunId, n \in {1, 2} : RecordsBare(run, n)
  \/ \E u \in UsageId \cup {NoUsage} : ReportsTokens(u, 1)

LoopsSpec == LoopInit /\ [][LoopNext \/ EvidenceNext \/ TokensNext]_loopVars

-----------------------------------------------------------------------------
(* Properties.                                                             *)

\* A loop keeps its bounds whatever its iterations say: it never records more
\* receipts than limits.max_iterations nor starts an iteration with the wall
\* clock spent, and never goes on after StagnationLimit equal receipts in a row.
LoopStops ==
  \A l \in Runner :
    LET n == Len(runner[l].receipts) IN
    /\ n <= MaxIterations /\ runner[l].late <= 1
    /\ runner[l].pc \in {"top", "iterating"} /\ n >= StagnationLimit =>
         \E i \in n - StagnationLimit + 1 .. n : runner[l].receipts[i] # runner[l].receipts[n]

\* Evidence is counted once: a usage some caller was answered about has exactly
\* one event, whoever repeated or raced the call and under whichever run, and
\* the timelines' tokens are those of distinct usages.  The events of a thread
\* are numbered without gaps in the order they were recorded.
CountedOnce ==
  /\ \A u \in answered : Cardinality({i \in EventIds : runEvents[i].key = UsageKey(u)}) = 1
  /\ \A run \in RunId : \A i, j \in TokenEvents(run) : runEvents[i].key = runEvents[j].key => i = j
  /\ \A i \in ByThread("s") :
       runEvents[i].seq = Cardinality({j \in ByThread("s") : j <= i})

\* The rollup counts a named usage once whatever its repetitions in both logs,
\* and as it was first recorded when a recorder was answered about it; without
\* a name, only the later of two mirrors is left out.  A total it calls
\* authoritative misses no usage (build_token_ledger_rollup).
RollupCountsOnce ==
  \A limit \in EventLimits :
    LET r == Rollup(limit) IN
    /\ \A e, f \in r.ledger : e.usage = f.usage /\ e.usage # NoUsage => e = f
    /\ \A e \in r.observed \ r.ledger :
         \E f \in r.ledger : f.usage = e.usage /\ (e.usage = NoUsage => f.tokens = e.tokens /\ f.id < e.id /\ f.run # e.run)
    /\ r.authoritative =>
         /\ \A u \in answered : \E e \in r.ledger : e.usage = u /\ e.source = "run_events"
         /\ \A i \in DOMAIN reported : \E e \in r.ledger : e.usage = reported[i].usage

-----------------------------------------------------------------------------
(***************************************************************************)
(* The read-only supervisor and the loop doctor:                           *)
(* coord/supervisor_readonly.py (suggest_from_rows) and                    *)
(* coord/loop_contracts.py (propose_loop_contracts_from_supervisor).        *)
(*                                                                         *)
(* Both look at one list of rows, rank what they find, cut the list at a   *)
(* limit and account for what was cut.                                     *)
(***************************************************************************)

CONSTANTS
  AdviceRow,       \* work ids, in their order
  RowKind,         \* the rows there can be
  SupervisorLimit, \* suggest_from_rows' limit
  ProposalLimit    \* propose_loop_contracts_from_supervisor's limit

OpenStatuses == {"queued", "running", "blocked", "needs_verification"}
LoadedRow ==
  [status : OpenStatuses \cup {"done"}, lapsed : BOOLEAN, old : BOOLEAN, context : BOOLEAN, sparse : BOOLEAN,
   epic : BOOLEAN, priority : Nat, signal : BOOLEAN, contract : {"none", "valid"}]
ASSUME AdviceAssumption ==
  /\ AdviceRow \subseteq Nat /\ IsFiniteSet(AdviceRow) /\ RowKind \subseteq LoadedRow
  /\ SupervisorLimit \in Nat /\ ProposalLimit \in Nat

VARIABLES
  seen,      \* the rows as they were loaded
  autonomy,  \* the tier supervisor_readonly_digest is enabled
  report     \* [proposals, omitted, scanned], or none yet

adviceVars == <<seen, autonomy, report>>

NoReport == [made |-> FALSE, proposals |-> << >>, limited |-> {}, dropped |-> {}]

AdviceInit == seen \in [AdviceRow -> RowKind] /\ autonomy \in BOOLEAN /\ report = NoReport

-----------------------------------------------------------------------------
(* The supervisor.                                                         *)

\* What suggest_from_rows says of a row: a kind, a severity and an actionability.
NoAdvice == [kind |-> "none", severity |-> "info", act |-> "plain"]
AdviceOn(r) ==
  CASE r.status = "running" /\ r.lapsed -> [kind |-> "expired_running_claim", severity |-> "urgent", act |-> "plain"]
    [] r.status = "running" /\ ~r.lapsed /\ r.old -> [kind |-> "stale_running_heartbeat", severity |-> "warn", act |-> "plain"]
    [] r.status = "blocked" /\ (r.old \/ ~r.context) ->
         [kind |-> "blocked_needs_triage", severity |-> IF r.context THEN "warn" ELSE "urgent", act |-> "plain"]
    [] r.status = "needs_verification" -> [kind |-> "verification_queue", severity |-> "warn", act |-> "plain"]
    [] r.status = "queued" /\ r.priority <= 1 /\ ~r.sparse ->
         IF r.context THEN [kind |-> "ready_next_move", severity |-> "info", act |-> "ready_to_claim"]
         ELSE [kind |-> "launch_contract_gap", severity |-> "warn", act |-> IF r.epic THEN "broad_metadata_gap" ELSE "plain"]
    [] OTHER -> NoAdvice

SeverityWeight == [urgent |-> 3000, warn |-> 2000, info |-> 1000]
KindWeight == [expired_running_claim |-> 500, blocked_needs_triage |-> 400, stale_running_heartbeat |-> 300,
               verification_queue |-> 250, launch_contract_gap |-> 200, ready_next_move |-> 100]
ActWeight == [ready_to_claim |-> 1200, broad_metadata_gap |-> -1300, plain |-> 0]

\* _rank_score.
RankScore(r) ==
  LET a == AdviceOn(r)
  IN SeverityWeight[a.severity] + KindWeight[a.kind] + ActWeight[a.act]
     + (IF r.priority < 100 THEN 100 - r.priority ELSE 0)

Advised == IF autonomy THEN {w \in AdviceRow : AdviceOn(seen[w]) # NoAdvice} ELSE {}

\* sorted(): the members of S as a sequence, in the order of the pairs R.
Sorted(S, R) ==
  [n \in 1 .. Cardinality(S) |-> CHOOSE x \in S : Cardinality({y \in S : <<y, x>> \in R}) = n - 1]
Upto(list, n) == SubSeq(list, 1, IF Len(list) < n THEN Len(list) ELSE n)

\* _ranked_suggestions: by score, then by work id, cut at the limit.
ByScore ==
  {p \in Advised \X Advised :
     \/ RankScore(seen[p[1]]) > RankScore(seen[p[2]])
     \/ RankScore(seen[p[1]]) = RankScore(seen[p[2]]) /\ p[1] < p[2]}
Suggestions == Upto(Sorted(Advised, ByScore), SupervisorLimit)

-----------------------------------------------------------------------------
(* The loop doctor.                                                        *)

\* doctor_row: a loop signal without a contract or a reference to one.
MissingContract(r) == r.signal /\ r.contract = "none"

\* The suggestions that become proposals, in their order.
FromSupervisor ==
  LET missing == {i \in DOMAIN Suggestions : MissingContract(seen[Suggestions[i]])}
      places == Sorted(missing, {p \in missing \X missing : p[1] < p[2]})
  IN [n \in DOMAIN places |-> Suggestions[places[n]]]

\* _loop_doctor_suggestions leaves out what is proposed already.
NotProposed(proposed) == AdviceRow \ proposed

\* _loop_doctor_suggestions: open rows that need a contract, by priority.
ByPriority(rows) ==
  {p \in rows \X rows :
     \/ seen[p[1]].priority < seen[p[2]].priority
     \/ seen[p[1]].priority = seen[p[2]].priority /\ p[1] < p[2]}
FromDoctor ==
  LET proposed == {FromSupervisor[i] : i \in DOMAIN FromSupervisor}
      candidates == {w \in NotProposed(proposed) :
                       seen[w].status \in OpenStatuses /\ ~seen[w].sparse /\ MissingContract(seen[w])}
  IN Sorted(candidates, ByPriority(candidates))

\* propose_loop_contracts_from_supervisor.
Propose ==
  LET all == FromSupervisor \o FromDoctor
      shown == Upto(all, ProposalLimit)
  IN /\ ~report.made
     /\ report' = [made |-> TRUE, proposals |-> shown, limited |-> {all[i] : i \in Len(shown) + 1 .. Len(all)},
                   dropped |-> {w \in AdviceRow : /\ \E i \in DOMAIN Suggestions : Suggestions[i] = w
                                                  /\ ~MissingContract(seen[w])}]
     /\ UNCHANGED <<seen, autonomy>>

AdviceNext == Propose
AdviceSpec == AdviceInit /\ [][AdviceNext]_adviceVars

-----------------------------------------------------------------------------
(* Properties.                                                             *)

\* No row that needs a loop contract is lost between the two lists and their
\* limits: it is proposed once, or counted as left out for the limit; and what
\* is proposed needs one.
NeedyIsProposed ==
  report.made =>
    LET p == report.proposals IN
    /\ \A i, j \in DOMAIN p : p[i] = p[j] => i = j
    /\ \A i \in DOMAIN p : MissingContract(seen[p[i]]) /\ p[i] \notin report.limited \cup report.dropped
    /\ \A w \in AdviceRow :
         (seen[w].status \in OpenStatuses /\ ~seen[w].sparse /\ MissingContract(seen[w])) =>
           (\E i \in DOMAIN p : p[i] = w) \/ w \in report.limited

\* Loops end within their limits, their evidence counts once, and no row that
\* needs a contract is overlooked.
LoopsAccountable == LoopStops /\ CountedOnce /\ RollupCountsOnce /\ NeedyIsProposed
=============================================================================
