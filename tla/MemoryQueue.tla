---------------------------- MODULE MemoryQueue ----------------------------
(***************************************************************************)
(* Session closeout (coord/coord_db.py) and the memory proposals it        *)
(* produces (knowledge/proposal_producer.py, knowledge/memory_proposals.py)*)
(*                                                                         *)
(* A closeout posts its event, then offers the session's marked rulings to *)
(* a queue in another database, after retrying what earlier closeouts      *)
(* could not offer.  The two databases share no transaction: each step     *)
(* commits on its own, closeouts overlap, and the process may die between. *)
(***************************************************************************)
EXTENDS Decisions

CONSTANTS
  Family,       \* the related sessions of each session
  SourceLane,   \* the lane of each session
  ReviewerLane, \* who may review a proposal
  ReplayLimit,  \* failures one closeout retries
  ProposalCap,  \* proposals of a source thread per day
  MaxOffered    \* bound on the rulings posted around the closeouts

ASSUME MemoryAssumption ==
  /\ Family \in [DecisionSession -> SUBSET DecisionSession]
  /\ ReplayLimit \in Nat \ {0} /\ ProposalCap \in Nat
  /\ MaxOffered \in Nat

VARIABLES
  stage,    \* where each session's closeout call is
  snap,     \* the rulings in force it read, for its own production
  rsnap,    \* the same, read again by its replay
  retry,    \* the receipts its replay still has to try
  todo,     \* the candidates its production still has to offer
  lost,     \* the candidates its production failed to offer
  closed,   \* sessions with a session_closeout event
  receipts, \* memory_proposal_failure events: [rulings, home]
  resolved, \* receipts with a memory_proposal_replay event
  queue,    \* status of the proposal of each ruling, "none" before it
  recent,   \* proposals created within the cap's window, by ruling
  refused,  \* rulings the producer rejected
  stale,    \* rulings a replay found superseded
  facts     \* rulings promoted to the fact store

memoryVars == <<decisionVars, stage, snap, rsnap, retry, todo, lost, closed,
                receipts, resolved, queue, recent, refused, stale, facts>>
callVars == <<stage, snap, rsnap, retry, todo, lost, closed>>
storeVars == <<queue, recent, refused, facts>>

PerSession(x) == [s \in DecisionSession |-> x]

MemoryInit ==
  /\ DecisionInit
  /\ stage = PerSession("open") /\ snap = PerSession({}) /\ rsnap = PerSession({})
  /\ retry = PerSession({}) /\ todo = PerSession({}) /\ lost = PerSession({})
  /\ closed = {} /\ receipts = << >> /\ resolved = {}
  /\ queue = [i \in 1..MaxRulings |-> "none"]
  /\ recent = {} /\ refused = {} /\ stale = {} /\ facts = {}

\* The log moves on while closeouts run, and a day passes.
OthersRule ==
  /\ \/ \E s \in DecisionSession, sup \in RulingIds \cup {0}, cand \in BOOLEAN :
          /\ Len(rulings) < MaxOffered
          /\ PostDecision(s, sup, 0, {}, cand) /\ UNCHANGED recent
     \/ recent # {} /\ recent' = {} /\ UNCHANGED decisionVars
  /\ UNCHANGED <<callVars, receipts, resolved, queue, refused, stale, facts>>

-----------------------------------------------------------------------------
(* One offer: produce_memory_candidate and propose_memory.                 *)

Thread(i) == Family[rulings[i].by]
CapReached(i) ==
  queue[i] = "none" /\ Cardinality({j \in recent : Thread(j) = Thread(i)}) >= ProposalCap

\* propose_memory: a new row, or the known one seen again with its status kept.
Emit(i) ==
  /\ ~CapReached(i)
  /\ queue' = [queue EXCEPT ![i] = IF @ = "none" THEN "proposed" ELSE @]
  /\ recent' = IF queue[i] = "none" THEN recent \cup {i} ELSE recent
  /\ UNCHANGED <<refused, facts>>

\* A near duplicate, or the cap: a refusal is an outcome, not a failure.
Refuse(i) ==
  /\ refused' = refused \cup {i}
  /\ UNCHANGED <<queue, recent, facts>>

Offer(i) == Emit(i) \/ Refuse(i)

-----------------------------------------------------------------------------
(* The closeout call of session s.                                         *)

\* session_closeout up to its checks; a blocked closeout changes nothing.
CheckCloseout(s) ==
  /\ stage[s] = "open" /\ Family[s] \cap closed = {}
  /\ stage' = [stage EXCEPT ![s] = "checked"]
  /\ UNCHANGED <<decisionVars, snap, rsnap, retry, todo, lost, closed, receipts, resolved,
                 storeVars, stale>>

\* The event, end_session, and the rulings in force.
PostCloseout(s) ==
  /\ stage[s] = "checked"
  /\ stage' = [stage EXCEPT ![s] = "closed"]
  /\ closed' = closed \cup {s}
  /\ snap' = [snap EXCEPT ![s] = Heads({})]
  /\ UNCHANGED <<decisionVars, rsnap, retry, todo, lost, receipts, resolved, storeVars, stale>>

Pending == {f \in DOMAIN receipts : f \notin resolved}

\* replay_memory_proposal_failures: the oldest unresolved receipts.
BeginReplay(s) ==
  /\ stage[s] = "closed"
  /\ stage' = [stage EXCEPT ![s] = "replay"]
  /\ rsnap' = [rsnap EXCEPT ![s] = Heads({})]
  /\ retry' = [retry EXCEPT ![s] = {f \in Pending :
                 Cardinality({g \in Pending : g < f}) < ReplayLimit}]
  /\ UNCHANGED <<decisionVars, snap, todo, lost, closed, receipts, resolved, storeVars, stale>>

\* What of a receipt is still worth an offer.
StillInForce(s, f) == receipts[f].rulings \cap rsnap[s]

FirstOf(S) == CHOOSE f \in S : \A g \in S : f <= g

\* One receipt: offered again and durably resolved, or left pending.  A batch
\* offers its rulings one by one and resolves when none failed.
ReplayOffer(s) ==
  LET f == FirstOf(retry[s]) IN
  /\ stage[s] = "replay" /\ retry[s] # {} /\ receipts[f].home
  /\ \E i \in StillInForce(s, f) : Offer(i)
  /\ UNCHANGED <<decisionVars, callVars, receipts, resolved, stale>>

ReplayResolve(s) ==
  LET f == FirstOf(retry[s]) IN
  /\ stage[s] = "replay" /\ retry[s] # {} /\ receipts[f].home
  /\ \A i \in StillInForce(s, f) : queue[i] # "none" \/ i \in refused
  /\ resolved' = resolved \cup {f}
  /\ stale' = stale \cup (receipts[f].rulings \ rsnap[s])
  /\ retry' = [retry EXCEPT ![s] = @ \ {f}]
  /\ UNCHANGED <<decisionVars, stage, snap, rsnap, todo, lost, closed, receipts, storeVars>>

\* The offer failed again, or the receipt belongs to another database.
ReplayPending(s) ==
  /\ stage[s] = "replay" /\ retry[s] # {}
  /\ retry' = [retry EXCEPT ![s] = @ \ {FirstOf(@)}]
  /\ UNCHANGED <<decisionVars, stage, snap, rsnap, todo, lost, closed, receipts, resolved,
                 storeVars, stale>>

\* produce_session_memory_proposals: the family's marked rulings in force.
BeginProduction(s) ==
  /\ stage[s] = "replay" /\ retry[s] = {}
  /\ stage' = [stage EXCEPT ![s] = "produce"]
  /\ todo' = [todo EXCEPT ![s] =
                {i \in snap[s] : rulings[i].by \in Family[s] /\ rulings[i].cand}]
  /\ UNCHANGED <<decisionVars, snap, rsnap, retry, lost, closed, receipts, resolved,
                 storeVars, stale>>

ProduceOne(s) ==
  LET i == FirstOf(todo[s]) IN
  /\ stage[s] = "produce" /\ todo[s] # {}
  /\ todo' = [todo EXCEPT ![s] = @ \ {i}]
  /\ \/ Offer(i) /\ UNCHANGED lost
     \/ lost' = [lost EXCEPT ![s] = @ \cup {i}] /\ UNCHANGED storeVars
  /\ UNCHANGED <<decisionVars, stage, snap, rsnap, retry, closed, receipts, resolved, stale>>

AsReceipts(S, home) ==
  LET n == Cardinality(S) IN
  [k \in 1..n |->
     [rulings |-> {CHOOSE i \in S : Cardinality({j \in S : j < i}) = k - 1}, home |-> home]]

\* Mutant: the failures are reported to the caller only.
FinishQuietly(s, home) ==
  /\ stage[s] = "produce" /\ todo[s] = {}
  /\ stage' = [stage EXCEPT ![s] = "done"]
  /\ UNCHANGED <<decisionVars, snap, rsnap, retry, todo, lost, closed, receipts, resolved,
                 storeVars, stale>>
\* _record_memory_proposal_failures: a receipt per candidate, bound to the
\* knowledge database this closeout used.
FinishProduction(s, home) ==
  /\ stage[s] = "produce" /\ todo[s] = {}
  /\ stage' = [stage EXCEPT ![s] = "done"]
  /\ receipts' = receipts \o AsReceipts(lost[s], home)
  /\ UNCHANGED <<decisionVars, snap, rsnap, retry, todo, lost, closed, resolved,
                 storeVars, stale>>

\* _record_memory_proposal_session_failure: the producer itself raised.
ProductionRaised(s, home) ==
  /\ stage[s] = "produce" /\ todo[s] # {}
  /\ stage' = [stage EXCEPT ![s] = "done"]
  /\ receipts' = Append(receipts, [rulings |->
        {i \in snap[s] : rulings[i].by \in Family[s] /\ rulings[i].cand}, home |-> home])
  /\ UNCHANGED <<decisionVars, snap, rsnap, retry, todo, lost, closed, resolved,
                 storeVars, stale>>

\* The process dies inside the call: the family cannot close out again.
CloseoutDies(s) ==
  /\ stage[s] \notin {"open", "done", "dead"}
  /\ stage' = [stage EXCEPT ![s] = "dead"]
  /\ UNCHANGED <<decisionVars, snap, rsnap, retry, todo, lost, closed, receipts, resolved,
                 storeVars, stale>>

-----------------------------------------------------------------------------
(* Review of the queue.                                                    *)

\* review_proposal: any verdict but proposed, by anybody but its source.
ReviewProposal(i, r, st) ==
  /\ queue[i] # "none" /\ r # SourceLane[rulings[i].by]
  /\ queue' = [queue EXCEPT ![i] = st]
  /\ UNCHANGED <<decisionVars, callVars, receipts, resolved, recent, refused, stale, facts>>

\* promote_proposal_to_fact.
PromoteProposal(i) ==
  /\ queue[i] = "accepted" /\ i \notin facts
  /\ facts' = facts \cup {i}
  /\ UNCHANGED <<decisionVars, callVars, receipts, resolved, queue, recent, refused, stale>>

MemoryNext ==
  \/ OthersRule
  \/ \E s \in DecisionSession :
       \/ CheckCloseout(s) \/ PostCloseout(s) \/ BeginReplay(s) \/ ReplayOffer(s)
       \/ ReplayResolve(s) \/ ReplayPending(s) \/ BeginProduction(s) \/ ProduceOne(s)
       \/ \E home \in BOOLEAN : FinishProduction(s, home) \/ ProductionRaised(s, home)
       \/ CloseoutDies(s)
  \/ \E i \in RulingIds :
       \/ \E r \in ReviewerLane, st \in {"accepted", "rejected"} : ReviewProposal(i, r, st)
       \/ PromoteProposal(i)

MemorySpec == MemoryInit /\ [][MemoryNext]_memoryVars

-----------------------------------------------------------------------------
(* What the pipeline promises.                                             *)

\* Whatever failed, raised or was retried, a candidate of a closeout that came
\* to its end is accounted for: in the queue, refused, found superseded, or in
\* a receipt a later closeout will retry.
CandidateAccountedFor(s) ==
  stage[s] = "done" =>
    \A i \in snap[s] : rulings[i].by \in Family[s] /\ rulings[i].cand =>
      \/ queue[i] # "none" \/ i \in refused \/ i \in stale
      \/ \E f \in Pending : i \in receipts[f].rulings

\* A ruling enters the queue only after a closeout whose family has its author,
\* and only if it was in force when the call that offers it looked.
OfferedInForce ==
  [][\A i \in RulingIds : queue[i] = "none" /\ queue'[i] # "none" =>
       /\ rulings[i].cand /\ \E s \in closed : rulings[i].by \in Family[s]
       /\ \E s \in DecisionSession :
            \/ stage[s] = "produce" /\ i \in snap[s]
            \/ stage[s] = "replay" /\ i \in rsnap[s]]_memoryVars

\* A proposal a reviewer decided is not opened again by a late retry, and what
\* became a fact had been accepted.
ReviewSurvivesRetry ==
  [][\A i \in RulingIds :
       /\ queue[i] \in {"accepted", "rejected"} => queue'[i] \in {"accepted", "rejected"}
       /\ i \in facts' \ facts => queue[i] = "accepted"]_memoryVars

\* No candidate of a closeout is lost, offered after it was superseded or
\* opened again after its review, whatever failed and was retried
\* (produce and replay of memory proposals).
MemoryAccountedFor ==
  /\ [](\A s \in DecisionSession : CandidateAccountedFor(s))
  /\ OfferedInForce /\ ReviewSurvivesRetry
=============================================================================
