----------------------------- MODULE MCMessages -----------------------------
(* The mailbox, the rulings and the memory queue in one run.  `part` chooses *)
(* which of them moves: they share no step, so TLC explores their sum.       *)
EXTENDS Inbox, MemoryQueue

CONSTANT Parts

VARIABLE part

mcVars == <<part, inboxVars, memoryVars>>

MCMailLaneOf == [s \in MailSession |-> "claude"]
MCFamily == [s \in DecisionSession |-> IF s = "s3" THEN {"s3"} ELSE DecisionSession \ {"s3"}]
MCSourceLane == [s \in DecisionSession |-> IF s = "s3" THEN "codex" ELSE "claude"]

MCInit ==
  /\ InboxInit /\ MemoryInit
  /\ part \in Parts
  /\ part # "inbox" => mail = << >>

Rulings ==
  /\ DecisionNext
  /\ UNCHANGED <<callVars, receipts, resolved, storeVars, stale>>

MCNext ==
  \/ part = "inbox" /\ InboxNext /\ UNCHANGED <<part, memoryVars>>
  \/ part = "rulings" /\ Rulings /\ UNCHANGED <<part, inboxVars>>
  \/ part = "memory" /\ MemoryNext /\ UNCHANGED <<part, inboxVars>>

\* InboxFairness, in the part where the mailbox moves.
MCSpec ==
  /\ MCInit /\ [][MCNext]_mcVars
  /\ WF_mcVars(part = "inbox" /\ EvaluateRequestSlas /\ UNCHANGED <<part, memoryVars>>)
=============================================================================
