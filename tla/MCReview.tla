------------------------------ MODULE MCReview ------------------------------
(* The review gate and the assignment heads in one run.  They are two views *)
(* of one log that share no state here: `part` chooses which of them moves, *)
(* so that TLC explores their sum and not their product.                    *)
EXTENDS ReviewGate, HandoffHeads, TLC

CONSTANTS a1, a2   \* two sessions of the claude lane

VARIABLE part

mcVars == <<part, reviewVars, headVars>>

MCLaneOf == [s \in ReviewSession |-> IF s \in {a1, a2} THEN "claude" ELSE "codex"]
MCHeadLaneOf == [s \in HeadSession |-> IF s = "a1" THEN "claude" ELSE "codex"]
MCRows == {[tier |-> "T0", floor |-> TRUE, quorum |-> 0, assignee |-> "claude"],
           [tier |-> "T1", floor |-> FALSE, quorum |-> 2, assignee |-> "claude"]}
\* An ordinary row, whose tier may be raised later.
MCOrdinary == {[tier |-> "T1", floor |-> FALSE, quorum |-> 0, assignee |-> "claude"]}
MCSymmetry == Permutations(HeadWork) \cup Permutations({a1, a2})

MCInit ==
  /\ ReviewInit /\ HeadInit
  /\ part \in {"gate", "heads"}
  /\ part = "heads" => item.quorum = 0

MCNext ==
  \/ part = "gate" /\ ReviewNext /\ UNCHANGED <<part, headVars>>
  \/ part = "heads" /\ HeadNext /\ UNCHANGED <<part, reviewVars>>

MCSpec == MCInit /\ [][MCNext]_mcVars
=============================================================================
