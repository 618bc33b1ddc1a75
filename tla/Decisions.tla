----------------------------- MODULE Decisions -----------------------------
(***************************************************************************)
(* Rulings of coord/coord_db.py.  A decision event may supersede an        *)
(* earlier one, start to hold later, and name fences that make it stale.   *)
(* Which rulings are in force is never stored: readers walk the            *)
(* supersession links of the log each time.                                *)
(***************************************************************************)
EXTENDS Integers, Sequences, FiniteSets

CONSTANTS
  DecisionSession, \* sessions that rule
  Fences,          \* fences a reader may hold, each a staleness condition
  WalkMax,         \* _DECISION_CHAIN_WALK_MAX_DEPTH
  MaxRulings,      \* bound on the decisions posted
  MaxDay           \* bound on the clock

ASSUME DecisionAssumption ==
  WalkMax \in Nat /\ MaxRulings \in Nat /\ MaxDay \in Nat

VARIABLES
  rulings, \* decision events: [by, sup, from, stale, cand]
  day      \* the clock valid_from is compared with

decisionVars == <<rulings, day>>

RulingIds == 1..Len(rulings)

-----------------------------------------------------------------------------
(* Reading: _resolve_decision_heads_and_conflicts.                         *)

ValidAt(i, held) == rulings[i].from <= day /\ rulings[i].stale \cap held = {}

\* A ruling may only name a decision that exists, so links point backwards and
\* _decision_supersession_cycle_members finds none.  The walk from i sees i and
\* what it supersedes, directly or through others, newest first.
SupersessionClosed(S) == \A j \in S : rulings[j].sup \in S \cup {0}
LineOf(i) == {k \in RulingIds : \A S \in SUBSET RulingIds : SupersessionClosed(S) /\ i \in S => k \in S}
Depth(i, k) == Cardinality({m \in LineOf(i) : m >= k})

Terminals == {i \in RulingIds : \A j \in RulingIds : rulings[j].sup # i}

\* Of several terminals that supersede one ruling the newest stays.
Resolvable ==
  {i \in Terminals :
     rulings[i].sup # 0 =>
       \A j \in Terminals : rulings[j].sup = rulings[i].sup => j <= i}

\* Mutant: only a terminal itself can be in force.
NoWalk(i, held) == {k \in {i} : ValidAt(k, held)}
\* From a terminal back to the first ruling that holds at this moment.
InForceOf(i, held) ==
  {k \in LineOf(i) : /\ ValidAt(k, held) /\ Depth(i, k) <= WalkMax
                     /\ \A m \in LineOf(i) : m > k => ~ValidAt(m, held)}

Heads(held) == UNION {InForceOf(i, held) : i \in Resolvable}

-----------------------------------------------------------------------------
(* Writing.                                                                *)

DecisionInit == rulings = << >> /\ day = 0

\* post_decision_event: the superseded event must exist and be a decision.
PostDecision(s, sup, from, stale, cand) ==
  /\ Len(rulings) < MaxRulings
  /\ sup \in RulingIds \cup {0}
  /\ rulings' = Append(rulings, [by |-> s, sup |-> sup, from |-> from,
                                 stale |-> stale, cand |-> cand])
  /\ UNCHANGED day

NextDay == day < MaxDay /\ day' = day + 1 /\ UNCHANGED rulings

DecisionNext ==
  \/ \E s \in DecisionSession, sup \in 0..MaxRulings, from \in 0..MaxDay,
        stale \in {{}} \cup {{f} : f \in Fences}, cand \in BOOLEAN :
       PostDecision(s, sup, from, stale, cand)
  \/ NextDay

DecisionSpec == DecisionInit /\ [][DecisionNext]_decisionVars

-----------------------------------------------------------------------------
(* What a reader may rely on.                                              *)

\* The rulings that supersede i, directly or through others.
Above(i) == {j \in RulingIds : j # i /\ i \in LineOf(j)}
Forked == \E i, j \in RulingIds : i # j /\ rulings[i].sup = rulings[j].sup /\ rulings[i].sup # 0
Shallow == \A i \in RulingIds : Cardinality(LineOf(i)) <= WalkMax

\* While nobody superseded the same ruling twice, the rulings in force are the
\* newest valid ones of each line of succession: none with a valid successor,
\* and none lost, whatever is scheduled, stale or superseded around it.
HeadsAreNewestInForce ==
  (~Forked /\ Shallow) =>
    \A held \in SUBSET Fences :
      Heads(held) = {i \in RulingIds : ValidAt(i, held) /\ \A j \in Above(i) : ~ValidAt(j, held)}
=============================================================================
