------------------------------ MODULE MCReaper ------------------------------
(* Small instances of Reaper for TLC.  Liveness is checked on two slices of  *)
(* it, so that TLC explores their sum and not their product: in "rows" no    *)
(* run appears, in "runs" a single claim is taken, and it is never parked.   *)
EXTENDS Reaper, TLC
CONSTANTS
  s1, s2, w1, c1, c2, r1, laneA, laneB,
  Parts      \* the slices to explore: "rows", "runs", or "all" for everything

VARIABLE part

mcVars == <<vars, part>>

Within ==
  CASE part = "rows" -> /\ \A r \in Run : run[r].state = "none"
                        /\ \A s \in Session : sess[s].pid = "none"
    [] part = "runs" -> claim[c1].status \notin {"paused", "blocked"} /\ claim[c2].status = "none"
    [] OTHER -> TRUE

MCInit == Init /\ part \in Parts
MCNext == Next /\ UNCHANGED part /\ Within'
MCSpec == MCInit /\ [][MCNext]_mcVars

\* The fairness of FairSpec: no step it obliges leaves a slice.
MCFairSpec == MCSpec /\ Fairness

\* Two agents of different lanes, no aliases, no children.
TwoLanes == (s1 :> laneA) @@ (s2 :> laneB)
Strangers == (s1 :> {s1}) @@ (s2 :> {s2})
NoParents == (s1 :> NoSession) @@ (s2 :> NoSession)

\* Two agents of one lane, who contend for its private rows too.
SameLane == (s1 :> laneA) @@ (s2 :> laneA)

\* A single agent.
One == s1 :> laneA
OneRelated == s1 :> {s1}
OneParent == s1 :> NoSession

\* Claim ids are interchangeable.
ClaimSymmetry == Permutations({c1, c2})
\* So are two agents of one lane.
Twins == ClaimSymmetry \cup Permutations({s1, s2})
           \cup {p @@ q : p \in ClaimSymmetry, q \in Permutations({s1, s2})}
=============================================================================
