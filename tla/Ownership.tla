----------------------------- MODULE Ownership -----------------------------
(***************************************************************************)
(* What the claim tables promise, whatever verbs and maintenance passes    *)
(* write them: every row has at most one owner, the claim of the current   *)
(* ownership epoch; an epoch that ended is never resumed; and one claim    *)
(* takes over from another only when the lease of the other has lapsed.    *)
(* docs/coordination-model.md: "at most one held claim ... at a time".     *)
(***************************************************************************)
CONSTANTS Work, Claim, NoClaim

VARIABLES
  owner,   \* the claim that holds each row, or NoClaim
  spent,   \* claims whose epoch is over
  lapsed   \* owners whose lease has expired

ownVars == <<owner, spent, lapsed>>

Init ==
  /\ owner = [w \in Work |-> NoClaim]
  /\ spent = {}
  /\ lapsed = {}

Owners == {owner[w] : w \in Work}

\* The epochs of the rows of W end.
Release(W) ==
  /\ owner' = [w \in Work |-> IF w \in W THEN NoClaim ELSE owner[w]]
  /\ spent' = spent \cup ({owner[w] : w \in W} \ {NoClaim})

\* A claim never used before starts an epoch on a free or lapsed row.
Acquire(w, c) ==
  /\ c \notin spent /\ c \notin Owners
  /\ owner[w] = NoClaim \/ owner[w] \in lapsed
  /\ owner' = [owner EXCEPT ![w] = c]
  /\ spent' = spent \cup ({owner[w]} \ {NoClaim})

\* Leases lapse, and are renewed, without any change of owner.
Keep == UNCHANGED <<owner, spent>>

Next ==
  /\ \/ Keep
     \/ \E W \in SUBSET Work : Release(W)
     \/ \E w \in Work, c \in Claim : Acquire(w, c)
  /\ lapsed' \subseteq Claim

Spec == Init /\ [][Next]_ownVars
=============================================================================
