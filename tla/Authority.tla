----------------------------- MODULE Authority ------------------------------
(***************************************************************************)
(* The exact-authority ledger: coord/exact_authority.py, the triggers of   *)
(* 002_exact_authority.sql and coord_db.adjudicate_live_authority.         *)
(*                                                                         *)
(* Versions are rows nobody edits, heads point at the version in force per *)
(* kind and work row, and a generation names the versions one publication, *)
(* one adjudication or the stream of new rows wrote.  A row also carries   *)
(* its own declaration.  Content hashes are modelled by the content: where *)
(* it came from (src) and whether it is adjudicated (st).                  *)
(***************************************************************************)
EXTENDS Integers, FiniteSets

CONSTANTS
  Subject,      \* work ids
  Manifest,     \* generation ids of manifests that may be published
  Ruling,       \* operation ids of adjudications
  Controller,   \* sessions
  MaxVersion    \* bound on head_version

\* The generation of the declarations new rows carry; a manifest's is named by
\* its hash and an adjudication's by its request.
Live == "coord-live-declarations-r1"

ASSUME AuthorityAssumption == MaxVersion \in Nat \ {0} /\ Live \notin Manifest \cup Ruling

VARIABLES
  declared,    \* work_items.authority_declaration_json
  versions,    \* coord_authority_versions
  heads,       \* coord_authority_heads
  generations, \* coord_authority_generations
  policy,      \* coord_authority_policy: [mode, active]
  holds,       \* sessions with a held claim on each row
  plan         \* a rollback being prepared, and whether source_change_seq moved

authVars == <<declared, versions, heads, generations, policy, holds, plan>>

Kinds == {"plane", "lineage", "value_pin"}
None == [src |-> "none", st |-> "none"]
NoHead == [ver |-> 0, gen |-> "none", content |-> None]
NoPlan == [on |-> FALSE, gen |-> "none", current |-> TRUE, saw |-> << >>]

AuthorityInit ==
  /\ declared = [w \in Subject |-> None]
  /\ versions = {} /\ generations = {}
  /\ heads = [p \in Kinds \X Subject |-> NoHead]
  /\ policy = [mode |-> "audit", active |-> "none"]
  /\ holds = [w \in Subject |-> {}]
  /\ plan = NoPlan

\* The coord_seq_* triggers: every write moves source_change_seq.
Moved == plan' = [plan EXCEPT !.current = FALSE]

\* head_version of the next version; UNIQUE(authority_kind, work_id,
\* head_version) refuses one that is taken.
NextVersion(k, w) == heads[k, w].ver + 1
Taken(k, w, n) == \E v \in versions : v.kind = k /\ v.work = w /\ v.ver = n

\* INSERT into versions and upsert into heads, for the kinds and rows in pairs.
AppendVersions(pairs, gen, content) ==
  /\ \A p \in pairs : ~Taken(p[1], p[2], NextVersion(p[1], p[2]))
                      /\ NextVersion(p[1], p[2]) <= MaxVersion
  /\ versions' = versions \cup
       {[kind |-> p[1], work |-> p[2], ver |-> NextVersion(p[1], p[2]), gen |-> gen,
         content |-> content] : p \in pairs}
  /\ heads' = [p \in Kinds \X Subject |->
       IF p \in pairs
       THEN [ver |-> NextVersion(p[1], p[2]), gen |-> gen, content |-> content]
       ELSE heads[p]]

-----------------------------------------------------------------------------
\* A row inserted with a typed declaration.  Under enforcement the trigger
\* coord_exact_new_work_materialize_heads writes its first versions: all
\* three kinds of an adjudicated one, the plane of one kept in quarantine.
InsertWork(w, st) ==
  /\ declared[w] = None
  /\ LET content == [src |-> "creator", st |-> st]
         kinds == IF st = "adjudicated" THEN Kinds ELSE {"plane"}
     IN /\ declared' = [declared EXCEPT ![w] = content]
        /\ IF policy.mode = "enforce" THEN AppendVersions(kinds \X {w}, Live, content)
           ELSE UNCHANGED <<versions, heads>>
  /\ Moved
  /\ UNCHANGED <<generations, policy, holds>>

\* publish_exact_authority_manifest.  A generation that is there already is
\* answered as published and not activated again.
Publish(g, rows, mode) ==
  /\ g \notin generations
  /\ rows # {} /\ \A w \in rows : declared[w] # None
  /\ AppendVersions(Kinds \X rows, g, [src |-> g, st |-> "adjudicated"])
  /\ generations' = generations \cup {g, Live}
  /\ policy' = [mode |-> mode, active |-> g]
  /\ Moved
  /\ UNCHANGED <<declared, holds>>

\* adjudicate_live_authority: the caller's held claim and no foreign one,
\* the plane head as the caller saw it, a declaration that agrees with it.
MayAdjudicate(c, w, op) ==
  /\ op \notin generations
  /\ holds[w] = {c}
  /\ heads["plane", w] # NoHead
  /\ declared[w] = heads["plane", w].content
Adjudicate(c, w, op) ==
  /\ MayAdjudicate(c, w, op) /\ Live \in generations
  /\ LET content == [src |-> op, st |-> "adjudicated"]
     IN /\ AppendVersions(Kinds \X {w}, op, content)
        /\ declared' = [declared EXCEPT ![w] = content]
  /\ generations' = generations \cup {op}
  /\ Moved
  /\ UNCHANGED <<policy, holds>>

\* An operator reads the active generation and the source sequence.
PlanRollback ==
  /\ policy.active # "none"
  /\ plan' = [on |-> TRUE, gen |-> policy.active, current |-> TRUE, saw |-> heads]
  /\ UNCHANGED <<declared, versions, heads, generations, policy, holds>>

\* Mutant: the generation is compared and the source sequence is not.
GenerationUnmoved == plan.on /\ policy.active = plan.gen
\* The two compare-and-swaps of rollback_authority_activation.
PlanHolds == plan.on /\ policy.active = plan.gen /\ plan.current

Restored(target) ==
  [p \in Kinds \X Subject |->
     LET of == {v \in versions : v.kind = p[1] /\ v.work = p[2] /\ v.gen = target}
     IN IF of = {} THEN NoHead
        ELSE LET v == CHOOSE v \in of : TRUE
             IN [ver |-> v.ver, gen |-> v.gen, content |-> v.content]]

\* rollback_authority_activation: every head goes, the target's come back.
Rollback(target) ==
  /\ PlanHolds /\ target \in generations \cup {"none"}
  /\ heads' = Restored(target)
  /\ policy' = [mode |-> IF target = "none" THEN "audit" ELSE "enforce", active |-> target]
  /\ plan' = NoPlan
  /\ UNCHANGED <<declared, versions, generations, holds>>

\* Claims come and go with the lifecycle verbs (ClaimLifecycle).
ClaimFlips(c, w) ==
  /\ declared[w] # None
  /\ holds' = [holds EXCEPT ![w] = IF c \in @ THEN @ \ {c} ELSE @ \cup {c}]
  /\ Moved
  /\ UNCHANGED <<declared, versions, heads, generations, policy>>

AuthorityNext ==
  \/ \E w \in Subject, st \in {"needs_review", "adjudicated"} : InsertWork(w, st)
  \/ \E g \in Manifest, rows \in SUBSET Subject, m \in {"audit", "enforce"} : Publish(g, rows, m)
  \/ \E c \in Controller, w \in Subject, op \in Ruling : Adjudicate(c, w, op)
  \/ PlanRollback
  \/ \E t \in Manifest \cup Ruling \cup {Live, "none"} : Rollback(t)
  \/ \E c \in Controller, w \in Subject : ClaimFlips(c, w)

AuthoritySpec == AuthorityInit /\ [][AuthorityNext]_authVars

-----------------------------------------------------------------------------
(* Properties.                                                             *)

\* A rollback discards no head its operator had not seen: an adjudication
\* or a new row between reading the ledger and rolling it back refuses the
\* rollback, although neither changes the active generation
\* (rollback_authority_activation).
RollbackSawAll ==
  [][\A t \in generations \cup {"none"} : Rollback(t) => heads = plan.saw]_authVars
=============================================================================
