------------------------------ MODULE Releases ------------------------------
(* Retention of console releases: a plan is built from the release root and  *)
(* applied later, under the activation lock, directory by directory.  In     *)
(* between releases are prepared and activated, other files come to name a   *)
(* release, processes open one, and the one who applies may be killed.       *)
EXTENDS Naturals, FiniteSets

CONSTANTS
  Release,          \* release directories, numbers so that names are ordered
  KeepRollback,     \* keep_unreferenced_complete
  MaxComplete,      \* MAX_COMPLETE_BEFORE_PREPARE
  MaxPrepared, MaxTouches

ASSUME ReleaseAssumption == Release \subseteq Nat /\ IsFiniteSet(Release)

VARIABLES
  dirs,             \* release -> kind, identity (device, inode, mtime) and, for a partial, age
  strays,           \* quarantined directories left behind
  pointers,         \* current and previous
  lock,             \* who holds activation.lock
  named,            \* releases that JSON files elsewhere in the runtime name
  opened,           \* releases with an open file handle
  retention, applying,   \* the plan on file; the deletions still to do
  preparedCount, touches

releaseVars == <<dirs, strays, pointers, lock, named, opened, retention, applying, preparedCount, touches>>

NoDir == [kind |-> "none", id |-> 0, old |-> FALSE]
NoRetention == [built |-> FALSE, pointers |-> [current |-> 0, previous |-> 0], delete |-> {}]
Kind(k) == {r \in Release : dirs[r].kind = k}
Protected == {pointers.current, pointers.previous}

ReleasesInit ==
  \E c, p \in Release :
    /\ c # p /\ pointers = [current |-> c, previous |-> p]
    /\ dirs = [r \in Release |-> IF r \in {c, p} THEN [kind |-> "complete", id |-> r, old |-> FALSE] ELSE NoDir]
    /\ strays = {} /\ lock = {} /\ named = {} /\ opened = {} /\ retention = NoRetention /\ applying = {}
    /\ preparedCount = 0 /\ touches = 0

-----------------------------------------------------------------------------
(* Release tooling and everyone else. *)
PrepareCapacity == strays = {} /\ Kind("partial") = {} /\ Cardinality(Kind("complete")) <= MaxComplete
\* Identities are handed out in order of preparation, as modification times are.
Prepares(r) ==
  /\ PrepareCapacity /\ preparedCount < MaxPrepared /\ dirs[r] = NoDir
  /\ preparedCount' = preparedCount + 1
  /\ dirs' = [dirs EXCEPT ![r] = [kind |-> "partial", id |-> Cardinality(Release) + preparedCount', old |-> FALSE]]
  /\ UNCHANGED <<strays, pointers, lock, named, opened, retention, applying, touches>>
Completes(r) ==
  /\ dirs[r].kind = "partial" /\ dirs' = [dirs EXCEPT ![r] = [@ EXCEPT !.kind = "complete", !.old = FALSE]]
  /\ UNCHANGED <<strays, pointers, lock, named, opened, retention, applying, preparedCount, touches>>
Ages(r) ==
  /\ dirs[r].kind = "partial" /\ ~dirs[r].old /\ dirs' = [dirs EXCEPT ![r].old = TRUE]
  /\ UNCHANGED <<strays, pointers, lock, named, opened, retention, applying, preparedCount, touches>>
ActivatorLocks ==
  /\ lock = {} /\ lock' = {"activator"}
  /\ UNCHANGED <<dirs, strays, pointers, named, opened, retention, applying, preparedCount, touches>>
\* To a new release or back to an older one.
Activates(r) ==
  /\ "activator" \in lock /\ lock' = lock \ {"activator"}
  /\ dirs[r].kind = "complete" /\ r # pointers.current
  /\ pointers' = [current |-> r, previous |-> pointers.current]
  /\ UNCHANGED <<dirs, strays, named, opened, retention, applying, preparedCount, touches>>
Toggle(S, r) == IF r \in S THEN S \ {r} ELSE S \cup {r}
\* Somebody names a release, or stops naming it; opens one, or closes it.
Touches(r) ==
  /\ touches < MaxTouches /\ touches' = touches + 1 /\ dirs[r] # NoDir
  /\ \/ named' = Toggle(named, r) /\ UNCHANGED opened
     \/ opened' = Toggle(opened, r) /\ UNCHANGED named
  /\ UNCHANGED <<dirs, strays, pointers, lock, retention, applying, preparedCount>>

-----------------------------------------------------------------------------
(* build_retention_plan *)
Newest(S, n) == {r \in S : Cardinality({q \in S : dirs[q].id > dirs[r].id}) < n}
PartialDelete == {r \in Kind("partial") : dirs[r].old /\ r \notin named}
RollbackReleases == Kind("complete") \ Protected
CompleteDelete == RollbackReleases \ Newest(RollbackReleases, KeepRollback)
\* An entry that is neither a release nor a partial stops the planner.
BuildsPlan ==
  /\ strays = {}
  /\ retention' = [built |-> TRUE, pointers |-> pointers,
              delete |-> {[name |-> r, kind |-> dirs[r].kind, id |-> dirs[r].id, named |-> r \in named] :
                            r \in PartialDelete \cup CompleteDelete}]
  /\ retention # retention'
  /\ UNCHANGED <<dirs, strays, pointers, lock, named, opened, applying, preparedCount, touches>>

(* apply_retention_plan *)
\* Mutant: the lock is not looked at.
LockNotNeeded == TRUE
ActivationFree == lock = {}
PlanTarget(e) ==
  /\ e.name \notin Protected /\ dirs[e.name].kind = e.kind /\ dirs[e.name].id = e.id
  /\ (e.name \in named) = e.named /\ (e.kind = "partial" => e.name \notin named)
  /\ e.name \notin opened
\* The plan stays on file and may be applied again.
AppliesPlan ==
  /\ retention.built /\ ActivationFree
  /\ retention.pointers = pointers /\ \A e \in retention.delete : PlanTarget(e)
  /\ lock' = lock \cup {"retention"} /\ applying' = {e.name : e \in retention.delete}
  /\ UNCHANGED <<dirs, strays, pointers, named, opened, retention, preparedCount, touches>>
\* Moved aside, then removed.
Quarantines(r) ==
  /\ "retention" \in lock /\ r \in applying /\ strays = {}
  /\ dirs' = [dirs EXCEPT ![r] = NoDir] /\ strays' = {r} /\ applying' = applying \ {r}
  /\ UNCHANGED <<pointers, lock, named, opened, retention, preparedCount, touches>>
Removes ==
  /\ "retention" \in lock /\ strays # {} /\ strays' = {}
  /\ UNCHANGED <<dirs, pointers, lock, named, opened, retention, applying, preparedCount, touches>>
EndsApply ==
  /\ "retention" \in lock /\ applying = {} /\ strays = {}
  /\ lock' = lock \ {"retention"}
  /\ UNCHANGED <<dirs, strays, pointers, named, opened, retention, applying, preparedCount, touches>>
\* The lock dies with its holder; what was moved aside stays.
ApplierDies ==
  /\ "retention" \in lock /\ applying' = {}
  /\ lock' = lock \ {"retention"}
  /\ UNCHANGED <<dirs, strays, pointers, named, opened, retention, preparedCount, touches>>

ReleasesNext ==
  \/ \E r \in Release : Prepares(r) \/ Completes(r) \/ Ages(r) \/ Activates(r) \/ Touches(r) \/ Quarantines(r)
  \/ ActivatorLocks \/ BuildsPlan \/ AppliesPlan \/ Removes \/ EndsApply \/ ApplierDies

ReleasesSpec == ReleasesInit /\ [][ReleasesNext]_releaseVars

-----------------------------------------------------------------------------
(* The releases that current and previous name are on disk, whole, whatever  *)
(* was activated between planning and applying and wherever an apply died.   *)
PointersStand == \A r \in Protected : dirs[r].kind = "complete"
=============================================================================
