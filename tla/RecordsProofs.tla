---------------------------- MODULE RecordsProofs ----------------------------
(***************************************************************************)
(* What is kept on record, for every value of the constants: the releases  *)
(* the pointers name, the ledger of exact authority and what a rollback of *)
(* it discards, the anchors of the usage ledger, the rate card its costs   *)
(* are priced with, the rows an import writes, the daily series of an      *)
(* account, the replica of the knowledge plane's sources, and the evidence *)
(* of the test gate and the clean room.                                    *)
(***************************************************************************)
EXTENDS Releases, Authority, UsageLedger, RateCard, Ingest, UsageFiles, TestHarness, FiniteSetTheorems, TLAPS

-----------------------------------------------------------------------------
(* Releases.  The activation lock has one holder, and what is being        *)
(* deleted under it is named by no pointer.                                *)

\* What is known of a directory (_entry); the lock has at most one holder.
Entry == [kind : {"none", "partial", "complete"}, id : Int, old : BOOLEAN]
ReleasesTypeOK ==
  /\ dirs \in [Release -> Entry] /\ preparedCount \in Int
  /\ pointers \in [current : Release, previous : Release]
  /\ lock \in {{}, {"activator"}, {"retention"}}
DeletesApart ==
  /\ "retention" \notin lock => applying = {}
  /\ \A r \in Protected : r \notin applying
ReleasesInv == ReleasesTypeOK /\ DeletesApart /\ PointersStand

\* Two complete releases are named and nothing is being deleted.
LEMMA ReleasesStart == ReleasesInit => ReleasesInv
<1> SUFFICES ASSUME ReleasesInit PROVE ReleasesInv
  OBVIOUS
<1>1. PICK c \in Release, p \in Release :
        /\ pointers = [current |-> c, previous |-> p]
        /\ dirs = [r \in Release |-> IF r \in {c, p} THEN [kind |-> "complete", id |-> r, old |-> FALSE] ELSE NoDir]
        /\ lock = {} /\ applying = {}
  BY DEF ReleasesInit
<1>2. \A r \in Release : r \in Int
  BY ReleaseAssumption DEF ReleaseAssumption
<1>3. dirs \in [Release -> Entry]
  BY <1>1, <1>2 DEF Entry, NoDir
<1>4. ReleasesTypeOK
  BY <1>1, <1>3 DEF ReleasesInit, ReleasesTypeOK
<1>5. DeletesApart /\ PointersStand
  BY <1>1 DEF DeletesApart, PointersStand, Protected
<1> QED BY <1>4, <1>5 DEF ReleasesInv

\* Directories that come, are completed or age are not the ones named.
LEMMA ToolingKeeps ==
  ASSUME ReleasesInv, NEW r \in Release, Prepares(r) \/ Completes(r) \/ Ages(r)
  PROVE ReleasesInv'
<1>1. pointers' = pointers /\ lock' = lock /\ applying' = applying
  BY DEF Prepares, Completes, Ages
<1>2. dirs \in [Release -> Entry] /\ preparedCount \in Int /\ Protected \subseteq Release
  BY DEF ReleasesInv, ReleasesTypeOK, Protected
<1>3. dirs[r].kind \in {"none", "partial"}
  BY DEF Prepares, Completes, Ages, NoDir
<1>4. r \notin Protected
  BY <1>3 DEF ReleasesInv, PointersStand
<1>5. preparedCount' \in Int /\ \E e \in Entry : dirs' = [dirs EXCEPT ![r] = e]
  <2>1. CASE Prepares(r)
    <3> DEFINE n == Cardinality(Release) + preparedCount'
    <3>1. Cardinality(Release) \in Nat
      BY ReleaseAssumption, FS_CardinalityType DEF ReleaseAssumption
    <3>2. preparedCount' = preparedCount + 1
      BY <2>1 DEF Prepares
    <3>3. n \in Int
      BY <1>2, <3>1, <3>2
    <3>4. dirs' = [dirs EXCEPT ![r] = [kind |-> "partial", id |-> n, old |-> FALSE]]
      BY <2>1 DEF Prepares
    <3> HIDE DEF n
    <3>5. [kind |-> "partial", id |-> n, old |-> FALSE] \in Entry
      BY <3>3 DEF Entry
    <3>6. \E d \in Entry : dirs' = [dirs EXCEPT ![r] = d]
      BY <3>4, <3>5, Zenon
    <3>7. preparedCount' \in Int
      BY <1>2, <3>2
    <3> QED BY <3>6, <3>7
  <2>2. CASE Completes(r)
    <3>1. dirs' = [dirs EXCEPT ![r] = [dirs[r] EXCEPT !.kind = "complete", !.old = FALSE]]
      BY <2>2 DEF Completes
    <3>2. [dirs[r] EXCEPT !.kind = "complete", !.old = FALSE] \in Entry
      BY <1>2 DEF Entry
    <3> QED BY <1>2, <2>2, <3>1, <3>2 DEF Completes
  <2>3. CASE Ages(r)
    <3>1. dirs' = [dirs EXCEPT ![r] = [dirs[r] EXCEPT !.old = TRUE]]
      BY <2>3 DEF Ages
    <3>2. [dirs[r] EXCEPT !.old = TRUE] \in Entry
      BY <1>2 DEF Entry
    <3> QED BY <1>2, <2>3, <3>1, <3>2 DEF Ages
  <2> QED BY <2>1, <2>2, <2>3
<1>6. dirs' \in [Release -> Entry] /\ \A q \in Protected : dirs'[q] = dirs[q]
  BY <1>2, <1>4, <1>5
<1>7. ReleasesTypeOK'
  BY <1>1, <1>5, <1>6 DEF ReleasesInv, ReleasesTypeOK
<1>8. DeletesApart' /\ PointersStand'
  BY <1>1, <1>6 DEF ReleasesInv, DeletesApart, PointersStand, Protected
<1> QED BY <1>7, <1>8 DEF ReleasesInv

\* An activation needs the lock an apply holds, and moves to a whole release.
LEMMA ActivationKeeps ==
  ASSUME ReleasesInv, ActivatorLocks \/ \E r \in Release : Activates(r)
  PROVE ReleasesInv'
<1>1. dirs' = dirs /\ applying' = applying /\ preparedCount' = preparedCount
  BY DEF ActivatorLocks, Activates
<1>2. CASE ActivatorLocks
  BY <1>1, <1>2 DEF ActivatorLocks, ReleasesInv, ReleasesTypeOK, DeletesApart, PointersStand, Protected
<1>3. ASSUME NEW r \in Release, Activates(r) PROVE ReleasesInv'
  <2>1. lock = {"activator"} /\ lock' = {} /\ applying = {}
    BY <1>3 DEF Activates, ReleasesInv, ReleasesTypeOK, DeletesApart
  <2>2. dirs[r].kind = "complete" /\ pointers' = [current |-> r, previous |-> pointers.current]
    BY <1>3 DEF Activates
  <2>3. ReleasesTypeOK'
    BY <1>1, <2>1, <2>2 DEF ReleasesInv, ReleasesTypeOK
  <2>4. DeletesApart' /\ PointersStand'
    BY <1>1, <2>1, <2>2 DEF ReleasesInv, DeletesApart, PointersStand, Protected
  <2> QED BY <2>3, <2>4 DEF ReleasesInv
<1> QED BY <1>2, <1>3

\* An apply takes the lock, deletes what no pointer names and lets go.
LEMMA ApplyKeeps ==
  ASSUME ReleasesInv, AppliesPlan \/ (\E r \in Release : Quarantines(r)) \/ Removes \/ EndsApply \/ ApplierDies
  PROVE ReleasesInv'
<1>1. pointers' = pointers /\ preparedCount' = preparedCount
  BY DEF AppliesPlan, Quarantines, Removes, EndsApply, ApplierDies
<1>2. CASE AppliesPlan
  <2>1. dirs' = dirs /\ lock' = {"retention"} /\ \A r \in applying' : r \notin Protected
    BY <1>2 DEF AppliesPlan, ActivationFree, PlanTarget
  <2> QED BY <1>1, <2>1 DEF ReleasesInv, ReleasesTypeOK, DeletesApart, PointersStand, Protected
<1>3. ASSUME NEW r \in Release, Quarantines(r) PROVE ReleasesInv'
  <2>1. /\ preparedCount' = preparedCount
        /\ r \in applying /\ lock' = lock /\ applying' = applying \ {r}
        /\ dirs' = [dirs EXCEPT ![r] = NoDir] /\ "retention" \in lock
    BY <1>3 DEF Quarantines
  <2>2. r \notin Protected
    BY <2>1 DEF ReleasesInv, DeletesApart
  <2>3. NoDir \in Entry
    BY DEF NoDir, Entry
  <2>4. dirs' \in [Release -> Entry] /\ \A q \in Protected : dirs'[q] = dirs[q]
    BY <2>1, <2>2, <2>3 DEF ReleasesInv, ReleasesTypeOK
  <2> QED BY <1>1, <2>1, <2>4 DEF ReleasesInv, ReleasesTypeOK, DeletesApart, PointersStand, Protected
<1>4. CASE Removes \/ EndsApply \/ ApplierDies
  <2>1. /\ dirs' = dirs /\ lock' \in {lock, lock \ {"retention"}} /\ applying' \in {applying, {}}
        /\ "retention" \notin lock' => applying' = {}
    BY <1>4 DEF Removes, EndsApply, ApplierDies
  <2>2. lock' \in {{}, {"activator"}, {"retention"}}
    BY <2>1 DEF ReleasesInv, ReleasesTypeOK
  <2> QED BY <1>1, <2>1, <2>2 DEF ReleasesInv, ReleasesTypeOK, DeletesApart, PointersStand, Protected
<1> QED BY <1>2, <1>3, <1>4

\* The invariant is inductive: planning and the ones that open or name a
\* release leave the directories and the pointers alone.
LEMMA ReleasesKeep == ReleasesInv /\ [ReleasesNext]_releaseVars => ReleasesInv'
<1> SUFFICES ASSUME ReleasesInv, [ReleasesNext]_releaseVars PROVE ReleasesInv'
  OBVIOUS
<1>1. CASE (\E r \in Release : Touches(r)) \/ BuildsPlan \/ UNCHANGED releaseVars
  <2>1. /\ dirs' = dirs /\ pointers' = pointers /\ lock' = lock /\ applying' = applying
        /\ preparedCount' = preparedCount
    BY <1>1 DEF Touches, BuildsPlan, releaseVars
  <2> QED BY <2>1 DEF ReleasesInv, ReleasesTypeOK, DeletesApart, PointersStand, Protected
<1> QED BY <1>1, ToolingKeeps, ActivationKeeps, ApplyKeeps DEF ReleasesNext

\* However plans, activations, applies and deaths interleave, and whatever the
\* retention policy keeps, the releases that current and previous name are on
\* disk and complete (apply_retention_plan).
THEOREM PointersStandHolds == ReleasesSpec => []PointersStand
<1>1. ReleasesInv => PointersStand
  BY DEF ReleasesInv
<1>2. ReleasesSpec => []ReleasesInv
  BY ReleasesStart, ReleasesKeep, PTL DEF ReleasesSpec
<1> QED BY <1>1, <1>2, PTL

-----------------------------------------------------------------------------
(* Exact authority.  The ledger has one version per number and one per     *)
(* generation of each kind and row, so a rollback restores exactly one;    *)
(* a head is a version on the ledger; and while the source sequence stands *)
(* the heads are the ones the operator of a rollback saw.                  *)

Pairs == Kinds \X Subject
\* A version as the ledger has it (coord_authority_versions).
VersionOf(p, h) == [kind |-> p[1], work |-> p[2], ver |-> h.ver, gen |-> h.gen, content |-> h.content]
HeadOf(v) == [ver |-> v.ver, gen |-> v.gen, content |-> v.content]
LedgerTypeOK ==
  /\ heads = [p \in Pairs |-> heads[p]]
  /\ \A v \in versions : <<v.kind, v.work>> \in Pairs /\ v = VersionOf(<<v.kind, v.work>>, v)
  /\ \A p \in Pairs : heads[p] = HeadOf(heads[p])
  /\ DOMAIN declared = Subject
OneOfNumber == \A u, v \in versions : u.kind = v.kind /\ u.work = v.work /\ u.ver = v.ver => u = v
OneOfGeneration == \A u, v \in versions : u.kind = v.kind /\ u.work = v.work /\ u.gen = v.gen => u = v
HeadsOnLedger == \A p \in Pairs : heads[p] # NoHead => VersionOf(p, heads[p]) \in versions
\* Where the generation of a version came from: a publication or an
\* adjudication on record, or the declaration its row carries.
GenerationsOnRecord ==
  \A v \in versions : (v.gen = Live \/ v.gen \in generations) /\ (v.gen = Live => declared[v.work] # None)

\* The ledger tells every head apart and where it came from.
LedgerStands == OneOfNumber /\ OneOfGeneration /\ HeadsOnLedger
LedgerInv == LedgerTypeOK /\ LedgerStands /\ GenerationsOnRecord
\* What the operator of a rollback saw.
PlanInv ==
  /\ plan = [on |-> plan.on, gen |-> plan.gen, current |-> plan.current, saw |-> plan.saw]
  /\ plan.on /\ plan.current => heads = plan.saw

\* An empty ledger.
LEMMA LedgerStart == AuthorityInit => LedgerInv /\ PlanInv
<1> SUFFICES ASSUME AuthorityInit PROVE LedgerInv /\ PlanInv
  OBVIOUS
<1>1. versions = {} /\ heads = [p \in Pairs |-> NoHead] /\ DOMAIN declared = Subject
  BY DEF AuthorityInit, Pairs
<1>2. LedgerTypeOK
  BY <1>1 DEF LedgerTypeOK, HeadOf, NoHead
<1>3. OneOfNumber /\ OneOfGeneration /\ HeadsOnLedger /\ GenerationsOnRecord
  BY <1>1 DEF OneOfNumber, OneOfGeneration, HeadsOnLedger, GenerationsOnRecord
<1>4. PlanInv
  BY DEF AuthorityInit, NoPlan, PlanInv
<1> QED BY <1>2, <1>3, <1>4 DEF LedgerInv, LedgerStands

\* Versions appended under the next number and a generation that wrote none of
\* their kind and row keep the ledger.
LEMMA AppendKeeps ==
  ASSUME LedgerInv, NEW pairs \in SUBSET Pairs, NEW gen, NEW content, AppendVersions(pairs, gen, content),
         \A p \in pairs, v \in versions : v.kind = p[1] /\ v.work = p[2] => v.gen # gen,
         generations \subseteq generations', gen = Live \/ gen \in generations',
         DOMAIN declared' = Subject, \A w \in Subject : declared[w] # None => declared'[w] # None,
         gen = Live => \A p \in pairs : declared'[p[2]] # None
  PROVE LedgerInv'
<1> DEFINE n(p) == NextVersion(p[1], p[2])
           new(p) == [kind |-> p[1], work |-> p[2], ver |-> n(p), gen |-> gen, content |-> content]
           head(p) == [ver |-> n(p), gen |-> gen, content |-> content]
<1>1. /\ versions' = versions \cup {new(p) : p \in pairs}
      /\ heads' = [p \in Pairs |-> IF p \in pairs THEN head(p) ELSE heads[p]]
      /\ \A p \in pairs, v \in versions : v.kind = p[1] /\ v.work = p[2] => v.ver # n(p)
  BY DEF AppendVersions, Taken, Pairs
<1>2. \A p \in pairs : /\ new(p).kind = p[1] /\ new(p).work = p[2] /\ new(p).ver = n(p) /\ new(p).gen = gen
                       /\ <<new(p).kind, new(p).work>> \in Pairs
                       /\ new(p) = VersionOf(<<new(p).kind, new(p).work>>, new(p))
                       /\ new(p) = VersionOf(p, head(p)) /\ head(p) = HeadOf(head(p))
  BY DEF VersionOf, HeadOf, Pairs
<1>3. \A p, q \in pairs : p[1] = q[1] /\ p[2] = q[2] => p = q
  BY DEF Pairs
<1>4. \A p \in pairs : p[2] \in Subject
  BY DEF Pairs
<1> HIDE DEF n, new, head
<1>5. LedgerTypeOK'
  BY <1>1, <1>2, ZenonT(40) DEF LedgerInv, LedgerTypeOK
<1>6. OneOfNumber'
  <2>1. SUFFICES ASSUME NEW u \in versions', NEW v \in versions', u.kind = v.kind, u.work = v.work, u.ver = v.ver
                 PROVE u = v
    BY DEF OneOfNumber
  <2>2. CASE u \in versions /\ v \in versions
    BY <2>1, <2>2 DEF LedgerInv, LedgerStands, OneOfNumber
  <2>3. ASSUME NEW p \in pairs, NEW x \in versions, x.kind = new(p).kind, x.work = new(p).work PROVE x.ver # new(p).ver
    BY <1>1, <1>2, <2>3
  <2>4. ASSUME NEW p \in pairs, NEW q \in pairs, u = new(p), v = new(q) PROVE u = v
    BY <1>2, <1>3, <2>1, <2>4
  <2> QED BY <1>1, <2>1, <2>2, <2>3, <2>4
<1>7. OneOfGeneration'
  <2>1. SUFFICES ASSUME NEW u \in versions', NEW v \in versions', u.kind = v.kind, u.work = v.work, u.gen = v.gen
                 PROVE u = v
    BY DEF OneOfGeneration
  <2>2. CASE u \in versions /\ v \in versions
    BY <2>1, <2>2 DEF LedgerInv, LedgerStands, OneOfGeneration
  <2>3. ASSUME NEW p \in pairs, NEW x \in versions, x.kind = new(p).kind, x.work = new(p).work PROVE x.gen # new(p).gen
    BY <1>2, <2>3
  <2>4. ASSUME NEW p \in pairs, NEW q \in pairs, u = new(p), v = new(q) PROVE u = v
    BY <1>2, <1>3, <2>1, <2>4
  <2> QED BY <1>1, <2>1, <2>2, <2>3, <2>4
<1>8. HeadsOnLedger'
  BY <1>1, <1>2 DEF LedgerInv, LedgerStands, HeadsOnLedger
<1>9. GenerationsOnRecord'
  <2>1. SUFFICES ASSUME NEW v \in versions'
                 PROVE (v.gen = Live \/ v.gen \in generations') /\ (v.gen = Live => declared'[v.work] # None)
    BY DEF GenerationsOnRecord
  <2>2. CASE v \in versions
    <3>1. v.work \in Subject
      BY <2>2 DEF LedgerInv, LedgerTypeOK, Pairs
    <3> QED BY <2>2, <3>1 DEF LedgerInv, GenerationsOnRecord
  <2>3. ASSUME NEW p \in pairs, v = new(p)
        PROVE (v.gen = Live \/ v.gen \in generations') /\ (v.gen = Live => declared'[v.work] # None)
    BY <1>2, <2>3
  <2> QED BY <1>1, <2>2, <2>3
<1> QED BY <1>5, <1>6, <1>7, <1>8, <1>9 DEF LedgerInv, LedgerStands

\* A declaration alone, or a generation alone, keeps the ledger.
LEMMA LedgerStays ==
  ASSUME LedgerInv, versions' = versions, heads' = heads, generations \subseteq generations',
         DOMAIN declared' = Subject, \A w \in Subject : declared[w] # None => declared'[w] # None
  PROVE LedgerInv'
<1>1. LedgerTypeOK' /\ OneOfNumber' /\ OneOfGeneration' /\ HeadsOnLedger'
  BY DEF LedgerInv, LedgerStands, LedgerTypeOK, OneOfNumber, OneOfGeneration, HeadsOnLedger
<1>2. GenerationsOnRecord'
  <2>1. \A v \in versions : v.work \in Subject
    BY DEF LedgerInv, LedgerTypeOK, Pairs
  <2> QED BY <2>1 DEF LedgerInv, GenerationsOnRecord
<1> QED BY <1>1, <1>2 DEF LedgerInv, LedgerStands

\* Inserting declares a row once, so its live versions are its first.
LEMMA InsertKeeps ==
  ASSUME LedgerInv, NEW w \in Subject, NEW st \in {"needs_review", "adjudicated"}, InsertWork(w, st)
  PROVE LedgerInv'
<1> DEFINE content == [src |-> "creator", st |-> st]
           kinds == IF st = "adjudicated" THEN Kinds ELSE {"plane"}
<1>1. declared[w] = None /\ declared' = [declared EXCEPT ![w] = content] /\ generations' = generations
  BY DEF InsertWork
<1>2. content # None
  BY DEF None
<1>3. DOMAIN declared = Subject
  BY DEF LedgerInv, LedgerTypeOK
<1> HIDE DEF content
<1>4. DOMAIN declared' = Subject /\ declared'[w] # None /\ \A x \in Subject : declared[x] # None => declared'[x] # None
  BY <1>1, <1>2, <1>3
<1>5. CASE AppendVersions(kinds \X {w}, Live, content)
  <2>1. kinds \X {w} \in SUBSET Pairs
    BY DEF Pairs, Kinds
  <2>2. \A p \in kinds \X {w} : p[2] = w
    OBVIOUS
  <2> DEFINE pairs == kinds \X {w}
  <2> HIDE DEF pairs, kinds
  <2>3. \A p \in pairs, v \in versions : v.kind = p[1] /\ v.work = p[2] => v.gen # Live
    BY <1>1, <2>2 DEF LedgerInv, GenerationsOnRecord, pairs
  <2>4. \A p \in pairs : declared'[p[2]] # None
    BY <1>4, <2>2 DEF pairs
  <2>5. pairs \in SUBSET Pairs /\ AppendVersions(pairs, Live, content)
    BY <1>5, <2>1 DEF pairs
  <2> QED BY <1>1, <1>4, <2>3, <2>4, <2>5, AppendKeeps
<1>6. CASE versions' = versions /\ heads' = heads
  BY <1>1, <1>4, <1>6, LedgerStays
<1> QED BY <1>5, <1>6 DEF InsertWork, content

\* Whatever is written under a new generation keeps the ledger.
LEMMA GenerationKeeps ==
  ASSUME LedgerInv, NEW g, g \notin generations, g # Live, NEW subjects \in SUBSET Subject, NEW content,
         AppendVersions(Kinds \X subjects, g, content), g \in generations', generations \subseteq generations',
         DOMAIN declared' = Subject, \A w \in Subject : declared[w] # None => declared'[w] # None
  PROVE LedgerInv'
<1> DEFINE pairs == Kinds \X subjects
<1>1. pairs \in SUBSET Pairs /\ AppendVersions(pairs, g, content)
  BY DEF Pairs
<1> HIDE DEF pairs
<1>2. \A p \in pairs, v \in versions : v.kind = p[1] /\ v.work = p[2] => v.gen # g
  BY DEF LedgerInv, GenerationsOnRecord
<1> QED BY <1>1, <1>2, AppendKeeps

\* A manifest is published under its own name, once.
LEMMA PublishKeeps ==
  ASSUME LedgerInv, NEW g \in Manifest, NEW subjects \in SUBSET Subject, NEW m, Publish(g, subjects, m)
  PROVE LedgerInv'
<1>1. g # Live
  BY AuthorityAssumption DEF AuthorityAssumption
<1>2. g \notin generations /\ generations' = generations \cup {g, Live} /\ declared' = declared
  BY DEF Publish
<1>3. DOMAIN declared' = Subject
  BY <1>2 DEF LedgerInv, LedgerTypeOK
<1>4. AppendVersions(Kinds \X subjects, g, [src |-> g, st |-> "adjudicated"])
  BY DEF Publish
<1>5. g \in generations' /\ generations \subseteq generations' /\ \A w \in Subject : declared[w] # None => declared'[w] # None
  BY <1>2
<1>6. \A content : AppendVersions(Kinds \X subjects, g, content) => LedgerInv'
  BY <1>1, <1>2, <1>3, <1>5, GenerationKeeps
<1> QED BY <1>4, <1>6

\* An adjudication is made under its own name, once.
LEMMA AdjudicateKeeps ==
  ASSUME LedgerInv, NEW c \in Controller, NEW w \in Subject, NEW op \in Ruling, Adjudicate(c, w, op)
  PROVE LedgerInv'
<1> DEFINE content == [src |-> op, st |-> "adjudicated"]
<1>1. op # Live
  BY AuthorityAssumption DEF AuthorityAssumption
<1>2. /\ op \notin generations /\ generations' = generations \cup {op}
      /\ declared' = [declared EXCEPT ![w] = content] /\ AppendVersions(Kinds \X {w}, op, content)
  BY DEF Adjudicate, MayAdjudicate
<1>3. content # None
  BY DEF None
<1>4. DOMAIN declared = Subject
  BY DEF LedgerInv, LedgerTypeOK
<1> HIDE DEF content
<1>5. DOMAIN declared' = Subject /\ \A x \in Subject : declared[x] # None => declared'[x] # None
  BY <1>2, <1>3, <1>4
<1>6. op \in generations' /\ generations \subseteq generations' /\ {w} \in SUBSET Subject
  BY <1>2
<1> QED BY <1>1, <1>2, <1>5, <1>6, GenerationKeeps

\* What a rollback restores is on the ledger.
LEMMA RollbackKeeps ==
  ASSUME LedgerInv, NEW t, Rollback(t)
  PROVE LedgerInv'
<1>1. versions' = versions /\ declared' = declared /\ generations' = generations /\ heads' = Restored(t)
  BY DEF Rollback
<1> DEFINE Of(p) == {v \in versions : v.kind = p[1] /\ v.work = p[2] /\ v.gen = t}
<1>2. ASSUME NEW p \in Pairs
      PROVE \/ heads'[p] = NoHead
            \/ \E v \in versions : v.kind = p[1] /\ v.work = p[2] /\ heads'[p] = HeadOf(v)
  <2>1. heads'[p] = IF Of(p) = {} THEN NoHead
                    ELSE [ver |-> (CHOOSE v \in Of(p) : TRUE).ver, gen |-> (CHOOSE v \in Of(p) : TRUE).gen,
                          content |-> (CHOOSE v \in Of(p) : TRUE).content]
    BY <1>1 DEF Restored, Pairs
  <2>2. CASE Of(p) # {}
    <3>1. (CHOOSE v \in Of(p) : TRUE) \in Of(p)
      BY <2>2
    <3> DEFINE v == CHOOSE v \in Of(p) : TRUE
    <3>2. v \in versions /\ v.kind = p[1] /\ v.work = p[2]
      BY <3>1
    <3>3. heads'[p] = HeadOf(v)
      BY <2>1, <2>2 DEF HeadOf
    <3> QED BY <3>2, <3>3
  <2> QED BY <2>1, <2>2
<1>3. heads' = [p \in Pairs |-> heads'[p]]
  BY <1>1 DEF Restored, Pairs
<1>4. ASSUME NEW p \in Pairs
      PROVE heads'[p] = HeadOf(heads'[p]) /\ (heads'[p] # NoHead => VersionOf(p, heads'[p]) \in versions)
  <2>1. CASE heads'[p] = NoHead
    BY <2>1 DEF NoHead, HeadOf
  <2>2. ASSUME NEW v \in versions, v.kind = p[1], v.work = p[2], heads'[p] = HeadOf(v)
        PROVE heads'[p] = HeadOf(heads'[p]) /\ VersionOf(p, heads'[p]) \in versions
    <3>1. v = VersionOf(<<v.kind, v.work>>, v)
      BY DEF LedgerInv, LedgerTypeOK
    <3>2. heads'[p].ver = v.ver /\ heads'[p].gen = v.gen /\ heads'[p].content = v.content
      BY <2>2 DEF HeadOf
    <3>3. VersionOf(p, heads'[p]) = v
      BY <2>2, <3>1, <3>2 DEF VersionOf
    <3>4. heads'[p] = HeadOf(heads'[p])
      BY <2>2, <3>2 DEF HeadOf
    <3> QED BY <3>3, <3>4
  <2> QED BY <1>2, <2>1, <2>2
<1>5. LedgerTypeOK'
  BY <1>1, <1>3, <1>4 DEF LedgerInv, LedgerTypeOK
<1>6. HeadsOnLedger'
  BY <1>1, <1>4 DEF HeadsOnLedger
<1>7. OneOfNumber' /\ OneOfGeneration' /\ GenerationsOnRecord'
  BY <1>1 DEF LedgerInv, LedgerStands, OneOfNumber, OneOfGeneration, GenerationsOnRecord
<1> QED BY <1>5, <1>6, <1>7 DEF LedgerInv, LedgerStands

\* Every step keeps the ledger.
LEMMA LedgerKeeps == LedgerInv /\ [AuthorityNext]_authVars => LedgerInv'
<1> SUFFICES ASSUME LedgerInv, [AuthorityNext]_authVars PROVE LedgerInv'
  OBVIOUS
<1>1. CASE PlanRollback \/ (\E c \in Controller, w \in Subject : ClaimFlips(c, w)) \/ UNCHANGED authVars
  <2>1. versions' = versions /\ heads' = heads /\ generations' = generations /\ declared' = declared
    BY <1>1 DEF PlanRollback, ClaimFlips, authVars
  <2>2. DOMAIN declared' = Subject
    BY <2>1 DEF LedgerInv, LedgerTypeOK
  <2> QED BY <2>1, <2>2, LedgerStays
<1> QED BY <1>1, InsertKeeps, PublishKeeps, AdjudicateKeeps, RollbackKeeps DEF AuthorityNext

\* Whatever writes moves the source sequence (the coord_seq_* triggers).
LEMMA PlanKeeps == PlanInv /\ [AuthorityNext]_authVars => PlanInv'
<1> SUFFICES ASSUME PlanInv, [AuthorityNext]_authVars PROVE PlanInv'
  OBVIOUS
<1>1. CASE Moved
  BY <1>1 DEF Moved, PlanInv
<1>2. CASE PlanRollback
  BY <1>2 DEF PlanRollback, PlanInv
<1>3. ASSUME NEW t, Rollback(t) PROVE PlanInv'
  BY <1>3 DEF Rollback, NoPlan, PlanInv
<1>4. CASE UNCHANGED authVars
  BY <1>4 DEF authVars, PlanInv
<1> QED BY <1>1, <1>2, <1>3, <1>4 DEF AuthorityNext, InsertWork, Publish, Adjudicate, ClaimFlips

\* For any rows, manifests, adjudications and controllers, the ledger has one
\* version per number and per generation of each kind and row, and every head
\* is one of them (publish_exact_authority_manifest, adjudicate_live_authority,
\* rollback_authority_activation and the triggers of 002_exact_authority.sql).
THEOREM LedgerStandsHolds == AuthoritySpec => []LedgerStands
<1>1. LedgerInv => LedgerStands
  BY DEF LedgerInv
<1>2. AuthoritySpec => []LedgerInv
  BY LedgerStart, LedgerKeeps, PTL DEF AuthoritySpec
<1> QED BY <1>1, <1>2, PTL

\* And a rollback discards no head its operator had not seen.
THEOREM RollbackSawAllHolds == AuthoritySpec => RollbackSawAll
<1>1. PlanInv => (\A t \in generations \cup {"none"} : Rollback(t) => heads = plan.saw)
  BY DEF PlanInv, Rollback, PlanHolds
<1>2. AuthoritySpec => []PlanInv
  BY LedgerStart, PlanKeeps, PTL DEF AuthoritySpec
<1> QED BY <1>1, <1>2, PTL DEF RollbackSawAll

-----------------------------------------------------------------------------
(* The usage ledger: anchors.                                              *)

\* What the chain holds is a sequence, what a caller read is about finitely many
\* cells, and an anchor's hash is the chain as it was.
UsageLedgerInv ==
  /\ commits \in Seq(ToSet(commits))
  /\ \A c \in Caller : IsFiniteSet(DOMAIN caller[c].prior)
  /\ \A a \in anchors : /\ a.was \in Seq(ToSet(a.was))
                        /\ a.seq = Len(a.was) /\ a.hash = a.was

LEMMA SeqOfItsElements ==
  ASSUME NEW T, NEW s \in Seq(T)
  PROVE  s \in Seq(ToSet(s))
<1>1. s \in [1 .. Len(s) -> T] /\ Len(s) \in Nat /\ DOMAIN s = 1 .. Len(s)
  OBVIOUS
<1>2. s \in [1 .. Len(s) -> ToSet(s)]
  BY <1>1 DEF ToSet
<1> QED BY <1>1, <1>2

LEMMA PrefixReads ==
  ASSUME NEW T, NEW s \in Seq(T), NEW n \in 0 .. Len(s)
  PROVE  /\ SubSeq(s, 1, n) \in Seq(T) /\ Len(SubSeq(s, 1, n)) = n
         /\ \A i \in 1 .. n : SubSeq(s, 1, n)[i] = s[i]
OBVIOUS

LEMMA WholeSeq ==
  ASSUME NEW T, NEW s \in Seq(T)
  PROVE  SubSeq(s, 1, Len(s)) = s
OBVIOUS

LEMMA SetToSeqType ==
  ASSUME NEW S, IsFiniteSet(S)
  PROVE  SetToSeq(S) \in Seq(S)
<1> DEFINE n == Cardinality(S)
<1>1. n \in Nat /\ ExistsBijection(1 .. n, S)
  BY FS_CardinalityType, FS_NatBijection, FS_CountingElements
<1>2. PICK f : f \in Bijection(1 .. n, S)
  BY <1>1 DEF ExistsBijection
<1>3. f \in [1 .. n -> S] /\ IsInjective(f)
  BY <1>2 DEF Bijection, Injection, IsInjective
<1>4. SetToSeq(S) \in [1 .. n -> S]
  BY <1>3 DEF SetToSeq
<1> HIDE DEF n
<1> QED BY <1>1, <1>4

\* A transaction leaves a sequence.
LEMMA CommittedSeq ==
  ASSUME commits \in Seq(ToSet(commits)), NEW T, NEW e \in Seq(T), Committed(e)
  PROVE  commits' \in Seq(ToSet(commits'))
<1> DEFINE U == ToSet(commits) \cup T
<1>1. commits \in Seq(U) /\ e \in Seq(U)
  OBVIOUS
<1>2. commits' = commits \o e
  BY DEF Committed
<1> HIDE DEF U
<1>3. commits' \in Seq(U)
  BY <1>1, <1>2
<1> QED BY <1>3, SeqOfItsElements

LEMMA UsageLedgerStart == LedgerInit => UsageLedgerInv
BY FS_EmptySet DEF LedgerInit, UsageLedgerInv, Idle, ToSet

LEMMA UsageLedgerStep ==
  ASSUME UsageLedgerInv, [LedgerNext]_ledgerVars
  PROVE  UsageLedgerInv'
<1>1. ASSUME UNCHANGED <<commits, anchors>>, \A c \in Caller : IsFiniteSet(DOMAIN caller'[c].prior)
      PROVE  UsageLedgerInv'
  BY <1>1 DEF UsageLedgerInv, ToSet
<1>2. ASSUME NEW T, NEW e \in Seq(T), Committed(e), UNCHANGED anchors,
             \A c \in Caller : IsFiniteSet(DOMAIN caller'[c].prior)
      PROVE  UsageLedgerInv'
  <2>1. commits' \in Seq(ToSet(commits'))
    BY <1>2, CommittedSeq DEF UsageLedgerInv
  <2> QED BY <1>2, <2>1 DEF UsageLedgerInv
<1>3. /\ IsFiniteSet(DOMAIN Idle.prior)
      /\ \A c \in Caller : IsFiniteSet(DOMAIN caller[c].prior)
  BY FS_EmptySet DEF Idle, UsageLedgerInv
<1>4. ASSUME NEW c \in Caller, NEW new, IsFiniteSet(DOMAIN new.prior),
             caller' = [caller EXCEPT ![c] = new]
      PROVE  \A d \in Caller : IsFiniteSet(DOMAIN caller'[d].prior)
  <2> SUFFICES ASSUME NEW d \in Caller PROVE IsFiniteSet(DOMAIN caller'[d].prior)
    OBVIOUS
  <2>1. caller'[d] = new \/ caller'[d] = caller[d]
    BY <1>4
  <2> QED BY <1>3, <1>4, <2>1
<1>5. ASSUME NEW row, Committed(<<row>>), UNCHANGED <<caller, anchors>> PROVE UsageLedgerInv'
  <2>1. <<row>> \in Seq({row})
    OBVIOUS
  <2> QED BY <1>2, <1>3, <1>5, <2>1
<1>6. ASSUME NEW s, RegisterSource(s) PROVE UsageLedgerInv'
  BY <1>5, <1>6 DEF RegisterSource
<1>7. ASSUME NEW o, RecordObservation(o) PROVE UsageLedgerInv'
  BY <1>5, <1>7 DEF RecordObservation
<1>8. ASSUME NEW b, RecordBilling(b) PROVE UsageLedgerInv'
  BY <1>5, <1>8 DEF RecordBilling
<1>9. ASSUME NEW c \in Caller, NEW o \in Observation, NEW p, SelectRead(c, o, p) PROVE UsageLedgerInv'
  <2> DEFINE new == [act |-> "select", obs |-> o, prior |-> [cell \in o.cells |-> Latest(cell)]]
  <2>1. IsFiniteSet(DOMAIN new.prior)
    BY LedgerAssumption DEF LedgerAssumption
  <2>2. caller' = [caller EXCEPT ![c] = new] /\ UNCHANGED <<commits, anchors>>
    BY <1>9 DEF SelectRead
  <2> HIDE DEF new
  <2> QED BY <1>1, <1>4, <2>1, <2>2
<1>10. ASSUME NEW c \in Caller, NEW cell, WithdrawRead(c, cell) PROVE UsageLedgerInv'
  <2> DEFINE new == [act |-> "withdraw", obs |-> "none", prior |-> [x \in {cell} |-> Latest(x)]]
  <2>1. IsFiniteSet(DOMAIN new.prior)
    BY FS_Singleton
  <2>2. caller' = [caller EXCEPT ![c] = new] /\ UNCHANGED <<commits, anchors>>
    BY <1>10 DEF WithdrawRead
  <2> HIDE DEF new
  <2> QED BY <1>1, <1>4, <2>1, <2>2
<1>11. ASSUME NEW c \in Caller, Decide(c) PROVE UsageLedgerInv'
  <2> DEFINE prior == caller[c].prior
             S == Chosen(c) \ rows
  <2>1. IsFiniteSet(Chosen(c))
    <3>1. IsFiniteSet(DOMAIN prior)
      BY <1>3
    <3> DEFINE f == [cell \in DOMAIN prior |-> Decision(cell, caller[c].act, caller[c].obs, prior[cell])]
    <3>2. f \in Surjection(DOMAIN prior, Chosen(c))
      BY Zenon DEF Chosen, Surjection
    <3> QED BY <3>1, <3>2, FS_Surjection
  <2>2. IsFiniteSet(S)
    BY <2>1, FS_Subset
  <2>3. Committed(SetToSeq(S)) /\ caller' = [caller EXCEPT ![c] = Idle] /\ UNCHANGED anchors
    BY <1>11 DEF Decide
  <2> HIDE DEF S
  <2>4. SetToSeq(S) \in Seq(S)
    BY <2>2, SetToSeqType
  <2>5. \A d \in Caller : IsFiniteSet(DOMAIN caller'[d].prior)
    BY <1>3, <1>4, <2>3
  <2> QED BY <1>2, <2>3, <2>4, <2>5
<1>12. ASSUME NEW c \in Caller, CallerDies(c) PROVE UsageLedgerInv'
  BY <1>1, <1>3, <1>4, <1>12 DEF CallerDies
<1>13. CASE WriteAnchor
  <2> DEFINE n == Len(commits)
             a == [seq |-> n, hash |-> CommitHash(n), roots |-> EntityRoots(n), was |-> commits]
  <2>1. anchors' = anchors \cup {a} /\ UNCHANGED <<commits, rows, caller>>
    BY <1>13 DEF WriteAnchor
  <2>2. /\ a.was \in Seq(ToSet(a.was)) /\ a.seq = Len(a.was)
        /\ a.hash = SubSeq(commits, 1, Len(commits)) /\ a.was = commits
    BY DEF UsageLedgerInv, CommitHash
  <2>3. a.hash = a.was
    BY <2>2, WholeSeq DEF UsageLedgerInv
  <2> HIDE DEF a
  <2> QED BY <2>1, <2>2, <2>3 DEF UsageLedgerInv, ToSet
<1>14. CASE BackupRestored
  <2>1. PICK n \in 0 .. Len(commits) - 1 : commits' = SubSeq(commits, 1, n)
    BY <1>14 DEF BackupRestored
  <2>2. n \in 0 .. Len(commits)
    BY DEF UsageLedgerInv
  <2>3. commits' \in Seq(ToSet(commits))
    BY <2>1, <2>2, PrefixReads DEF UsageLedgerInv
  <2>4. commits' \in Seq(ToSet(commits'))
    BY <2>3, SeqOfItsElements
  <2>5. \A c \in Caller : caller'[c] = Idle
    BY <1>14 DEF BackupRestored
  <2> QED BY <1>3, <1>14, <2>4, <2>5 DEF UsageLedgerInv, BackupRestored
<1>15. CASE RowLost
  BY <1>1, <1>3, <1>15 DEF RowLost
<1>16. CASE UNCHANGED ledgerVars
  BY <1>1, <1>3, <1>16 DEF ledgerVars
<1> QED
  BY <1>6, <1>7, <1>8, <1>9, <1>10, <1>11, <1>12, <1>13, <1>14, <1>15, <1>16 DEF LedgerNext

\* An anchor that verifies is a prefix of the chain, and the tables hold the chain.
LEMMA AnchorsMean == UsageLedgerInv => VerifiedMeansKept
<1> SUFFICES ASSUME UsageLedgerInv, NEW a \in anchors, VerifyAnchor(a)
             PROVE  IsPrefix(a.was, commits) /\ ToSet(a.was) \subseteq rows
  BY DEF VerifiedMeansKept
<1>1. /\ commits \in Seq(ToSet(commits)) /\ a.was \in Seq(ToSet(a.was))
      /\ a.seq = Len(a.was) /\ a.hash = a.was
      /\ a.seq <= Len(commits) /\ SubSeq(commits, 1, a.seq) = a.hash /\ rows = ToSet(commits)
  BY DEF UsageLedgerInv, VerifyAnchor, CommitHash, VerifyIntegrity
<1>2. IsPrefix(a.was, commits)
  BY <1>1, WholeSeq DEF IsPrefix
<1>3. ASSUME NEW x \in ToSet(a.was) PROVE x \in ToSet(commits)
  <2>1. PICK i \in 1 .. Len(a.was) : x = a.was[i]
    BY <1>1 DEF ToSet
  <2>2. Len(a.was) \in 0 .. Len(commits)
    BY <1>1
  <2>3. SubSeq(commits, 1, Len(a.was))[i] = commits[i]
    BY <1>1, <2>2, PrefixReads
  <2>4. x = commits[i] /\ i \in DOMAIN commits
    BY <1>1, <2>1, <2>2, <2>3
  <2> QED BY <2>4 DEF ToSet
<1> QED BY <1>1, <1>2, <1>3

\* VerifiedMeansKept for any ledger, however often older copies are restored.
THEOREM VerifiedMeansKeptHolds == LedgerSpec => []VerifiedMeansKept
BY UsageLedgerStart, UsageLedgerStep, AnchorsMean, PTL DEF LedgerSpec

-----------------------------------------------------------------------------
(* The rate card.                                                          *)

\* A card prices the vendored models, none out of the factor's range.
InRange(card) ==
  \A m \in Priced(Vendored) :
    /\ m \in Priced(card)
    /\ card[m] <= RateFactor * Vendored[m] /\ Vendored[m] <= RateFactor * card[m]
\* One refresh at a time holds the thread's slot, and the next waits.
Refresh == [id : Asker, began : Nat, catalog : DOMAIN Catalogs \cup {"none"}]
SlotInv ==
  /\ threadSet => \E f \in fetchers : fetchers = {f}
  /\ ~threadSet => fetchers = {}
  /\ fetchers \subseteq Refresh
  /\ time \in Nat \ {0} /\ lastStart \in Nat
  /\ notBefore = IF lastStart = 0 THEN 0 ELSE lastStart + RetryAfter
\* Whatever is on file, and whatever was cached, prices in range.
CardsInv ==
  /\ InRange(Layered(override)) /\ InRange(pricedWith)
  /\ \A s \in DOMAIN layeredCache : InRange(layeredCache[s])
RateInv == SlotInv /\ CardsInv

LEMMA VendoredInRange == InRange(Vendored)
<1> SUFFICES ASSUME NEW m \in Priced(Vendored)
             PROVE  Vendored[m] <= RateFactor * Vendored[m]
  BY DEF InRange
<1>1. Vendored[m] \in Nat
  BY RateAssumption DEF Priced, Vendored
<1>2. \A f \in Nat \ {0}, r \in Nat : r <= f * r
  OBVIOUS
<1> QED BY <1>1, <1>2, RateAssumption

\* A card that raises no suspicion layers in range.
LEMMA CalmCardInRange ==
  ASSUME NEW card, \A m \in DOMAIN card : card[m] \in Nat, ~RateJump(card), NEW at
  PROVE  InRange(Layered([at |-> at, card |-> card]))
<1> DEFINE o == [at |-> at, card |-> card]
<1>1. CASE card = Broken
  BY <1>1, VendoredInRange DEF Layered
<1>2. CASE card # Broken
  <2> SUFFICES ASSUME NEW m \in Priced(Vendored)
               PROVE  /\ m \in Priced(Layered(o))
                      /\ Layered(o)[m] <= RateFactor * Vendored[m] /\ Vendored[m] <= RateFactor * Layered(o)[m]
    BY DEF InRange
  <2>1. m \in Model /\ Vendored[m] \in Nat /\ Vendored[m] # 0
    BY RateAssumption DEF Priced, Vendored
  <2>2. /\ DOMAIN Layered(o) = Model
        /\ Layered(o)[m] = IF m \in Priced(card) THEN card[m] ELSE Vendored[m]
    BY <1>2, <2>1 DEF Layered
  <2>3. CASE m \in Priced(card)
    <3>1. card[m] \in Nat /\ card[m] # 0
      BY <2>3 DEF Priced
    <3>2. ~(card[m] > RateFactor * Vendored[m]) /\ ~(Vendored[m] > RateFactor * card[m])
      BY <2>3 DEF RateJump
    <3>3. RateFactor * Vendored[m] \in Nat /\ RateFactor * card[m] \in Nat
      BY <2>1, <3>1, RateAssumption
    <3> QED BY <2>1, <2>2, <2>3, <3>1, <3>2, <3>3 DEF Priced
  <2>4. CASE m \notin Priced(card)
    BY <2>1, <2>2, <2>4, VendoredInRange DEF InRange, Priced
  <2> QED BY <2>3, <2>4
<1> QED BY <1>1, <1>2

LEMMA RateStart == RateInit => RateInv
<1> SUFFICES ASSUME RateInit PROVE RateInv
  OBVIOUS
<1>1. Layered(override) = Vendored
  BY DEF RateInit, NoOverride, Layered
<1> QED BY <1>1, VendoredInRange DEF RateInit, RateInv, SlotInv, CardsInv

\* The cards: what a refresh puts on file, what a reader makes of it.
LEMMA CardsKept == RateInv /\ [RateNext]_rateVars => CardsInv'
<1> SUFFICES ASSUME RateInv, [RateNext]_rateVars PROVE CardsInv'
  OBVIOUS
<1>1. CASE UNCHANGED <<override, layeredCache, pricedWith>>
  BY <1>1 DEF RateInv, CardsInv, Layered, InRange, Vendored
<1>2. CASE \E f \in fetchers : EndsRefresh(f)
  <2>1. PICK f \in fetchers : EndsRefresh(f)
    BY <1>2
  <2>2. UNCHANGED <<layeredCache, pricedWith>>
    BY <2>1 DEF EndsRefresh
  <2>3. CASE override' = override
    BY <1>1, <2>2, <2>3
  <2>4. CASE override' # override
    <3> DEFINE card == Catalogs[f.catalog]
    <3>1. override' = [at |-> time, card |-> card] /\ ~Suspicion(card) /\ f.catalog \in DOMAIN Catalogs
      BY <2>1, <2>4 DEF EndsRefresh, RateInv, SlotInv, Refresh
    <3>2. InRange(Layered(override'))
      BY <3>1, CalmCardInRange, RateAssumption DEF Suspicion
    <3> QED BY <2>2, <3>2 DEF RateInv, CardsInv, Layered, InRange, Vendored
  <2> QED BY <2>3, <2>4
<1>3. CASE DamagesOverride
  <2>1. Layered(override') = Vendored /\ UNCHANGED <<layeredCache, pricedWith>>
    BY <1>3 DEF DamagesOverride, Layered
  <2> QED BY <2>1, VendoredInRange DEF RateInv, CardsInv, Layered, InRange, Vendored
<1>4. CASE LoadsCard
  <2>1. override' = override
    BY <1>4 DEF LoadsCard
  <2>2. InRange(pricedWith')
    BY <1>4, VendoredInRange DEF LoadsCard, RateInv, CardsInv
  <2>3. \A s \in DOMAIN layeredCache' : layeredCache'[s] = pricedWith' \/ (s \in DOMAIN layeredCache /\ layeredCache'[s] = layeredCache[s])
    BY <1>4 DEF LoadsCard
  <2> QED BY <2>1, <2>2, <2>3 DEF RateInv, CardsInv, Layered, InRange, Vendored
<1> QED BY <1>1, <1>2, <1>3, <1>4
  DEF RateNext, rateVars, RateTick, TakesStamp, StartsRefresh, FirstLook, Fetches

\* The slot of the thread, and what starts a refresh.
LEMMA SlotKept ==
  RateInv /\ [RateNext]_rateVars =>
    /\ SlotInv'
    /\ lastStart' # lastStart => fetchers = {} /\ (lastStart = 0 \/ time - lastStart >= RetryAfter)
<1> DEFINE One == lastStart' # lastStart => fetchers = {} /\ (lastStart = 0 \/ time - lastStart >= RetryAfter)
<1> SUFFICES ASSUME RateInv, [RateNext]_rateVars PROVE SlotInv' /\ One
  OBVIOUS
<1>1. CASE UNCHANGED <<fetchers, threadSet, notBefore, lastStart>> /\ time' \in {time, time + 1}
  BY <1>1 DEF RateInv, SlotInv
<1>2. ASSUME NEW a \in Asker, StartsRefresh(a) PROVE SlotInv' /\ One
  <2>1. CASE ~SecondLook
    BY <1>1, <1>2, <2>1 DEF StartsRefresh
  <2>2. CASE SecondLook
    <3>1. fetchers = {} /\ time >= notBefore /\ time \in Nat \ {0} /\ lastStart \in Nat
      BY <2>2 DEF SecondLook, MayStart, RateInv, SlotInv
    <3>2. /\ notBefore' = time + RetryAfter /\ threadSet' = TRUE /\ lastStart' = time /\ time' = time
          /\ fetchers' = {[id |-> a, began |-> time, catalog |-> "none"]}
      BY <1>2, <2>2, <3>1 DEF StartsRefresh
    <3>3. lastStart = 0 \/ time - lastStart >= RetryAfter
      BY <3>1, RateAssumption DEF RateInv, SlotInv
    <3> QED BY <3>1, <3>2, <3>3 DEF SlotInv, Refresh
  <2> QED BY <2>1, <2>2
<1>3. ASSUME NEW f \in fetchers, NEW c \in DOMAIN Catalogs, Fetches(f, c) PROVE SlotInv' /\ One
  <2>1. fetchers = {f} /\ threadSet
    BY DEF RateInv, SlotInv
  <2>2. PICK g : g = [f EXCEPT !.catalog = c]
    OBVIOUS
  <2>3. fetchers' = {g}
    BY <1>3, <2>1, <2>2 DEF Fetches
  <2>4. g \in Refresh
    BY <2>1, <2>2 DEF RateInv, SlotInv, Refresh
  <2> QED BY <1>3, <2>1, <2>3, <2>4 DEF Fetches, RateInv, SlotInv
<1>4. ASSUME NEW f \in fetchers, EndsRefresh(f) PROVE SlotInv' /\ One
  <2>1. fetchers = {f}
    BY DEF RateInv, SlotInv
  <2> QED BY <1>4, <2>1 DEF EndsRefresh, RateInv, SlotInv
<1> QED BY <1>1, <1>2, <1>3, <1>4
  DEF RateNext, rateVars, RateTick, DamagesOverride, TakesStamp, LoadsCard, FirstLook

\* No fetch and no crowd of askers upsets the card: whatever the catalog serves,
\* readers price every vendored model within the factor, one refresh runs at a
\* time and the next begins no sooner than RetryAfter later (refresh_rate_card,
\* maybe_refresh).
THEOREM RatesStandHolds == RateSpec => RatesStand
<1>1. RateInv /\ [RateNext]_rateVars => RateInv'
  BY CardsKept, SlotKept DEF RateInv
<1>2. RateInv => \A m \in Priced(Vendored) : PricedInRange(m)
  BY DEF RateInv, CardsInv, InRange, PricedInRange
<1>3. RateInv /\ [RateNext]_rateVars =>
        [lastStart' # lastStart => fetchers = {} /\ (lastStart = 0 \/ time - lastStart >= RetryAfter)]_rateVars
  BY SlotKept
<1> QED BY <1>1, <1>2, <1>3, RateStart, PTL DEF RateSpec, RatesStand, OneRefresh

-----------------------------------------------------------------------------
(* The import.  A chain of parents leaves out a row when some set of old   *)
(* that contains the chain's start and the parents of its members does; a   *)
(* table is a forest when no chain comes back to where it started.          *)

ClosedIn(old, S) == \A b \in S : old[b].parent \in S \cup {NoParent}
Misses(old, p, w) ==
  \E S \in SUBSET WorkId : ClosedIn(old, S) /\ p \in S \cup {NoParent} /\ w \notin S
Forest(old) == \A w \in WorkId : Misses(old, old[w].parent, w)
RowTable == [WorkId -> [intent : Intent, parent : WorkId \cup {NoParent}]]

\* No parent of one table differs in the other, but for those that were taken away.
Thinned(old, new) == \A v \in WorkId : new[v].parent \in {old[v].parent, NoParent}
\* The one row that was given a parent.
Hung(old, new, w, p) ==
  new[w].parent = p /\ \A v \in WorkId \ {w} : new[v].parent = old[v].parent

LEMMA SafeMisses ==
  ASSUME NEW p, NEW w \in WorkId
  PROVE  CycleSafe(p, w) <=> Misses(wrow, p, w)
  BY DEF CycleSafe, Chain, ClosedUpward, Misses, ClosedIn

\* Nothing is above no parent.
LEMMA NothingAbove == ASSUME NEW table, NEW w \in WorkId PROVE Misses(table, NoParent, w)
<1>1. ClosedIn(table, {}) /\ {} \in SUBSET WorkId /\ w \notin {}
  BY DEF ClosedIn
<1> QED BY <1>1 DEF Misses

LEMMA ThinnedMisses ==
  ASSUME NEW old \in RowTable, NEW new \in RowTable, Thinned(old, new),
         NEW p, NEW w \in WorkId, Misses(old, p, w)
  PROVE  Misses(new, p, w)
<1>1. PICK S \in SUBSET WorkId : ClosedIn(old, S) /\ p \in S \cup {NoParent} /\ w \notin S
  BY DEF Misses
<1>2. ClosedIn(new, S)
  BY <1>1 DEF ClosedIn, Thinned
<1> QED BY <1>1, <1>2 DEF Misses

LEMMA ThinnedForest ==
  ASSUME NEW old \in RowTable, NEW new \in RowTable, Thinned(old, new), Forest(old)
  PROVE  Forest(new)
<1> SUFFICES ASSUME NEW w \in WorkId PROVE Misses(new, new[w].parent, w)
  BY DEF Forest
<1>1. CASE new[w].parent = old[w].parent
  BY <1>1, ThinnedMisses DEF Forest
<1>2. CASE new[w].parent = NoParent
  BY <1>2, NothingAbove
<1> QED BY <1>1, <1>2 DEF Thinned

\* A row hung below a chain that does not reach it leaves a forest.
LEMMA HungForest ==
  ASSUME NEW old \in RowTable, NEW new \in RowTable, NEW w \in WorkId, NEW p,
         Hung(old, new, w, p), Misses(old, p, w), Forest(old)
  PROVE  Forest(new)
<1>1. PICK A \in SUBSET WorkId : ClosedIn(old, A) /\ p \in A \cup {NoParent} /\ w \notin A
  BY DEF Misses
<1>2. ClosedIn(new, A)
  BY <1>1 DEF ClosedIn, Hung
<1> SUFFICES ASSUME NEW v \in WorkId PROVE Misses(new, new[v].parent, v)
  BY DEF Forest
<1>3. CASE v = w
  BY <1>1, <1>2, <1>3 DEF Misses, Hung
<1>4. CASE v # w
  <2>1. PICK B \in SUBSET WorkId :
          ClosedIn(old, B) /\ old[v].parent \in B \cup {NoParent} /\ v \notin B
    BY DEF Forest, Misses
  <2>2. new[v].parent = old[v].parent
    BY <1>4 DEF Hung
  <2>3. CASE w \notin B
    <3>1. ClosedIn(new, B)
      BY <2>1, <2>3 DEF ClosedIn, Hung
    <3> QED BY <2>1, <2>2, <3>1 DEF Misses
  <2>4. CASE w \in B /\ v \in A
    <3>1. ClosedIn(new, A \cap B)
      BY <1>1, <2>1 DEF ClosedIn, Hung
    <3>2. old[v].parent \in (A \cap B) \cup {NoParent}
      BY <1>1, <2>1, <2>4 DEF ClosedIn
    <3> QED BY <2>1, <2>2, <3>1, <3>2 DEF Misses
  <2>5. CASE w \in B /\ v \notin A
    <3>1. ClosedIn(new, A \cup B)
      BY <1>1, <2>1, <2>5 DEF ClosedIn, Hung
    <3>2. v \notin A \cup B
      BY <2>1, <2>5
    <3> QED BY <2>1, <2>2, <3>1, <3>2 DEF Misses
  <2> QED BY <2>3, <2>4, <2>5
<1> QED BY <1>3, <1>4

\* What the importer carries, and the forest, unless a parent was set between
\* its walk and its write; its walk still holds until then.
ImporterTypeOK ==
  /\ importer.doing = "replay" =>
       /\ importer.row \in WorkId /\ importer.intent \in (Intent \ {"absent"}) \cup {"left out"}
       /\ importer.parent \in WorkId \cup {NoParent}
  /\ importer.doing = "fill" => importer.row \in WorkId /\ importer.parent \in WorkId
IngestTypeOK == wrow \in RowTable /\ moves \in Nat /\ raced \in BOOLEAN /\ ImporterTypeOK
ForestKept ==
  ~raced => /\ Forest(wrow)
            /\ importer.doing = "fill" => Misses(wrow, importer.parent, importer.row)
IngestInv == IngestTypeOK /\ ForestKept

LEMMA IngestStart == IngestInit => IngestInv
<1> SUFFICES ASSUME IngestInit PROVE IngestInv
  OBVIOUS
<1>1. wrow \in RowTable
  BY DEF IngestInit, RowTable, Nowhere, Intent
<1>2. Forest(wrow)
  <2> SUFFICES ASSUME NEW w \in WorkId PROVE Misses(wrow, wrow[w].parent, w)
    BY DEF Forest
  <2>1. wrow[w].parent = NoParent
    BY DEF IngestInit, Nowhere
  <2> QED BY <2>1, NothingAbove
<1>3. importer.doing = "nothing" /\ raced = FALSE /\ moves = 0
  BY DEF IngestInit, IdleImporter
<1>4. IngestTypeOK
  BY <1>1, <1>3 DEF IngestTypeOK, ImporterTypeOK
<1> QED BY <1>2, <1>3, <1>4 DEF IngestInv, ForestKept

\* Steps that give no row a parent: what the importer carries may be dropped.
LEMMA ThinningStep ==
  ASSUME IngestInv, wrow' \in RowTable, Thinned(wrow, wrow'), moves' \in Nat, raced' = raced,
         \/ UNCHANGED importer
         \/ importer'.doing \notin {"replay", "fill"}
  PROVE  IngestInv'
<1>1. IngestTypeOK'
  BY DEF IngestInv, IngestTypeOK, ImporterTypeOK
<1>2. ASSUME ~raced' PROVE Forest(wrow')
  BY <1>2, ThinnedForest DEF IngestInv, IngestTypeOK, ForestKept
<1>3. ASSUME ~raced', importer'.doing = "fill" PROVE Misses(wrow', importer'.parent, importer'.row)
  <2>1. UNCHANGED importer /\ importer.doing = "fill"
    BY <1>3
  <2>2. Misses(wrow, importer.parent, importer.row) /\ importer.row \in WorkId
    BY <1>3, <2>1 DEF IngestInv, IngestTypeOK, ImporterTypeOK, ForestKept
  <2> QED BY <2>1, <2>2, ThinnedMisses DEF IngestInv, IngestTypeOK
<1> QED BY <1>1, <1>2, <1>3 DEF IngestInv, ForestKept

\* A step that leaves the table alone thins it.
LEMMA SameThins == ASSUME NEW table \in RowTable PROVE Thinned(table, table)
  BY DEF Thinned

\* An agent works on a row or makes one.
LEMMA AgentStep ==
  ASSUME IngestInv, NEW w \in WorkId,
         AgentCreates(w) \/ \E i \in {"running", "done"} : AgentWorks(w, i)
  PROVE  IngestInv'
<1>1. CASE AgentCreates(w)
  <2>1. wrow' = [wrow EXCEPT ![w] = [Nowhere EXCEPT !.intent = "queued"]]
    BY <1>1 DEF AgentCreates, AgentMoves
  <2>2. wrow' \in RowTable /\ Thinned(wrow, wrow')
    BY <2>1 DEF IngestInv, IngestTypeOK, RowTable, Thinned, Nowhere, Intent
  <2> QED BY <1>1, <2>2, ThinningStep DEF AgentCreates, AgentMoves, IngestInv, IngestTypeOK
<1>2. ASSUME NEW i \in {"running", "done"}, AgentWorks(w, i) PROVE IngestInv'
  <2>1. wrow' = [wrow EXCEPT ![w] = [wrow[w] EXCEPT !.intent = i]]
    BY <1>2 DEF AgentWorks, AgentMoves
  <2>2. wrow' \in RowTable /\ Thinned(wrow, wrow')
    BY <2>1 DEF IngestInv, IngestTypeOK, RowTable, Thinned, Intent
  <2> QED BY <1>2, <2>2, ThinningStep DEF AgentWorks, AgentMoves, IngestInv, IngestTypeOK
<1> QED BY <1>1, <1>2

\* An agent sets a parent: only while the importer fills one is it a race.
LEMMA SetsParentStep ==
  ASSUME IngestInv, NEW w \in WorkId, NEW p \in WorkId, AgentSetsParent(w, p)
  PROVE  IngestInv'
<1>1. wrow' = [wrow EXCEPT ![w] = [wrow[w] EXCEPT !.parent = p]]
  BY DEF AgentSetsParent, AgentMoves
<1>2. wrow' \in RowTable /\ Hung(wrow, wrow', w, p)
  BY <1>1 DEF IngestInv, IngestTypeOK, RowTable, Hung
<1>3. UNCHANGED importer /\ moves' \in Nat /\ raced' = (raced \/ importer.doing = "fill")
  BY DEF AgentSetsParent, AgentMoves, IngestInv, IngestTypeOK
<1>4. IngestTypeOK'
  BY <1>2, <1>3 DEF IngestInv, IngestTypeOK, ImporterTypeOK
<1>5. ASSUME ~raced' PROVE Forest(wrow') /\ importer'.doing # "fill"
  <2>1. ~raced /\ importer'.doing # "fill"
    BY <1>3, <1>5 DEF IngestInv, IngestTypeOK
  <2>2. Misses(wrow, p, w)
    BY SafeMisses DEF AgentSetsParent
  <2> QED BY <1>2, <2>1, <2>2, HungForest DEF IngestInv, IngestTypeOK, ForestKept
<1> QED BY <1>4, <1>5 DEF IngestInv, ForestKept

\* The importer sets a parent below which the row does not hang.
LEMMA HangingStep ==
  ASSUME IngestInv, NEW w \in WorkId, NEW p, wrow' \in RowTable, Hung(wrow, wrow', w, p),
         ~raced => Misses(wrow, p, w), UNCHANGED <<moves, raced>>, importer' = IdleImporter
  PROVE  IngestInv'
<1>1. importer'.doing = "nothing"
  BY DEF IdleImporter
<1>2. IngestTypeOK'
  BY <1>1 DEF IngestInv, IngestTypeOK, ImporterTypeOK
<1>3. ASSUME ~raced' PROVE Forest(wrow')
  BY <1>3, HungForest DEF IngestInv, IngestTypeOK, ForestKept
<1> QED BY <1>1, <1>2, <1>3 DEF IngestInv, ForestKept

\* The import reads a row of the backlog.
LEMMA ReadsBacklogStep ==
  ASSUME IngestInv, NEW w \in WorkId, ReadsBacklogRow(w)
  PROVE  IngestInv'
<1>1. Backlog[w].intent \in Intent \ {"absent"} /\ Backlog[w].parent \in WorkId \cup {NoParent}
  BY IngestAssumption DEF IngestAssumption
<1>2. ReplayIntent(w) \in (Intent \ {"absent"}) \cup {"left out"}
  BY <1>1 DEF ReplayIntent, Intent
<1>3. PICK p \in WorkId \cup {NoParent} :
        importer' = [doing |-> "replay", row |-> w, intent |-> ReplayIntent(w), parent |-> p]
  BY <1>1 DEF ReadsBacklogRow
<1>4. UNCHANGED <<wrow, moves, raced>>
  BY DEF ReadsBacklogRow
<1>5. importer'.doing = "replay" /\ importer'.row = w /\ importer'.intent = ReplayIntent(w)
      /\ importer'.parent = p
  BY <1>3
<1>6. IngestTypeOK'
  BY <1>2, <1>4, <1>5 DEF IngestInv, IngestTypeOK, ImporterTypeOK
<1> QED BY <1>4, <1>5, <1>6 DEF IngestInv, ForestKept

\* It writes the row: a row that is there keeps its intent and its parent.
LEMMA WritesBacklogStep ==
  ASSUME IngestInv, WritesBacklogRow
  PROVE  /\ IngestInv'
         /\ \A w \in WorkId : Present(w) => wrow'[w] = wrow[w]
<1> DEFINE w == importer.row
           p == importer.parent
<1>1. /\ w \in WorkId /\ p \in WorkId \cup {NoParent}
      /\ importer.intent \in (Intent \ {"absent"}) \cup {"left out"}
  BY DEF WritesBacklogRow, IngestInv, IngestTypeOK, ImporterTypeOK
<1>2. wrow' = [wrow EXCEPT ![w] = ProjectedRow(w, importer)]
  BY DEF WritesBacklogRow
<1>3. wrow \in RowTable
  BY DEF IngestInv, IngestTypeOK
<1>4. CASE Present(w)
  <2>1. wrow' = wrow
    BY <1>1, <1>2, <1>3, <1>4 DEF ProjectedRow, RowTable
  <2>2. wrow' \in RowTable /\ Thinned(wrow, wrow')
    BY <2>1, <1>3, SameThins
  <2>3. importer'.doing = "nothing" /\ moves' \in Nat /\ raced' = raced
    BY DEF WritesBacklogRow, IdleImporter, IngestInv, IngestTypeOK
  <2>4. IngestInv'
    BY <2>2, <2>3, ThinningStep
  <2> QED BY <2>1, <2>4
<1>5. CASE ~Present(w)
  <2>1. PICK i \in Intent : ProjectedRow(w, importer) = [intent |-> i, parent |-> p]
    BY <1>1, <1>5 DEF ProjectedRow, Intent
  <2>2. wrow' = [wrow EXCEPT ![w] = [intent |-> i, parent |-> p]]
    BY <1>2, <2>1
  <2>3. wrow' \in RowTable /\ Hung(wrow, wrow', w, p)
    <3> HIDE DEF w, p
    <3> QED BY <1>1, <1>3, <2>2 DEF RowTable, Hung
  <2>4. Misses(wrow, p, w)
    BY <1>1, <1>5, SafeMisses, NothingAbove DEF WritesBacklogRow
  <2>5. IngestInv'
    BY <1>1, <2>3, <2>4, HangingStep DEF WritesBacklogRow
  <2>6. \A v \in WorkId : Present(v) => wrow'[v] = wrow[v]
    BY <1>2, <1>3, <1>5 DEF RowTable
  <2> QED BY <2>5, <2>6
<1> QED BY <1>4, <1>5

\* It links a row that came before its parent.
LEMMA RelinksStep ==
  ASSUME IngestInv, NEW w \in WorkId, Relinks(w)
  PROVE  IngestInv'
<1> DEFINE p == Backlog[w].parent
<1>1. p \in WorkId
  BY IngestAssumption DEF IngestAssumption, Relinks
<1>2. wrow' = [wrow EXCEPT ![w].parent = p]
  BY DEF Relinks
<1>3. wrow' \in RowTable /\ Hung(wrow, wrow', w, p)
  BY <1>1, <1>2 DEF IngestInv, IngestTypeOK, RowTable, Hung
<1>4. Misses(wrow, p, w)
  BY SafeMisses DEF Relinks
<1>5. importer' = IdleImporter /\ UNCHANGED <<moves, raced>>
  BY DEF Relinks
<1> HIDE DEF p
<1> QED BY <1>3, <1>4, <1>5, HangingStep

\* The backfill walks a chain and, later, sets the parent.
LEMMA WalksStep ==
  ASSUME IngestInv, NEW w \in WorkId, WalksParent(w)
  PROVE  IngestInv'
<1> DEFINE p == Backlog[w].parent
<1>1. p \in WorkId
  BY IngestAssumption DEF IngestAssumption, WalksParent
<1>2. importer'.doing = "fill" /\ importer'.row = w /\ importer'.parent = p
  BY DEF WalksParent
<1>3. UNCHANGED <<wrow, moves, raced>>
  BY DEF WalksParent
<1>4. Misses(wrow, p, w)
  BY SafeMisses DEF WalksParent
<1> HIDE DEF p
<1>5. IngestTypeOK'
  BY <1>1, <1>2, <1>3 DEF IngestInv, IngestTypeOK, ImporterTypeOK
<1> QED BY <1>2, <1>3, <1>4, <1>5 DEF IngestInv, ForestKept

LEMMA FillsStep ==
  ASSUME IngestInv, FillsParent
  PROVE  IngestInv'
<1> DEFINE w == importer.row
           p == importer.parent
<1>1. w \in WorkId /\ p \in WorkId /\ (~raced => Misses(wrow, p, w))
  BY DEF FillsParent, IngestInv, IngestTypeOK, ImporterTypeOK, ForestKept
<1>2. wrow' = [wrow EXCEPT ![w].parent = IF @ = NoParent THEN p ELSE @]
  BY DEF FillsParent
<1>3. importer' = IdleImporter /\ UNCHANGED <<moves, raced>>
  BY DEF FillsParent
<1>4. wrow \in RowTable /\ moves \in Nat
  BY DEF IngestInv, IngestTypeOK
<1> HIDE DEF w, p
<1>5. CASE wrow[w].parent = NoParent
  <2>1. wrow' \in RowTable /\ Hung(wrow, wrow', w, p)
    BY <1>1, <1>2, <1>4, <1>5 DEF RowTable, Hung
  <2> QED BY <1>1, <1>3, <2>1, HangingStep
<1>6. CASE wrow[w].parent # NoParent
  <2>1. wrow' = wrow
    BY <1>1, <1>2, <1>4, <1>6 DEF RowTable
  <2>2. importer'.doing = "nothing"
    BY <1>3 DEF IdleImporter
  <2> QED BY <1>3, <1>4, <2>1, <2>2, SameThins, ThinningStep
<1> QED BY <1>5, <1>6

\* A job gives its row an intent, at most.
LEMMA ImportsJobStep ==
  ASSUME IngestInv, NEW r \in ImportRun, ImportsJob(r)
  PROVE  IngestInv'
<1> DEFINE w == JobOf[r].work
<1>1. w \in WorkId /\ JobOf[r].over \in BOOLEAN
  BY IngestAssumption DEF IngestAssumption
<1>2. wrow' = wrow \/ \E i \in Intent : wrow' = [wrow EXCEPT ![w].intent = i]
  BY <1>1 DEF ImportsJob, Intent
<1>3. wrow' \in RowTable /\ Thinned(wrow, wrow')
  <2> HIDE DEF w
  <2>1. wrow \in RowTable
    BY DEF IngestInv, IngestTypeOK
  <2>2. CASE wrow' = wrow
    BY <2>1, <2>2, SameThins
  <2>3. ASSUME NEW i \in Intent, wrow' = [wrow EXCEPT ![w].intent = i]
        PROVE  wrow' \in RowTable /\ Thinned(wrow, wrow')
    BY <1>1, <2>1, <2>3 DEF RowTable, Thinned
  <2> QED BY <1>2, <2>2, <2>3
<1>4. importer'.doing \in {"nothing", "finalize"}
  BY DEF ImportsJob, IdleImporter
<1>5. moves' \in Nat /\ raced' = raced
  BY DEF ImportsJob, IngestInv, IngestTypeOK
<1> QED BY <1>3, <1>4, <1>5, ThinningStep

\* The rest writes no row.
LEMMA BesideStep ==
  ASSUME IngestInv,
         \/ FinalizesJob \/ ImporterDies \/ ReadsBoard \/ ReadsRuns \/ BoardServed
         \/ \E r \in ImportRun : JobEnds(r)
         \/ UNCHANGED ingestVars
  PROVE  IngestInv'
<1>1. UNCHANGED <<wrow, moves, raced>>
  BY DEF FinalizesJob, ImporterDies, ReadsBoard, ReadsRuns, BoardServed, JobEnds, ingestVars
<1>2. UNCHANGED importer \/ importer' = IdleImporter
  BY DEF FinalizesJob, ImporterDies, ReadsBoard, ReadsRuns, BoardServed, JobEnds, ingestVars
<1>3. importer' = IdleImporter => importer'.doing = "nothing"
  BY DEF IdleImporter
<1>4. wrow \in RowTable /\ moves \in Nat
  BY DEF IngestInv, IngestTypeOK
<1> QED BY <1>1, <1>2, <1>3, <1>4, SameThins, ThinningStep

LEMMA IngestKeeps ==
  ASSUME IngestInv, [IngestNext]_ingestVars
  PROVE  IngestInv'
  BY AgentStep, SetsParentStep, ReadsBacklogStep, WritesBacklogStep, RelinksStep, WalksStep,
     FillsStep, ImportsJobStep, BesideStep
  DEF IngestNext

\* A row keeps its intent and its parent in every step that no agent makes.
RowKept(w) ==
  /\ wrow'[w].intent = wrow[w].intent
  /\ wrow[w].parent # NoParent => wrow'[w].parent = wrow[w].parent

LEMMA RowsStay ==
  ASSUME IngestInv, IngestNext, moves' = moves, NEW w \in WorkId, Present(w)
  PROVE  RowKept(w)
<1>1. wrow \in RowTable /\ moves \in Nat
  BY DEF IngestInv, IngestTypeOK
<1>2. ASSUME NEW v \in WorkId PROVE ~AgentCreates(v)
  BY <1>1 DEF AgentCreates, AgentMoves
<1>3. ASSUME NEW v \in WorkId, NEW i \in {"running", "done"} PROVE ~AgentWorks(v, i)
  BY <1>1 DEF AgentWorks, AgentMoves
<1>4. ASSUME NEW v \in WorkId, NEW p \in WorkId PROVE ~AgentSetsParent(v, p)
  BY <1>1 DEF AgentSetsParent, AgentMoves
<1>5. CASE WritesBacklogRow
  BY <1>5, WritesBacklogStep DEF RowKept
<1>6. ASSUME NEW v \in WorkId, Relinks(v) PROVE RowKept(w)
  <2>1. wrow' = [wrow EXCEPT ![v].parent = Backlog[v].parent] /\ wrow[v].parent = NoParent
    BY <1>6 DEF Relinks
  <2> QED BY <1>1, <2>1 DEF RowKept, RowTable
<1>7. CASE FillsParent
  <2>1. wrow' = [wrow EXCEPT ![importer.row].parent = IF @ = NoParent THEN importer.parent ELSE @]
    BY <1>7 DEF FillsParent
  <2> QED BY <1>1, <2>1 DEF RowKept, RowTable
<1>8. ASSUME NEW r \in ImportRun, ImportsJob(r) PROVE RowKept(w)
  <2>1. CASE w = JobOf[r].work
    BY <1>8, <2>1 DEF ImportsJob, RowKept
  <2>2. CASE w # JobOf[r].work
    BY <1>1, <1>8, <2>2 DEF ImportsJob, RowKept, RowTable
  <2> QED BY <2>1, <2>2
<1>9. CASE UNCHANGED wrow
  BY <1>9 DEF RowKept
<1> QED
  BY <1>2, <1>3, <1>4, <1>5, <1>6, <1>7, <1>8, <1>9
  DEF IngestNext, ReadsBacklogRow, WalksParent, FinalizesJob, ImporterDies, JobEnds,
      ReadsBoard, ReadsRuns, BoardServed

\* The states of the runs.
RunsTyped == jobRun \in [ImportRun -> {"none", "live", "done"}]

\* A run that ended stays ended.
LEMMA EndedStays ==
  ASSUME IngestNext, RunsTyped, NEW r \in ImportRun, jobRun[r] = "done"
  PROVE  jobRun'[r] = "done"
<1>1. ASSUME NEW j \in ImportRun, ImportsJob(j) PROVE jobRun'[r] = "done"
  BY <1>1 DEF ImportsJob, Appears, RunsTyped
<1>2. CASE FinalizesJob
  BY <1>2 DEF FinalizesJob, RunsTyped
<1>3. CASE UNCHANGED jobRun
  BY <1>3
<1> QED
  BY <1>1, <1>2, <1>3
  DEF IngestNext, AgentWorks, AgentCreates, AgentSetsParent, AgentMoves, ReadsBacklogRow,
      WritesBacklogRow, Relinks, WalksParent, FillsParent, ImporterDies, JobEnds,
      ReadsBoard, ReadsRuns, BoardServed

LEMMA RunsKeep == ASSUME RunsTyped, [IngestNext]_ingestVars PROVE RunsTyped'
<1>1. ASSUME NEW j \in ImportRun, ImportsJob(j) PROVE RunsTyped'
  BY <1>1 DEF ImportsJob, Appears, RunsTyped
<1>2. CASE FinalizesJob
  BY <1>2 DEF FinalizesJob, RunsTyped
<1>3. CASE UNCHANGED jobRun
  BY <1>3 DEF RunsTyped
<1> QED
  BY <1>1, <1>2, <1>3
  DEF IngestNext, ingestVars, AgentWorks, AgentCreates, AgentSetsParent, AgentMoves, ReadsBacklogRow,
      WritesBacklogRow, Relinks, WalksParent, FillsParent, ImporterDies, JobEnds,
      ReadsBoard, ReadsRuns, BoardServed

LEMMA RacedStays == ASSUME IngestInv, IngestNext PROVE raced => raced'
  BY DEF IngestInv, IngestTypeOK, IngestNext, AgentWorks, AgentCreates, AgentSetsParent, AgentMoves,
         ReadsBacklogRow, WritesBacklogRow, Relinks, WalksParent, FillsParent, ImportsJob,
         FinalizesJob, ImporterDies, JobEnds, ReadsBoard, ReadsRuns, BoardServed

\* However the import interleaves with agents, dies and is run again: it changes
\* no intent and replaces no parent of a row that exists, no ended run comes
\* back, and no chain of parents closes on itself but where a parent was set
\* between backfill_grouping's walk and its write.
THEOREM ImportRewindsNothingHolds == IngestSpec => ImportRewindsNothing
<1> DEFINE Inv == IngestInv /\ RunsTyped
<1>1. IngestInit => Inv
  BY IngestStart DEF IngestInit, RunsTyped
<1>2. Inv /\ [IngestNext]_ingestVars => Inv'
  BY IngestKeeps, RunsKeep
<1>3. ASSUME Inv, IngestNext
      PROVE  /\ \A w \in WorkId : Present(w) /\ moves' = moves => RowKept(w)
             /\ \A r \in ImportRun : jobRun[r] = "done" => jobRun'[r] = "done"
             /\ raced' \/ \A w \in WorkId : CycleSafe(wrow[w].parent, w)
  <2>1. \A w \in WorkId : Present(w) /\ moves' = moves => RowKept(w)
    BY <1>3, RowsStay
  <2>2. \A r \in ImportRun : jobRun[r] = "done" => jobRun'[r] = "done"
    BY <1>3, EndedStays
  <2>3. ~raced => \A w \in WorkId : CycleSafe(wrow[w].parent, w)
    BY <1>3, SafeMisses DEF IngestInv, ForestKept, Forest
  <2> QED BY <1>3, <2>1, <2>2, <2>3, RacedStays
<1> QED BY <1>1, <1>2, <1>3, PTL DEF IngestSpec, ImportRewindsNothing, RowKept

-----------------------------------------------------------------------------
(* The daily series.  What a response says is its account's, or it saw the *)
(* account switched there and back.                                        *)

DayValue == [owner : Account \cup {"none"}, stamp : Nat]
DaysHeld == [SeriesDay -> DayValue]
SeriesFile == [scope : Account \cup {"none"}, days : DaysHeld]
Fetch ==
  [pc : {"idle", "fetch", "got", "checked", "replica"}, id : Account \cup {"none"}, days : SUBSET SeriesDay,
   owner : Account \cup {"none"}, stamp : Nat, moves : 0 .. 2]
OwnDays(days, a) == \A d \in SeriesDay : days[d].owner \in {"none", a}
\* While the account was not switched it is the fetch's; after one switch it is not.
FetchSound(f, now) ==
  /\ f.pc # "idle" => f.id \in Account
  /\ f.pc \in {"fetch", "got", "checked"} => (f.moves = 0 => now = f.id) /\ (f.moves = 1 => now # f.id)
  /\ f.pc \in {"got", "checked"} /\ f.moves = 0 => f.owner = f.id

SeriesTyped ==
  /\ account \in Account /\ clock \in Nat /\ primary \in SeriesFile /\ backup \in SeriesFile
  /\ retained \in [Process -> [Account -> DaysHeld]] /\ fetching \in [Process -> Fetch]
SeriesInv ==
  /\ SeriesTyped
  /\ \A p \in Process : FetchSound(fetching[p], account)
  /\ OwnDays(primary.days, primary.scope) /\ OwnDays(backup.days, backup.scope)
  /\ \A p \in Process, a \in Account : OwnDays(retained[p][a], a)
  /\ primary.scope = "none" => primary = NoFile

LEMMA NoDaysOwn == NoDays \in DaysHeld /\ \A a : OwnDays(NoDays, a)
BY DEF NoDays, NoDay, DaysHeld, DayValue, OwnDays

LEMMA OnDiskOwn ==
  ASSUME SeriesInv, NEW a \in Account
  PROVE  /\ OnDisk(a) \in DaysHeld /\ OwnDays(OnDisk(a), a)
         /\ primary.scope = a => OnDisk(a) = primary.days
<1>1. /\ primary.days \in DaysHeld /\ OwnDays(primary.days, primary.scope)
      /\ backup.days \in DaysHeld /\ OwnDays(backup.days, backup.scope)
  BY DEF SeriesInv, SeriesTyped, SeriesFile
<1> QED BY <1>1, NoDaysOwn DEF OnDisk

\* What a merge writes is the account's, and nothing older than the file.
LEMMA MergedOwn ==
  ASSUME SeriesInv, NEW p \in Process, fetching[p].pc = "checked", SameAccount(p)
  PROVE  LET a == fetching[p].id
             days == Merged(p, fetching[p])
         IN /\ a \in Account /\ days \in DaysHeld /\ OwnDays(days, a)
            /\ \A d \in SeriesDay : days[d].stamp >= OnDisk(a)[d].stamp
<1>1. PICK f : f = fetching[p]
  OBVIOUS
<1>2. f \in Fetch /\ FetchSound(f, account) /\ f.pc = "checked" /\ account = f.id
  BY <1>1 DEF SeriesInv, SeriesTyped, SameAccount
<1>3. PICK a \in Account : a = f.id
  BY <1>2 DEF FetchSound
<1>4. /\ f.stamp \in Nat /\ f.moves \in 0 .. 2 /\ f.moves # 1
      /\ ClaimedOwner(f) \in {"none", a}
  BY <1>2, <1>3 DEF Fetch, FetchSound, ClaimedOwner
<1>5. PICK kept : kept = Prior(p, a)
  OBVIOUS
<1>6. retained[p][a] \in DaysHeld /\ OwnDays(retained[p][a], a)
  BY DEF SeriesInv, SeriesTyped
<1>7. PICK held, disk : held = retained[p][a] /\ disk = OnDisk(a)
  OBVIOUS
<1>8. held \in DaysHeld /\ disk \in DaysHeld /\ OwnDays(held, a) /\ OwnDays(disk, a)
  BY <1>6, <1>7, OnDiskOwn
<1>9. \A d \in SeriesDay : held[d] \in DayValue /\ disk[d] \in DayValue
  BY <1>8 DEF DaysHeld
<1>10. \A d \in SeriesDay : held[d].stamp \in Nat /\ disk[d].stamp \in Nat
  BY <1>9 DEF DayValue
<1>11. kept = [d \in SeriesDay |-> IF held[d].stamp > disk[d].stamp THEN held[d] ELSE disk[d]]
  BY <1>5, <1>7 DEF Prior
<1>12. \A d \in SeriesDay : /\ kept[d] \in DayValue /\ kept[d].owner \in {"none", a}
                           /\ kept[d].stamp \in Nat /\ kept[d].stamp >= disk[d].stamp
  BY <1>8, <1>9, <1>10, <1>11 DEF OwnDays
<1>13. PICK c \in {"none", a} : c = ClaimedOwner(f)
  BY <1>4
<1>14. PICK days : days = Merged(p, f)
  OBVIOUS
<1>15. days = [d \in SeriesDay |-> IF d \in f.days /\ f.stamp >= kept[d].stamp
                                   THEN [owner |-> c, stamp |-> f.stamp] ELSE kept[d]]
  BY <1>3, <1>5, <1>13, <1>14 DEF Merged
<1>16. ASSUME NEW d \in SeriesDay
       PROVE days[d] \in DayValue /\ days[d].owner \in {"none", a} /\ days[d].stamp >= disk[d].stamp
  <2>1. CASE d \in f.days /\ f.stamp >= kept[d].stamp
    <3>1. days[d] = [owner |-> c, stamp |-> f.stamp]
      BY <1>15, <2>1
    <3> QED BY <1>4, <1>10, <1>12, <2>1, <3>1 DEF DayValue
  <2>2. CASE ~(d \in f.days /\ f.stamp >= kept[d].stamp)
    BY <1>12, <1>15, <2>2
  <2> QED BY <2>1, <2>2
<1>17. days \in DaysHeld
  BY <1>15, <1>16 DEF DaysHeld
<1> QED BY <1>1, <1>3, <1>7, <1>14, <1>16, <1>17 DEF OwnDays

\* One fetch moves on.
LEMMA FetchMoves ==
  ASSUME SeriesInv, NEW p \in Process, NEW f \in Fetch, FetchSound(f, account),
         fetching' = [fetching EXCEPT ![p] = f], account' = account
  PROVE  fetching' \in [Process -> Fetch] /\ \A q \in Process : FetchSound(fetching'[q], account')
BY DEF SeriesInv, SeriesTyped

\* Days are retained for an account.
LEMMA DaysRetained ==
  ASSUME SeriesInv, NEW p \in Process, NEW a \in Account, NEW days \in DaysHeld, OwnDays(days, a),
         retained' = [retained EXCEPT ![p][a] = days]
  PROVE  /\ retained' \in [Process -> [Account -> DaysHeld]]
         /\ \A q \in Process, b \in Account : OwnDays(retained'[q][b], b)
         /\ retained'[p][a] = days
<1>1. retained \in [Process -> [Account -> DaysHeld]]
  BY DEF SeriesInv, SeriesTyped
<1>2. retained' \in [Process -> [Account -> DaysHeld]]
  BY <1>1
<1>3. \A q \in Process, b \in Account : retained'[q][b] = IF q = p /\ b = a THEN days ELSE retained[q][b]
  BY <1>1
<1> QED BY <1>2, <1>3 DEF SeriesInv

LEMMA NotFetchingSound == NotFetching \in Fetch /\ \A now : FetchSound(NotFetching, now)
BY DEF NotFetching, Fetch, FetchSound

LEMMA SeriesStart == SeriesInit => SeriesInv
BY SeriesAssumption, NoDaysOwn, NotFetchingSound DEF SeriesInit, SeriesInv, SeriesTyped, SeriesFile, NoFile

\* A step keeps the invariant, and the file's days.
SeriesStep ==
  /\ SeriesInv'
  /\ primary.scope = primary'.scope => \A d \in SeriesDay : primary'.days[d].stamp >= primary.days[d].stamp

LEMMA SameFile ==
  ASSUME SeriesInv, primary' = primary, SeriesInv'
  PROVE  SeriesStep
<1>1. \A d \in SeriesDay : primary.days[d].stamp \in Nat
  BY DEF SeriesInv, SeriesTyped, SeriesFile, DaysHeld, DayValue
<1> QED BY <1>1 DEF SeriesStep

LEMMA ObserveSteps == ASSUME SeriesInv, NEW p \in Process, Observe(p) PROVE SeriesStep
<1>1. PICK a, days : a = fetching[p].id /\ days = Merged(p, fetching[p])
  OBVIOUS
<1>2. /\ a \in Account /\ days \in DaysHeld /\ OwnDays(days, a)
      /\ \A d \in SeriesDay : days[d].stamp >= OnDisk(a)[d].stamp
  BY <1>1, MergedOwn DEF Observe
<1>3. /\ retained' = [retained EXCEPT ![p][a] = days] /\ primary' = [scope |-> a, days |-> days]
      /\ fetching' = [fetching EXCEPT ![p].pc = "replica"] /\ UNCHANGED <<account, clock, backup>>
  BY <1>1 DEF Observe
<1>4. PICK f : f = [fetching[p] EXCEPT !.pc = "replica"]
  OBVIOUS
<1>5. fetching[p] \in Fetch
  BY DEF SeriesInv, SeriesTyped
<1>6. f \in Fetch /\ f.pc = "replica" /\ f.id = a
  BY <1>1, <1>4, <1>5 DEF Fetch
<1>7. fetching' = [fetching EXCEPT ![p] = f]
  BY <1>3, <1>4
<1>8. FetchSound(f, account)
  BY <1>2, <1>6 DEF FetchSound
<1>9. fetching' \in [Process -> Fetch] /\ \A q \in Process : FetchSound(fetching'[q], account')
  BY <1>3, <1>6, <1>7, <1>8, FetchMoves
<1>10. /\ retained' \in [Process -> [Account -> DaysHeld]]
       /\ \A q \in Process, b \in Account : OwnDays(retained'[q][b], b)
  BY <1>2, <1>3, DaysRetained
<1>11. primary' \in SeriesFile /\ primary'.scope = a /\ primary'.days = days
  BY <1>2, <1>3 DEF SeriesFile
<1>12. a # "none"
  BY <1>2, SeriesAssumption
<1>13. SeriesInv'
  BY <1>2, <1>3, <1>9, <1>10, <1>11, <1>12 DEF SeriesInv, SeriesTyped, NoFile, NoDays, NoDay, SeriesFile, DaysHeld, DayValue, Fetch, OwnDays, FetchSound
<1>14. primary.scope = a => OnDisk(a) = primary.days
  BY <1>2, OnDiskOwn
<1> QED BY <1>2, <1>11, <1>13, <1>14 DEF SeriesStep

LEMMA MemorySteps == ASSUME SeriesInv, NEW p \in Process, ObserveInMemory(p) PROVE SeriesStep
<1>1. PICK a, days : a = fetching[p].id /\ days = Merged(p, fetching[p])
  OBVIOUS
<1>2. a \in Account /\ days \in DaysHeld /\ OwnDays(days, a)
  BY <1>1, MergedOwn DEF ObserveInMemory
<1>3. /\ retained' = [retained EXCEPT ![p][a] = days]
      /\ fetching' = [fetching EXCEPT ![p] = NotFetching] /\ UNCHANGED <<account, clock, primary, backup>>
  BY <1>1 DEF ObserveInMemory
<1>4. fetching' \in [Process -> Fetch] /\ \A q \in Process : FetchSound(fetching'[q], account')
  BY <1>3, NotFetchingSound, FetchMoves
<1>5. /\ retained' \in [Process -> [Account -> DaysHeld]]
      /\ \A q \in Process, b \in Account : OwnDays(retained'[q][b], b)
  BY <1>2, <1>3, DaysRetained
<1>6. SeriesInv'
  BY <1>3, <1>4, <1>5 DEF SeriesInv, SeriesTyped, NoFile, NoDays, NoDay, SeriesFile, DaysHeld, DayValue, Fetch, OwnDays, FetchSound
<1> QED BY <1>3, <1>6, SameFile

\* Steps that leave both files alone.
LEMMA OffFileSteps ==
  ASSUME SeriesInv, account' \in Account, clock' \in Nat, UNCHANGED <<primary, backup>>,
         fetching' \in [Process -> Fetch], \A q \in Process : FetchSound(fetching'[q], account'),
         retained' \in [Process -> [Account -> DaysHeld]],
         \A q \in Process, b \in Account : OwnDays(retained'[q][b], b)
  PROVE  SeriesStep
<1>1. SeriesInv'
  BY DEF SeriesInv, SeriesTyped, NoFile, NoDays, NoDay, SeriesFile, DaysHeld, DayValue, Fetch, OwnDays, FetchSound
<1> QED BY <1>1, SameFile

LEMMA ReplicaSteps == ASSUME SeriesInv, NEW p \in Process, WriteReplica(p) PROVE SeriesStep
<1>1. PICK a, days : a = fetching[p].id /\ days = retained[p][a]
  OBVIOUS
<1>2. a \in Account
  BY <1>1 DEF SeriesInv, FetchSound, WriteReplica
<1>3. days \in DaysHeld /\ OwnDays(days, a)
  BY <1>1, <1>2 DEF SeriesInv, SeriesTyped
<1>4. /\ backup' = [scope |-> a, days |-> days] /\ fetching' = [fetching EXCEPT ![p] = NotFetching]
      /\ UNCHANGED <<account, clock, primary, retained>>
  BY <1>1 DEF WriteReplica
<1>5. fetching' \in [Process -> Fetch] /\ \A q \in Process : FetchSound(fetching'[q], account')
  BY <1>4, NotFetchingSound, FetchMoves
<1>6. backup' \in SeriesFile /\ backup'.scope = a /\ backup'.days = days
  BY <1>2, <1>3, <1>4 DEF SeriesFile
<1>7. SeriesInv'
  BY <1>3, <1>4, <1>5, <1>6 DEF SeriesInv, SeriesTyped, NoFile, NoDays, NoDay, SeriesFile, DaysHeld, DayValue, Fetch, OwnDays, FetchSound
<1> QED BY <1>4, <1>7, SameFile

LEMMA BeginSteps == ASSUME SeriesInv, NEW p \in Process, FetchBegins(p) PROVE SeriesStep
<1>1. PICK a \in Account : a = account
  BY DEF SeriesInv, SeriesTyped
<1>2. PICK days : days = Recalled(p, a)
  OBVIOUS
<1>3. days \in DaysHeld /\ OwnDays(days, a)
  BY <1>2, OnDiskOwn DEF Recalled, SeriesInv, SeriesTyped
<1>4. PICK f : f = [NotFetching EXCEPT !.pc = "fetch", !.id = a]
  OBVIOUS
<1>5. /\ retained' = [retained EXCEPT ![p][a] = days] /\ fetching' = [fetching EXCEPT ![p] = f]
      /\ UNCHANGED <<account, clock, primary, backup>>
  BY <1>1, <1>2, <1>4 DEF FetchBegins
<1>6. f \in Fetch /\ FetchSound(f, account)
  <2>1. f = [pc |-> "fetch", id |-> a, days |-> {}, owner |-> "none", stamp |-> 0, moves |-> 0]
    BY <1>4 DEF NotFetching
  <2>2. f \in Fetch
    BY <2>1 DEF Fetch
  <2>3. FetchSound(f, a)
    BY <2>1 DEF FetchSound
  <2> QED BY <1>1, <2>2, <2>3
<1>7. fetching' \in [Process -> Fetch] /\ \A q \in Process : FetchSound(fetching'[q], account')
  BY <1>5, <1>6, FetchMoves
<1>8. /\ retained' \in [Process -> [Account -> DaysHeld]]
      /\ \A q \in Process, b \in Account : OwnDays(retained'[q][b], b)
  BY <1>3, <1>5, DaysRetained
<1> QED BY <1>1, <1>5, <1>7, <1>8, OffFileSteps DEF SeriesInv, SeriesTyped

LEMMA EndSteps == ASSUME SeriesInv, NEW p \in Process, FetchEnds(p) PROVE SeriesStep
<1>1. PICK days \in SUBSET SeriesDay :
        fetching' = [fetching EXCEPT ![p].pc = "got", ![p].days = days, ![p].owner = account]
  BY DEF FetchEnds
<1>2. PICK f : f = [fetching[p] EXCEPT !.pc = "got", !.days = days, !.owner = account]
  OBVIOUS
<1>3. fetching' = [fetching EXCEPT ![p] = f]
  BY <1>1, <1>2 DEF SeriesInv, SeriesTyped
<1>4. fetching[p] \in Fetch /\ FetchSound(fetching[p], account) /\ fetching[p].pc = "fetch" /\ account \in Account
  BY DEF SeriesInv, SeriesTyped, FetchEnds
<1>5. f \in Fetch /\ f.pc = "got" /\ f.owner = account /\ f.id = fetching[p].id /\ f.moves = fetching[p].moves
  BY <1>2, <1>4 DEF Fetch
<1>6. FetchSound(f, account)
  BY <1>4, <1>5 DEF FetchSound
<1>7. UNCHANGED <<account, clock, primary, backup, retained>>
  BY DEF FetchEnds
<1>8. fetching' \in [Process -> Fetch] /\ \A q \in Process : FetchSound(fetching'[q], account')
  BY <1>3, <1>5, <1>6, <1>7, FetchMoves
<1> QED BY <1>7, <1>8, OffFileSteps DEF SeriesInv, SeriesTyped

LEMMA StampSteps == ASSUME SeriesInv, NEW p \in Process, Stamped(p) PROVE SeriesStep
<1>1. PICK now \in Nat : now = clock
  BY DEF SeriesInv, SeriesTyped
<1>2. PICK f : f = [fetching[p] EXCEPT !.pc = "checked", !.stamp = now]
  OBVIOUS
<1>3. fetching' = [fetching EXCEPT ![p] = f]
  BY <1>1, <1>2 DEF SeriesInv, SeriesTyped, Stamped
<1>4. fetching[p] \in Fetch /\ FetchSound(fetching[p], account) /\ fetching[p].pc = "got"
  BY DEF SeriesInv, SeriesTyped, Stamped
<1>5. /\ f \in Fetch /\ f.pc = "checked" /\ f.owner = fetching[p].owner /\ f.id = fetching[p].id
      /\ f.moves = fetching[p].moves
  BY <1>2, <1>4 DEF Fetch
<1>6. FetchSound(f, account)
  BY <1>4, <1>5 DEF FetchSound
<1>7. clock' = now + 1 /\ UNCHANGED <<account, primary, backup, retained>>
  BY <1>1 DEF Stamped
<1>8. fetching' \in [Process -> Fetch] /\ \A q \in Process : FetchSound(fetching'[q], account')
  BY <1>3, <1>5, <1>6, <1>7, FetchMoves
<1> QED BY <1>7, <1>8, OffFileSteps DEF SeriesInv, SeriesTyped

LEMMA FailSteps == ASSUME SeriesInv, NEW p \in Process, FetchFails(p) PROVE SeriesStep
<1>1. fetching' = [fetching EXCEPT ![p] = NotFetching] /\ UNCHANGED <<account, clock, primary, backup, retained>>
  BY DEF FetchFails
<1>2. fetching' \in [Process -> Fetch] /\ \A q \in Process : FetchSound(fetching'[q], account')
  BY <1>1, NotFetchingSound, FetchMoves
<1> QED BY <1>1, <1>2, OffFileSteps DEF SeriesInv, SeriesTyped

LEMMA SwitchSteps == ASSUME SeriesInv, AccountSwitched PROVE SeriesStep
<1>1. PICK a \in Account : account' = a /\ a # account
  BY DEF AccountSwitched
<1>2. UNCHANGED <<clock, primary, backup, retained>>
  BY DEF AccountSwitched
<1>3. ASSUME NEW p \in Process PROVE fetching'[p] \in Fetch /\ FetchSound(fetching'[p], a)
  <2>1. PICK f : f = fetching[p]
    OBVIOUS
  <2>2. f \in Fetch /\ FetchSound(f, account)
    BY <2>1 DEF SeriesInv, SeriesTyped
  <2>3. CASE f.pc \in {"fetch", "got", "checked"} /\ f.moves < 2
    <3>1. PICK n \in 0 .. 2 : n = f.moves + 1
      BY <2>2, <2>3 DEF Fetch
    <3>2. fetching'[p] = [f EXCEPT !.moves = n]
      BY <2>1, <2>3, <3>1 DEF AccountSwitched
    <3>3. PICK g : g = [f EXCEPT !.moves = n]
      OBVIOUS
    <3>4. g \in Fetch /\ g.pc = f.pc /\ g.id = f.id /\ g.owner = f.owner /\ g.moves = n /\ f.moves \in Nat
      BY <2>2, <3>3 DEF Fetch
    <3>5. FetchSound(g, a)
      BY <1>1, <2>2, <2>3, <3>1, <3>4 DEF FetchSound
    <3> QED BY <3>2, <3>3, <3>4, <3>5
  <2>4. CASE ~(f.pc \in {"fetch", "got", "checked"} /\ f.moves < 2)
    <3>1. fetching'[p] = f
      BY <2>1, <2>4 DEF AccountSwitched
    <3>2. f.moves \in 0 .. 2
      BY <2>2 DEF Fetch
    <3>3. FetchSound(f, a)
      BY <2>2, <2>4, <3>2 DEF FetchSound
    <3> QED BY <2>2, <3>1, <3>3
  <2> QED BY <2>3, <2>4
<1>4. fetching' \in [Process -> Fetch] /\ \A q \in Process : FetchSound(fetching'[q], account')
  BY <1>1, <1>3 DEF AccountSwitched
<1> QED BY <1>1, <1>2, <1>4, OffFileSteps DEF SeriesInv, SeriesTyped

LEMMA DeathSteps == ASSUME SeriesInv, NEW p \in Process, ProcessDies(p) PROVE SeriesStep
<1>1. /\ fetching' = [fetching EXCEPT ![p] = NotFetching] /\ UNCHANGED <<account, clock, primary, backup>>
      /\ retained' = [retained EXCEPT ![p] = [a \in Account |-> NoDays]]
  BY DEF ProcessDies
<1>2. fetching' \in [Process -> Fetch] /\ \A q \in Process : FetchSound(fetching'[q], account')
  BY <1>1, NotFetchingSound, FetchMoves
<1>3. retained' \in [Process -> [Account -> DaysHeld]]
  BY <1>1, NoDaysOwn DEF SeriesInv, SeriesTyped
<1>4. \A q \in Process, b \in Account : OwnDays(retained'[q][b], b)
  BY <1>1, NoDaysOwn DEF SeriesInv, SeriesTyped
<1> QED BY <1>1, <1>2, <1>3, <1>4, OffFileSteps DEF SeriesInv, SeriesTyped

LEMMA DamageSteps == ASSUME SeriesInv, PrimaryDamaged PROVE SeriesStep
<1>1. primary # NoFile /\ primary' = NoFile /\ UNCHANGED <<account, clock, backup, retained, fetching>>
  BY DEF PrimaryDamaged
<1>2. NoFile \in SeriesFile /\ NoFile.scope = "none" /\ OwnDays(NoFile.days, NoFile.scope)
  BY NoDaysOwn DEF NoFile, SeriesFile
<1>3. primary.scope # "none"
  BY <1>1 DEF SeriesInv
<1>4. SeriesInv'
  BY <1>1, <1>2 DEF SeriesInv, SeriesTyped, NoFile, NoDays, NoDay, SeriesFile, DaysHeld, DayValue, Fetch, OwnDays, FetchSound
<1> QED BY <1>1, <1>2, <1>3, <1>4 DEF SeriesStep

LEMMA SeriesKept == SeriesInv /\ [SeriesNext]_seriesVars => SeriesStep
<1> SUFFICES ASSUME SeriesInv, [SeriesNext]_seriesVars PROVE SeriesStep
  OBVIOUS
<1>1. ASSUME NEW p \in Process,
             \/ FetchBegins(p) \/ FetchEnds(p) \/ Stamped(p) \/ FetchFails(p)
             \/ Observe(p) \/ WriteReplica(p) \/ ObserveInMemory(p) \/ ProcessDies(p)
      PROVE SeriesStep
  BY <1>1, BeginSteps, EndSteps, StampSteps, FailSteps, ObserveSteps, ReplicaSteps, MemorySteps, DeathSteps
<1>2. CASE UNCHANGED seriesVars
  BY <1>2, OffFileSteps DEF seriesVars, SeriesInv, SeriesTyped
<1> QED BY <1>1, <1>2, SwitchSteps, DamageSteps DEF SeriesNext, SeriesSteps

-----------------------------------------------------------------------------
(* The replica.  While a file is copied, its stat tells whether the first  *)
(* half is still that of the source.                                       *)

Blocks == Nat \X Nat
SourceItem == [blocks : Blocks, mtime : Nat, present : BOOLEAN]
Copies == UNION {[D -> Blocks] : D \in SUBSET Src}
SeedState ==
  [pc : {"idle", "next", "copy"}, item : Src \cup {"none"}, left : SUBSET Src, stat : Nat, half : Nat,
   attempt : Nat, entries : Copies]
\* Copies of what the sources once were.
Untorn(g) == g \in Copies /\ \A i \in DOMAIN g : g[i] \in was[i]
SourcesInv ==
  /\ source \in [Src -> SourceItem] /\ was \in [Src -> SUBSET Blocks]
  /\ \A i \in Src : source[i].blocks \in was[i]
SeedSound(s) ==
  /\ s \in SeedState /\ Untorn(s.entries)
  /\ s.pc # "idle" => \A i \in Src \ Optional : i \in s.left \/ i \in DOMAIN s.entries
  /\ s.pc = "copy" => /\ s.item \in s.left /\ s.stat <= source[s.item].mtime
                      /\ s.stat = source[s.item].mtime => s.half = source[s.item].blocks[1]
ReplicaInv ==
  /\ SourcesInv /\ SeedSound(seed)
  /\ \A g \in published : Untorn(g) /\ Src \ Optional \subseteq DOMAIN g

LEMMA NothingCopied == << >> \in Copies /\ DOMAIN << >> = {}
<1>1. << >> \in [{} -> Blocks]
  OBVIOUS
<1> QED BY <1>1 DEF Copies

LEMMA NoSeedSound == SeedSound(NoSeed)
<1>1. NoSeed \in SeedState
  BY NothingCopied DEF NoSeed, SeedState
<1>2. NoSeed.pc = "idle" /\ NoSeed.entries = << >>
  BY DEF NoSeed
<1> QED BY <1>1, <1>2, NothingCopied DEF SeedSound, Untorn

LEMMA ReplicaStart == ReplicaInit => ReplicaInv
<1> SUFFICES ASSUME ReplicaInit PROVE ReplicaInv
  OBVIOUS
<1>1. <<0, 0>> \in Blocks
  BY DEF Blocks
<1>2. SourcesInv
  BY <1>1 DEF ReplicaInit, SourcesInv, SourceItem
<1> QED BY <1>2, NoSeedSound DEF ReplicaInit, ReplicaInv

\* One more copy.
LEMMA CopyAdded ==
  ASSUME ReplicaInv, NEW g, Untorn(g), NEW i \in Src, NEW copy \in was[i]
  PROVE  Untorn(With(g, i, copy)) /\ DOMAIN With(g, i, copy) = DOMAIN g \cup {i}
<1>1. PICK D \in SUBSET Src : g \in [D -> Blocks]
  BY DEF Untorn, Copies
<1>2. PICK h : h = With(g, i, copy)
  OBVIOUS
<1>3. h = [k \in D \cup {i} |-> IF k = i THEN copy ELSE g[k]]
  BY <1>1, <1>2 DEF With
<1>4. copy \in Blocks
  BY DEF ReplicaInv, SourcesInv
<1>5. h \in [D \cup {i} -> Blocks] /\ D \cup {i} \in SUBSET Src
  BY <1>1, <1>3, <1>4
<1>6. h \in Copies
  BY <1>5 DEF Copies
<1>7. \A k \in D \cup {i} : h[k] \in was[k]
  BY <1>1, <1>3 DEF Untorn
<1> QED BY <1>1, <1>2, <1>3, <1>6, <1>7 DEF Untorn

\* The run goes on, the sources and what was published stay.
LEMMA SeedMoves ==
  ASSUME ReplicaInv, UNCHANGED <<source, was, published>>, SeedSound(seed')
  PROVE  ReplicaInv'
BY DEF ReplicaInv, SourcesInv, SeedSound, Untorn, SourceItem, SeedState, Copies, Blocks

LEMMA SeedBeginsKeeps == ASSUME ReplicaInv, NEW v \in Volume, SeedBegins(v) PROVE ReplicaInv'
<1>1. PICK s : s = [NoSeed EXCEPT !.pc = "next", !.left = Src]
  OBVIOUS
<1>2. seed' = s /\ UNCHANGED <<source, was, published>>
  BY <1>1 DEF SeedBegins
<1>3. NoSeed \in SeedState /\ Untorn(NoSeed.entries)
  BY NoSeedSound DEF SeedSound
<1>4. s \in SeedState /\ s.pc = "next" /\ s.left = Src /\ s.entries = NoSeed.entries
  BY <1>1, <1>3 DEF SeedState
<1>5. SeedSound(s)
  BY <1>3, <1>4 DEF SeedSound
<1> QED BY <1>2, <1>5, SeedMoves

LEMMA GivesUp == ASSUME ReplicaInv, GiveUpSeed, UNCHANGED <<source, was, published>> PROVE ReplicaInv'
BY NoSeedSound, SeedMoves DEF GiveUpSeed

\* An item is copied and taken from the list.
LEMMA KeptSound ==
  ASSUME ReplicaInv, seed.pc # "idle", NEW i \in Src, NEW copy \in was[i]
  PROVE  SeedSound(Kept(i, copy)) /\ Kept(i, copy) \in SeedState /\ Kept(i, copy).pc = "next"
<1>1. PICK e : e = With(seed.entries, i, copy)
  OBVIOUS
<1>2. PICK s : s = Kept(i, copy)
  OBVIOUS
<1>3. seed \in SeedState /\ Untorn(seed.entries) /\ \A k \in Src \ Optional : k \in seed.left \/ k \in DOMAIN seed.entries
  BY DEF ReplicaInv, SeedSound
<1>4. Untorn(e) /\ DOMAIN e = DOMAIN seed.entries \cup {i}
  BY <1>1, <1>3, CopyAdded
<1>5. PICK left \in SUBSET Src : left = seed.left \ {i}
  BY <1>3 DEF SeedState
<1>6. s = [seed EXCEPT !.pc = "next", !.left = left, !.entries = e]
  BY <1>1, <1>2, <1>5 DEF Kept
<1>7. s \in SeedState /\ s.pc = "next" /\ s.left = left /\ s.entries = e
  BY <1>3, <1>4, <1>6 DEF SeedState, Untorn
<1>8. SeedSound(s)
  BY <1>3, <1>4, <1>5, <1>7 DEF SeedSound
<1> QED BY <1>2, <1>7, <1>8

LEMMA CopyItemKeeps == ASSUME ReplicaInv, NEW i \in Src, CopyItem(i) PROVE ReplicaInv'
<1>1. UNCHANGED <<source, was, published>> /\ seed.pc = "next" /\ i \in seed.left
  BY DEF CopyItem
<1>2. seed \in SeedState /\ SeedSound(seed) /\ source[i] \in SourceItem /\ source[i].blocks \in was[i]
  BY DEF ReplicaInv, SeedSound, SourcesInv
<1>3. CASE ~source[i].present /\ i \in Optional /\ seed' = [seed EXCEPT !.left = @ \ {i}]
  <2>1. PICK left \in SUBSET Src : left = seed.left \ {i}
    BY <1>2 DEF SeedState
  <2>2. PICK s : s = [seed EXCEPT !.left = left]
    OBVIOUS
  <2>3. s \in SeedState /\ s.pc = seed.pc /\ s.left = left /\ s.entries = seed.entries
    BY <1>2, <2>2 DEF SeedState
  <2>4. SeedSound(s)
    BY <1>1, <1>2, <1>3, <2>1, <2>3 DEF SeedSound
  <2>5. seed' = s
    BY <1>3, <2>1, <2>2
  <2> QED BY <1>1, <2>4, <2>5, SeedMoves
<1>4. CASE GiveUpSeed
  BY <1>1, <1>4, GivesUp
<1>5. CASE seed' = Kept(i, source[i].blocks)
  BY <1>1, <1>2, <1>5, KeptSound, SeedMoves
<1>6. CASE seed' = [seed EXCEPT !.pc = "copy", !.item = i, !.attempt = 1,
                                !.stat = source[i].mtime, !.half = source[i].blocks[1]]
  <2>1. PICK t \in Nat, h \in Nat : t = source[i].mtime /\ h = source[i].blocks[1]
    BY <1>2 DEF SourceItem, Blocks
  <2>2. PICK s : s = [seed EXCEPT !.pc = "copy", !.item = i, !.attempt = 1, !.stat = t, !.half = h]
    OBVIOUS
  <2>3. /\ s \in SeedState /\ s.pc = "copy" /\ s.left = seed.left /\ s.entries = seed.entries
        /\ s.item = i /\ s.stat = t /\ s.half = h
    BY <1>2, <2>2 DEF SeedState
  <2>4. SeedSound(s)
    BY <1>1, <1>2, <2>1, <2>3 DEF SeedSound
  <2>5. seed' = s
    BY <1>6, <2>1, <2>2
  <2> QED BY <1>1, <2>4, <2>5, SeedMoves
<1> QED BY <1>3, <1>4, <1>5, <1>6 DEF CopyItem

LEMMA CopyEndsKeeps == ASSUME ReplicaInv, CopyEnds PROVE ReplicaInv'
<1>1. UNCHANGED <<source, was, published>> /\ seed.pc = "copy"
  BY DEF CopyEnds
<1>2. seed \in SeedState /\ SeedSound(seed)
  BY DEF ReplicaInv, SeedSound
<1>3. PICK i \in Src : i = seed.item
  BY <1>1, <1>2 DEF SeedSound, SeedState
<1>4. i \in seed.left /\ source[i] \in SourceItem /\ source[i].blocks \in was[i]
  BY <1>1, <1>2, <1>3 DEF ReplicaInv, SeedSound, SourcesInv
<1>5. PICK t \in Nat, a \in Nat, b \in Nat : t = source[i].mtime /\ source[i].blocks = <<a, b>>
  BY <1>4 DEF SourceItem, Blocks
<1>6. CASE /\ Unchanged(seed.stat, t)
           /\ seed' = [Kept(i, <<seed.half, b>>) EXCEPT !.item = "none", !.attempt = 0, !.stat = 0, !.half = 0]
  <2>1. seed.half = a
    BY <1>1, <1>2, <1>3, <1>5, <1>6 DEF SeedSound, Unchanged
  <2>2. <<seed.half, b>> \in was[i]
    BY <1>4, <1>5, <2>1
  <2>3. PICK k : k = Kept(i, <<seed.half, b>>)
    OBVIOUS
  <2>4. SeedSound(k) /\ k \in SeedState /\ k.pc = "next"
    BY <1>1, <2>2, <2>3, KeptSound
  <2>5. PICK s : s = [k EXCEPT !.item = "none", !.attempt = 0, !.stat = 0, !.half = 0]
    OBVIOUS
  <2>6. s \in SeedState /\ s.pc = "next" /\ s.left = k.left /\ s.entries = k.entries
    BY <2>4, <2>5 DEF SeedState
  <2>7. SeedSound(s)
    BY <2>4, <2>6 DEF SeedSound
  <2>8. seed' = s
    BY <1>6, <2>3, <2>5
  <2> QED BY <1>1, <2>7, <2>8, SeedMoves
<1>7. CASE seed' = [seed EXCEPT !.attempt = @ + 1, !.stat = t, !.half = a]
  <2>1. PICK n \in Nat : n = seed.attempt + 1
    BY <1>2 DEF SeedState
  <2>2. PICK s : s = [seed EXCEPT !.attempt = n, !.stat = t, !.half = a]
    OBVIOUS
  <2>3. /\ s \in SeedState /\ s.pc = "copy" /\ s.left = seed.left /\ s.entries = seed.entries
        /\ s.item = i /\ s.stat = t /\ s.half = a
    BY <1>1, <1>2, <1>3, <2>2 DEF SeedState
  <2>4. SeedSound(s)
    BY <1>1, <1>2, <1>4, <1>5, <2>3 DEF SeedSound
  <2>5. seed' = s
    BY <1>7, <2>1, <2>2
  <2> QED BY <1>1, <2>4, <2>5, SeedMoves
<1>8. CASE GiveUpSeed
  BY <1>1, <1>8, GivesUp
<1> QED BY <1>3, <1>5, <1>6, <1>7, <1>8 DEF CopyEnds

LEMMA SeedPublishKeeps == ASSUME ReplicaInv, PublishSeed PROVE ReplicaInv'
<1>1. PICK g : g = seed.entries
  OBVIOUS
<1>2. /\ seed.pc = "next" /\ seed.left = {} /\ published' = published \cup {g} /\ seed' = NoSeed
      /\ UNCHANGED <<source, was>>
  BY <1>1 DEF PublishSeed
<1>3. Untorn(g) /\ Src \ Optional \subseteq DOMAIN g
  BY <1>1, <1>2 DEF ReplicaInv, SeedSound
<1>4. \A x : Untorn(x) => Untorn(x)'
  BY <1>2 DEF Untorn, Copies, Blocks
<1>5. SeedSound(seed)'
  BY <1>2, NoSeedSound DEF SeedSound, Untorn, SeedState, Copies, Blocks
<1>6. SourcesInv'
  BY <1>2 DEF ReplicaInv, SourcesInv, SourceItem, Blocks
<1>7. \A x \in published' : Untorn(x)' /\ Src \ Optional \subseteq DOMAIN x
  BY <1>2, <1>3, <1>4 DEF ReplicaInv
<1> QED BY <1>5, <1>6, <1>7 DEF ReplicaInv

LEMMA WriteKeeps == ASSUME ReplicaInv, NEW i \in Src, NEW b \in 1 .. 2, BlockWritten(i, b) PROVE ReplicaInv'
<1>1. PICK t \in Nat, x \in Nat, y \in Nat : t = source[i].mtime /\ source[i].blocks = <<x, y>>
  BY DEF ReplicaInv, SourcesInv, SourceItem, Blocks
<1>2. PICK now : now = [source[i].blocks EXCEPT ![b] = @ + 1]
  OBVIOUS
<1>3. now \in Blocks
  <2>1. CASE b = 1
    <3>1. now = <<x + 1, y>>
      BY <1>1, <1>2, <2>1
    <3> QED BY <3>1 DEF Blocks
  <2>2. CASE b = 2
    <3>1. now = <<x, y + 1>>
      BY <1>1, <1>2, <2>2
    <3> QED BY <3>1 DEF Blocks
  <2> QED BY <2>1, <2>2
<1>4. PICK r : r = [source[i] EXCEPT !.blocks = now, !.mtime = t + 1]
  OBVIOUS
<1>5. source[i] \in SourceItem
  BY DEF ReplicaInv, SourcesInv
<1>6. r \in SourceItem /\ r.blocks = now /\ r.mtime = t + 1
  <2>1. PICK n \in Nat : n = t + 1
    OBVIOUS
  <2> QED BY <1>3, <1>4, <1>5, <2>1 DEF SourceItem
<1>7. source' = [source EXCEPT ![i] = r] /\ was' = [was EXCEPT ![i] = @ \cup {now}] /\ UNCHANGED <<seed, published>>
  BY <1>1, <1>2, <1>4 DEF BlockWritten, ReplicaInv, SourcesInv
<1>8. /\ source' \in [Src -> SourceItem] /\ was' \in [Src -> SUBSET Blocks]
      /\ \A k \in Src : source'[k] = IF k = i THEN r ELSE source[k]
      /\ \A k \in Src : was[k] \subseteq was'[k]
      /\ now \in was'[i]
  BY <1>3, <1>6, <1>7 DEF ReplicaInv, SourcesInv
<1>9. SourcesInv'
  BY <1>6, <1>8 DEF ReplicaInv, SourcesInv, SourceItem, Blocks
<1>10. \A g : Untorn(g) => Untorn(g)'
  <2> SUFFICES ASSUME NEW g, Untorn(g) PROVE Untorn(g)'
    OBVIOUS
  <2>1. DOMAIN g \subseteq Src
    BY DEF Untorn, Copies
  <2> QED BY <1>8, <2>1 DEF Untorn, Copies, Blocks
<1>11. SeedSound(seed)'
  <2>1. seed \in SeedState /\ Untorn(seed.entries)' /\ seed' = seed
    BY <1>7, <1>10 DEF ReplicaInv, SeedSound
  <2>2. seed.pc = "copy" => /\ seed.item \in seed.left /\ seed.stat <= source'[seed.item].mtime
                            /\ seed.stat = source'[seed.item].mtime => seed.half = source'[seed.item].blocks[1]
    <3> SUFFICES ASSUME seed.pc = "copy"
                 PROVE  /\ seed.item \in seed.left /\ seed.stat <= source'[seed.item].mtime
                        /\ seed.stat = source'[seed.item].mtime => seed.half = source'[seed.item].blocks[1]
      OBVIOUS
    <3>1. /\ seed.item \in seed.left /\ seed.item \in Src /\ seed.stat \in Nat
          /\ seed.stat <= source[seed.item].mtime
          /\ seed.stat = source[seed.item].mtime => seed.half = source[seed.item].blocks[1]
      BY <2>1 DEF ReplicaInv, SeedSound, SeedState
    <3>2. CASE seed.item = i
      BY <1>1, <1>6, <1>8, <3>1, <3>2
    <3>3. CASE seed.item # i
      BY <1>8, <3>1, <3>3
    <3> QED BY <3>2, <3>3
  <2>3. seed.pc # "idle" => \A k \in Src \ Optional : k \in seed.left \/ k \in DOMAIN seed.entries
    BY DEF ReplicaInv, SeedSound
  <2> QED BY <2>1, <2>2, <2>3 DEF SeedSound, Untorn, SeedState, Copies, Blocks
<1> QED BY <1>7, <1>9, <1>10, <1>11 DEF ReplicaInv

LEMMA RemovedKeeps == ASSUME ReplicaInv, NEW i \in Src, Removed(i) PROVE ReplicaInv'
<1>1. source[i] \in SourceItem
  BY DEF ReplicaInv, SourcesInv
<1>2. PICK r : r = [source[i] EXCEPT !.present = FALSE]
  OBVIOUS
<1>3. r \in SourceItem /\ r.blocks = source[i].blocks /\ r.mtime = source[i].mtime
  BY <1>1, <1>2 DEF SourceItem
<1>4. source' = [source EXCEPT ![i] = r] /\ UNCHANGED <<was, seed, published>>
  BY <1>2 DEF Removed, ReplicaInv, SourcesInv
<1>5. /\ source' \in [Src -> SourceItem]
      /\ \A k \in Src : source'[k].blocks = source[k].blocks /\ source'[k].mtime = source[k].mtime
  BY <1>3, <1>4 DEF ReplicaInv, SourcesInv
<1>6. SourcesInv'
  BY <1>4, <1>5 DEF ReplicaInv, SourcesInv, SourceItem, Blocks
<1>7. \A g : Untorn(g) => Untorn(g)'
  BY <1>4 DEF Untorn, Copies, Blocks
<1>8. seed.pc = "copy" => seed.item \in Src
  BY DEF ReplicaInv, SeedSound, SeedState
<1>9. SeedSound(seed)'
  BY <1>4, <1>5, <1>7, <1>8 DEF ReplicaInv, SeedSound, SeedState, Copies, Blocks
<1> QED BY <1>4, <1>6, <1>7, <1>9 DEF ReplicaInv

LEMMA ReplicaKept == ReplicaInv /\ [ReplicaNext]_replicaVars => ReplicaInv'
<1> SUFFICES ASSUME ReplicaInv, [ReplicaNext]_replicaVars PROVE ReplicaInv'
  OBVIOUS
<1>1. CASE UNCHANGED replicaVars
  BY <1>1, SeedMoves DEF replicaVars, ReplicaInv, SeedSound, Untorn, SeedState, Copies, Blocks
<1>2. CASE SeederDies
  BY <1>2, GivesUp DEF SeederDies, GiveUpSeed
<1> QED BY <1>1, <1>2, SeedBeginsKeeps, CopyItemKeeps, RemovedKeeps, WriteKeeps, CopyEndsKeeps, SeedPublishKeeps
        DEF ReplicaNext

-----------------------------------------------------------------------------
(* What usage keeps on file is the account's and never goes back, though    *)
(* fetches, switches and processes interleave; what is published is whole,  *)
(* each source as it once was (refresh_now, _merge, seed_replica).          *)
THEOREM FilesUntornHolds == SeriesSpec /\ ReplicaSpec => FilesUntorn
<1>1. SeriesInit => SeriesInv
  BY SeriesStart
<1>2. SeriesInv /\ [SeriesNext]_seriesVars => SeriesInv'
  BY SeriesKept DEF SeriesStep
<1>3. SeriesInv /\ [SeriesNext]_seriesVars =>
        [primary.scope = primary'.scope =>
           \A d \in SeriesDay : primary'.days[d].stamp >= primary.days[d].stamp]_primary
  BY SeriesKept DEF SeriesStep
<1>4. ReplicaInit => ReplicaInv
  BY ReplicaStart
<1>5. ReplicaInv /\ [ReplicaNext]_replicaVars => ReplicaInv'
  BY ReplicaKept
<1>6. SeriesInv => SeriesIsOwn
  BY DEF SeriesInv, SeriesIsOwn, OwnDays
<1>7. ReplicaInv => PublishedUntorn
  BY DEF ReplicaInv, PublishedUntorn, Untorn
<1> QED BY <1>1, <1>2, <1>3, <1>4, <1>5, <1>6, <1>7, PTL
        DEF SeriesSpec, ReplicaSpec, FilesUntorn, DayNeverReverts

-----------------------------------------------------------------------------
(* The test gate.  While nobody edits the tree under a run, every shard saw  *)
(* each of its files as the run's first manifest has it.                     *)

SawAsBefore(shard, before) ==
  /\ DOMAIN shard.saw = shard.files
  /\ \A f \in shard.files : shard.saw[f] = before[f]
\* What a run has seen so far, unless it was disturbed.
SeenAs(run, shards, before) ==
  /\ \E S : shards \in Seq(S)
  /\ run # 0
  /\ \A i \in DOMAIN shards : DOMAIN shards[i].saw = shards[i].files
  /\ run \notin disturbed => \A i \in DOMAIN shards : SawAsBefore(shards[i], before)
RunSound ==
  runner # NoRunner =>
    /\ runner = [run |-> runner.run, commit |-> runner.commit, clean |-> runner.clean,
                 before |-> runner.before, plan |-> runner.plan, shards |-> runner.shards]
    /\ SeenAs(runner.run, runner.shards, runner.before)
    /\ runner.run \notin disturbed => tree = runner.before
ReceiptSound(r) == r.run # 0 => SeenAs(r.run, r.shards, r.before)
\* What the second look relies on of the first.
AuditSound ==
  val.pc = "second" =>
    /\ val.receipt.run # 0 /\ ReceiptSound(val.receipt)
    /\ val.clean => val.receipt.before = val.receipt.after /\ val.receipt.totals = Totals(val.receipt.shards)
\* running.json, on disk and as the reconciler read it.
IsSidecar(s) == s = [run |-> s.run, state |-> s.state, before |-> s.before]
SidecarSound ==
  /\ sidecar = NoSidecar \/ IsSidecar(sidecar)
  /\ rec.pc \in {"gateReceipt", "probe", "rewrite"} => IsSidecar(rec.sidecar)
GateInv ==
  /\ gateRuns \in Nat
  /\ RunSound /\ ReceiptSound(gateReceipt) /\ AuditSound /\ SidecarSound /\ AcceptedMeansGreen

LEMMA GateStart == GateInit => GateInv
<1> SUFFICES ASSUME GateInit PROVE GateInv
  OBVIOUS
<1> QED BY DEF GateInit, GateInv, RunSound, ReceiptSound, AuditSound, SidecarSound, IsSidecar,
             AcceptedMeansGreen, NoRunner, NoSidecar, Waiting

\* An edit disturbs the run in progress and takes back what was accepted.
LEMMA EditKeeps ==
  ASSUME GateInv, NEW f \in TestFile, NEW c \in Content, EditsTree(f, c) PROVE GateInv'
<1>1. accepted' = 0
  BY DEF EditsTree
<1>2. disturbed \subseteq disturbed' /\ (runner # NoRunner => runner.run \in disturbed')
  BY DEF GateInv, EditsTree, RunSound, SeenAs
<1>3. RunSound'
  BY <1>2 DEF GateInv, EditsTree, RunSound, SeenAs
<1>4. \A r : ReceiptSound(r) => ReceiptSound(r)'
  BY <1>2 DEF ReceiptSound, SeenAs
<1>5. ReceiptSound(gateReceipt)' /\ AuditSound'
  BY <1>4 DEF GateInv, EditsTree, AuditSound, ReceiptSound, SeenAs
<1> QED BY <1>1, <1>3, <1>5 DEF GateInv, EditsTree, SidecarSound, IsSidecar, AcceptedMeansGreen

LEMMA StartKeeps == ASSUME GateInv, StartsRun PROVE GateInv'
<1>1. runner' = [run |-> gateRuns + 1, commit |-> commit.id, clean |-> tree = commit.tree,
                 before |-> tree, plan |-> ShardTestFiles(tree), shards |-> << >>]
  BY DEF StartsRun, InputManifest
<1>2. gateRuns + 1 # 0 /\ gateRuns' \in Nat
  BY DEF GateInv, StartsRun
<1>3. SeenAs(runner.run, runner.shards, runner.before)'
  <2>1. << >> \in Seq({})
    OBVIOUS
  <2> QED BY <1>1, <1>2, <2>1 DEF SeenAs
<1>4. RunSound'
  BY <1>1, <1>3 DEF RunSound, StartsRun
<1>5. SidecarSound'
  BY DEF GateInv, StartsRun, SidecarSound, IsSidecar
<1> QED BY <1>2, <1>4, <1>5 DEF GateInv, StartsRun, ReceiptSound, SeenAs, AuditSound, AcceptedMeansGreen

LEMMA ShardKeeps == ASSUME GateInv, NEW stopped \in BOOLEAN, RunsShard(stopped) PROVE GateInv'
<1> DEFINE n == Len(runner.shards) + 1
           shard == [files |-> runner.plan[n], stopped |-> stopped, saw |-> [f \in runner.plan[n] |-> tree[f]]]
<1>1. runner # NoRunner /\ runner' = [runner EXCEPT !.shards = Append(@, shard)]
  BY DEF RunsShard
<1>2. /\ runner'.run = runner.run /\ runner'.before = runner.before
      /\ runner'.shards = Append(runner.shards, shard)
      /\ runner' = [run |-> runner'.run, commit |-> runner'.commit, clean |-> runner'.clean,
                    before |-> runner'.before, plan |-> runner'.plan, shards |-> runner'.shards]
  BY <1>1 DEF GateInv, RunSound
<1>3. PICK S : runner.shards \in Seq(S)
  BY <1>1 DEF GateInv, RunSound, SeenAs
<1>4. runner.shards \in Seq(S \cup {shard}) /\ shard \in S \cup {shard}
  <2>1. PICK k \in Nat : runner.shards \in [1 .. k -> S]
    BY <1>3
  <2>2. runner.shards \in [1 .. k -> S \cup {shard}]
    BY <2>1
  <2> QED BY <2>2
<1>5. /\ runner'.shards \in Seq(S \cup {shard})
      /\ DOMAIN runner'.shards = DOMAIN runner.shards \cup {n}
      /\ runner'.shards[n] = shard
      /\ \A i \in DOMAIN runner.shards : runner'.shards[i] = runner.shards[i]
  BY <1>2, <1>4
<1>6. DOMAIN shard.saw = shard.files /\ (tree = runner.before => SawAsBefore(shard, runner.before))
  BY DEF SawAsBefore
<1>7. SeenAs(runner.run, runner.shards, runner.before) /\ (runner.run \notin disturbed => tree = runner.before)
  BY <1>1 DEF GateInv, RunSound
<1> HIDE DEF n, shard
<1>8. disturbed' = disturbed /\ tree' = tree
  BY DEF RunsShard
<1>9. SeenAs(runner.run, runner.shards, runner.before)'
  BY <1>2, <1>5, <1>6, <1>7, <1>8 DEF SeenAs, SawAsBefore
<1>10. RunSound'
  BY <1>2, <1>7, <1>8, <1>9 DEF RunSound
<1> QED BY <1>10 DEF GateInv, RunsShard, ReceiptSound, SeenAs, AuditSound, SidecarSound, IsSidecar, AcceptedMeansGreen

LEMMA ReceiptKeeps == ASSUME GateInv, WritesReceipt PROVE GateInv'
<1>1. /\ gateReceipt'.run = runner.run /\ gateReceipt'.shards = runner.shards
      /\ gateReceipt'.before = runner.before /\ runner # NoRunner
  BY DEF WritesReceipt
<1>2. ReceiptSound(gateReceipt)'
  BY <1>1 DEF GateInv, RunSound, ReceiptSound, SeenAs, WritesReceipt
<1> QED BY <1>2 DEF GateInv, WritesReceipt, RunSound, ReceiptSound, SeenAs, AuditSound, SidecarSound, IsSidecar,
              AcceptedMeansGreen

LEMMA AuditKeeps == ASSUME GateInv, Audits PROVE GateInv'
<1>1. /\ val' = [pc |-> "second", receipt |-> gateReceipt, clean |-> val'.clean] /\ gateReceipt.run # 0
      /\ val'.clean => AuditReceiptIntegrity(gateReceipt)
  BY DEF Audits
<1>2. AuditReceiptIntegrity(gateReceipt) =>
        gateReceipt.before = gateReceipt.after /\ gateReceipt.totals = Totals(gateReceipt.shards)
  BY DEF AuditReceiptIntegrity, InputStable, TotalsHold
<1>3. AuditSound'
  BY <1>1, <1>2 DEF GateInv, AuditSound, ReceiptSound, SeenAs, Audits
<1> QED BY <1>3 DEF GateInv, Audits, RunSound, ReceiptSound, SeenAs, SidecarSound, IsSidecar, AcceptedMeansGreen

\* Every file of the tree is in a shard that saw it as it is, and none of those was red.
LEMMA AcceptsGreen ==
  ASSUME GateInv, NEW r, ReceiptSound(r), r.run # 0, r.run \notin disturbed, r.before = r.after, r.totals = Totals(r.shards),
         StillCurrent(r), CoverageExact(r), ShardsGreen(r), r.totals.tests > 0
  PROVE  (\A f \in TestFile : tree[f] # "red") /\ (\E f \in TestFile : tree[f] = "green")
<1>1. \A i \in DOMAIN r.shards : \A f \in r.shards[i].files : f \in DOMAIN r.shards[i].saw /\ r.shards[i].saw[f] = tree[f]
  BY DEF ReceiptSound, SeenAs, SawAsBefore, StillCurrent, InputManifest
<1>2. \A f \in TestFile : tree[f] # "red"
  <2> SUFFICES ASSUME NEW f \in TestFile, tree[f] = "red" PROVE FALSE
    OBVIOUS
  <2>1. PICK i \in DOMAIN r.shards : f \in r.shards[i].files
    BY DEF CoverageExact, Discovered
  <2>2. f \in Red(r.shards[i])
    BY <1>1, <2>1 DEF Red
  <2> QED BY <2>2 DEF ShardsGreen
<1>3. \E f \in TestFile : tree[f] = "green"
  <2> DEFINE whole == {i \in DOMAIN r.shards : ~r.shards[i].stopped}
             ended == [i \in whole |-> Ran(r.shards[i])]
             counted == UNION {{i} \X ended[i] : i \in DOMAIN ended}
  <2>1. Cardinality(counted) > 0
    BY DEF Totals, Counted
  <2>2. Cardinality({}) = 0
    BY FS_EmptySet, Zenon
  <2>3. counted # {}
    <3> HIDE DEF counted
    <3> QED BY <2>1, <2>2
  <2>4. PICK i \in DOMAIN r.shards : \E f : f \in Ran(r.shards[i])
    BY <2>3
  <2>5. PICK f : f \in Ran(r.shards[i])
    BY <2>4
  <2>6. f \in DOMAIN r.shards[i].saw /\ r.shards[i].saw[f] \in {"green", "red"}
    BY <2>5 DEF Ran
  <2>7. f \in r.shards[i].files
    BY <2>6 DEF ReceiptSound, SeenAs
  <2>8. f \in TestFile
    BY <2>7 DEF CoverageExact, Discovered
  <2> QED BY <1>1, <1>2, <2>6, <2>7, <2>8
<1> QED BY <1>2, <1>3

LEMMA ValidateKeeps == ASSUME GateInv, Validates PROVE GateInv'
<1>1. val.pc = "second" /\ val' = Waiting /\ tree' = tree /\ disturbed' = disturbed
  BY DEF Validates
<1>2. accepted' # 0 =>
        LET r == val.receipt IN
        /\ accepted' = r.run /\ val.clean /\ StillCurrent(r) /\ CoverageExact(r) /\ ShardsGreen(r) /\ r.totals.tests > 0
  BY DEF Validates
<1>3. AcceptedMeansGreen'
  BY <1>1, <1>2, AcceptsGreen DEF AcceptedMeansGreen, GateInv, AuditSound
<1>4. AuditSound'
  BY <1>1 DEF AuditSound, Waiting
<1> QED BY <1>3, <1>4 DEF GateInv, Validates, RunSound, ReceiptSound, SeenAs, SidecarSound, IsSidecar

LEMMA ReconcileKeeps ==
  ASSUME GateInv,
         \/ \E rewrite \in BOOLEAN : ReadsSidecar(rewrite)
         \/ ReadsReceipt \/ Rewrites
         \/ \E live \in {"live", "dead", "unknown"} : Reports(live)
  PROVE  GateInv'
<1>1. UNCHANGED <<tree, commit, edits, disturbed, runner, gateRuns, gateReceipt, artifacts, val, accepted>>
  BY DEF ReadsSidecar, ReadsReceipt, Rewrites, Reports
<1>2. SidecarSound'
  <2>1. CASE \E rewrite \in BOOLEAN : ReadsSidecar(rewrite)
    BY <2>1 DEF ReadsSidecar, GateInv, SidecarSound, IsSidecar, NoSidecar
  <2>2. CASE ReadsReceipt
    BY <2>2 DEF ReadsReceipt, GateInv, SidecarSound, IsSidecar
  <2>3. CASE Rewrites
    BY <2>3 DEF Rewrites, GateInv, SidecarSound, IsSidecar, Waiting
  <2>4. ASSUME NEW live \in {"live", "dead", "unknown"}, Reports(live) PROVE SidecarSound'
    <3>1. \A r, s : IsSidecar(s) => IsSidecar(Derived(r, s))
      BY DEF IsSidecar, Derived
    <3>2. sidecar' = sidecar /\ (rec' = Waiting \/ rec'.sidecar \in {rec.sidecar, Derived(rec.receipt, rec.sidecar)})
      BY <2>4 DEF Reports
    <3> QED BY <2>4, <3>1, <3>2 DEF Reports, GateInv, SidecarSound, IsSidecar, Waiting
  <2> QED BY <2>1, <2>2, <2>3, <2>4
<1> QED BY <1>1, <1>2 DEF GateInv, RunSound, ReceiptSound, SeenAs, AuditSound, AcceptedMeansGreen

LEMMA GateKept == GateInv /\ [ReconcileNext \/ ValidateNext]_gateVars => GateInv'
<1> SUFFICES ASSUME GateInv, [ReconcileNext \/ ValidateNext]_gateVars PROVE GateInv'
  OBVIOUS
<1>1. CASE UNCHANGED gateVars
  BY <1>1 DEF gateVars, GateInv, RunSound, ReceiptSound, SeenAs, AuditSound, SidecarSound, IsSidecar, AcceptedMeansGreen
<1>2. CASE CommitsTree \/ (\E r \in artifacts : ArtifactsLost(r))
  BY <1>2 DEF CommitsTree, ArtifactsLost, GateInv, RunSound, ReceiptSound, SeenAs, AuditSound, SidecarSound,
             IsSidecar, AcceptedMeansGreen
<1>3. CASE ClosesSidecar \/ RunnerDies
  BY <1>3 DEF ClosesSidecar, RunnerDies, GateInv, RunSound, ReceiptSound, SeenAs, AuditSound, SidecarSound,
             IsSidecar, AcceptedMeansGreen
<1> QED BY <1>1, <1>2, <1>3, EditKeeps, StartKeeps, ShardKeeps, ReceiptKeeps, AuditKeeps, ValidateKeeps,
           ReconcileKeeps DEF ReconcileNext, ValidateNext, RunnerNext, TreeNext

\* Only Reports answers, and what it derives is of the receipt it read.
LEMMA SaysItsOwn ==
  ASSUME GateInv, [ReconcileNext \/ ValidateNext]_gateVars, said' # said, said'.state \in {"PASS", "FAIL"},
         rec.sidecar.state = "RUNNING"
  PROVE  rec.receipt.run = said'.run /\ rec.receipt.state = said'.state
<1>1. PICK live : Reports(live)
  BY DEF ReconcileNext, ValidateNext, RunnerNext, TreeNext, gateVars, StartsRun, WritesReceipt, ClosesSidecar,
         RunnerDies, RunsShard, EditsTree, CommitsTree, ArtifactsLost, ReadsSidecar, ReadsReceipt, Rewrites,
         Audits, Validates
<1> DEFINE s == rec.sidecar  answer == IF s.state # "RUNNING" \/ live # "dead" THEN s ELSE Derived(rec.receipt, s)
<1>2. said'.run = answer.run /\ said'.state = answer.state /\ IsSidecar(s)
  BY <1>1 DEF Reports, GateInv, SidecarSound
<1>3. s = [run |-> s.run, state |-> s.state, before |-> s.before]
  BY <1>2 DEF IsSidecar
<1>4. answer = Derived(rec.receipt, s)
  BY <1>2
<1> QED BY <1>2, <1>3, <1>4 DEF Derived, SameRun

-----------------------------------------------------------------------------
(* The clean room.  What a census read of a name either stands or has passed *)
(* for good: contents only grow, so nothing short of linking the name back   *)
(* brings it about again.                                                    *)

StoreEntry == {Gone} \cup {FileAt(i) : i \in Inode} \cup {LinkTo(t) : t \in Target}
RowStands(r) ==
  store[r.name].kind = r.kind /\ store[r.name].at = r.at /\ (r.kind = "file" => body[r.at] = r.hash)
RowPassed(r) ==
  \/ fate[r.name] = "returned"
  \/ store[r.name] = Gone /\ fate[r.name] = "removed"
  \/ store[r.name].kind = "file" /\ (r.kind = "link" \/ (r.kind = "file" /\ body[store[r.name].at] > r.hash))
IsRow(r) == r.name \in Name /\ r.kind \in {"file", "link"} /\ r.hash \in Nat
OneEach(list) == (\A r \in list : IsRow(r)) /\ \A q, r \in list : q.name = r.name => q = r
Census(list) == OneEach(list) /\ \A r \in list : r.hash <= writes /\ (RowStands(r) \/ RowPassed(r))
NamesIn(list) == {r.name : r \in list}

\* A row the second census has of the name differs from what the first has.
Parted(q, r) == fate[r.name] = "returned" \/ q.kind # r.kind \/ (q.kind = "file" /\ q.hash # r.hash)
\* The second census cannot come out as the first.
Differs(list) ==
  \/ NamesIn(list) # NamesIn(builder.rows) \cup builder.todo
  \/ \E r \in list : RowPassed(r) /\ \A q \in builder.rows : q.name = r.name => Parted(q, r)
Walking == builder.todo \subseteq Name /\ OneEach(builder.rows) /\ \A r \in builder.rows : r.name \notin builder.todo
BuilderSound ==
  CASE builder.pc = "census" -> Walking /\ Census(builder.rows)
         /\ builder = [pc |-> "census", todo |-> builder.todo, rows |-> builder.rows]
    [] builder.pc = "clone" ->
         /\ builder = [pc |-> "clone", todo |-> builder.todo, manifest |-> builder.manifest, first |-> builder.first]
         /\ \E list : Census(list) /\ builder.manifest = ManifestOf(list)
    [] builder.pc = "again" ->
         /\ builder = [pc |-> "again", todo |-> builder.todo, rows |-> builder.rows, manifest |-> builder.manifest]
         /\ Walking
         /\ \/ builder.manifest \in moments
            \/ \E list : Census(list) /\ builder.manifest = ManifestOf(list) /\ Differs(list)
    [] OTHER -> builder = NoBuild
RoomTypeOK ==
  /\ store \in [Name -> StoreEntry] /\ body \in [Inode -> Nat] /\ writes \in Nat /\ \A i \in Inode : body[i] <= writes
  /\ fate \in [Name -> {"kept", "removed", "returned"}]
RoomInv ==
  /\ RoomTypeOK /\ View(store, body) \in moments
  /\ BuilderSound /\ (builder # NoBuild => fixture # "FIXTURE_PASS")
  /\ FixtureIsAMoment

\* What a manifest says of a row.
Line(list, r) ==
  IF r.kind = "link" THEN <<r.name, "link", Resolved(AsNames(list), r.name), 0>>
  ELSE <<r.name, "file", r.hash, Group(AsNames(list), r.at)>>

LEMMA NamesOfRows ==
  ASSUME NEW list, OneEach(list)
  PROVE  /\ \A r \in list : AsNames(list)[r.name] = [kind |-> r.kind, at |-> r.at]
         /\ Named(AsNames(list)) = NamesIn(list)
         /\ \A r \in list : (CHOOSE q \in list : q.name = r.name) = r
         /\ \A n \in Name : n \notin NamesIn(list) => AsNames(list)[n] = Gone
<1>1. \A r \in list : (CHOOSE q \in list : q.name = r.name) = r
  <2> SUFFICES ASSUME NEW r \in list PROVE (CHOOSE q \in list : q.name = r.name) = r
    OBVIOUS
  <2>1. \E q \in list : q.name = r.name
    OBVIOUS
  <2> QED BY <2>1 DEF OneEach
<1>2. \A r \in list : AsNames(list)[r.name] = [kind |-> r.kind, at |-> r.at]
  <2> SUFFICES ASSUME NEW r \in list PROVE AsNames(list)[r.name] = [kind |-> r.kind, at |-> r.at]
    OBVIOUS
  <2>1. r.name \in Name /\ \E q \in list : q.name = r.name
    BY DEF OneEach, IsRow
  <2> QED BY <1>1, <2>1 DEF AsNames
<1>3. \A n \in Name : n \notin NamesIn(list) => AsNames(list)[n] = Gone
  BY DEF AsNames, NamesIn
<1>4. Named(AsNames(list)) = NamesIn(list)
  <2>1. ASSUME NEW n \in Name, n \notin NamesIn(list) PROVE AsNames(list)[n].kind = "none"
    BY <1>3, <2>1 DEF Gone
  <2>2. ASSUME NEW r \in list PROVE r.name \in Name /\ AsNames(list)[r.name].kind # "none"
    <3>1. AsNames(list)[r.name] = [kind |-> r.kind, at |-> r.at]
      BY <1>2
    <3>2. AsNames(list)[r.name].kind = r.kind
      BY <3>1
    <3> QED BY <3>2 DEF OneEach, IsRow
  <2> QED BY <2>1, <2>2 DEF Named, NamesIn
<1> QED BY <1>1, <1>2, <1>3, <1>4

LEMMA ManifestIsLines ==
  ASSUME NEW list, OneEach(list) PROVE ManifestOf(list) = {Line(list, r) : r \in list}
<1> DEFINE names == AsNames(list)
           Seen(n) == IF names[n].kind = "link" THEN <<n, "link", Resolved(names, n), 0>>
                      ELSE <<n, "file", AsBody(list)[names[n].at], Group(names, names[n].at)>>
           AsRead(v) == IF v[2] = "link" THEN v
                      ELSE <<v[1], v[2], (CHOOSE r \in list : r.name = v[1]).hash, v[4]>>
<1>1. ManifestOf(list) = {AsRead(v) : v \in {Seen(n) : n \in Named(names)}}
  BY DEF ManifestOf, View
<1>2. ASSUME NEW r \in list PROVE AsRead(Seen(r.name)) = Line(list, r)
  <2>1. names[r.name].kind = r.kind /\ names[r.name].at = r.at
    <3>1. names[r.name] = [kind |-> r.kind, at |-> r.at]
      BY NamesOfRows
    <3> QED BY <3>1
  <2>2. (CHOOSE q \in list : q.name = r.name) = r
    BY NamesOfRows
  <2> HIDE DEF names
  <2>3. CASE r.kind = "link"
    <3>1. Seen(r.name) = <<r.name, "link", Resolved(names, r.name), 0>>
      BY <2>1, <2>3
    <3> QED BY <2>3, <3>1 DEF Line, names
  <2>4. CASE r.kind # "link"
    <3>1. Seen(r.name) = <<r.name, "file", AsBody(list)[r.at], Group(names, r.at)>>
      BY <2>1, <2>4
    <3>2. AsRead(Seen(r.name)) = <<r.name, "file", r.hash, Group(names, r.at)>>
      BY <2>2, <3>1
    <3> QED BY <2>4, <3>2 DEF Line, names
  <2> QED BY <2>3, <2>4
<1>3. Named(names) = {r.name : r \in list}
  BY NamesOfRows DEF NamesIn
<1> HIDE DEF names, Seen, AsRead
<1> QED BY <1>1, <1>2, <1>3

\* Rows that all stand, of every name there is, are the view of the moment.
LEMMA StandingIsView ==
  ASSUME RoomTypeOK, NEW list, OneEach(list), \A r \in list : RowStands(r), NamesIn(list) = Named(store)
  PROVE  ManifestOf(list) = View(store, body)
<1>1. AsNames(list) = store
  <2>1. ASSUME NEW r \in list PROVE [kind |-> r.kind, at |-> r.at] = store[r.name]
    <3>1. r.name \in Name /\ store[r.name].kind = r.kind /\ store[r.name].at = r.at /\ r.kind \in {"file", "link"}
      BY <2>1 DEF RowStands, OneEach, IsRow
    <3>2. store[r.name] \in StoreEntry
      BY <3>1 DEF RoomTypeOK
    <3>3. \/ \E i \in Inode : store[r.name] = [kind |-> "file", at |-> i]
          \/ \E t \in Target : store[r.name] = [kind |-> "link", at |-> t]
      <4>1. store[r.name] # Gone
        BY <3>1 DEF Gone
      <4> QED BY <3>2, <4>1 DEF StoreEntry, FileAt, LinkTo
    <3>4. ASSUME NEW k, NEW t, store[r.name] = [kind |-> k, at |-> t]
          PROVE  [kind |-> r.kind, at |-> r.at] = store[r.name]
      BY <3>1, <3>4
    <3> QED BY <3>3, <3>4
  <2>2. ASSUME NEW n \in Name, n \notin NamesIn(list) PROVE store[n] = Gone
    <3>1. store[n].kind = "none" /\ store[n] \in StoreEntry
      BY <2>2 DEF Named, RoomTypeOK
    <3> QED BY <3>1 DEF StoreEntry, Gone, FileAt, LinkTo
  <2>3. ASSUME NEW n \in Name PROVE AsNames(list)[n] = store[n]
    <3>1. ASSUME NEW r \in list, n = r.name PROVE AsNames(list)[n] = store[n]
      <4>1. AsNames(list)[r.name] = [kind |-> r.kind, at |-> r.at]
        BY NamesOfRows
      <4> QED BY <2>1, <3>1, <4>1
    <3>2. CASE n \notin NamesIn(list)
      <4>1. AsNames(list)[n] = Gone
        BY <3>2, NamesOfRows
      <4> QED BY <2>2, <3>2, <4>1
    <3> QED BY <3>1, <3>2 DEF NamesIn
  <2>4. AsNames(list) = [n \in Name |-> AsNames(list)[n]]
    BY DEF AsNames
  <2> QED BY <2>3, <2>4 DEF RoomTypeOK
<1> DEFINE Seen(n) == IF store[n].kind = "link" THEN <<n, "link", Resolved(store, n), 0>>
                      ELSE <<n, "file", body[store[n].at], Group(store, store[n].at)>>
<1>2. View(store, body) = {Seen(n) : n \in {r.name : r \in list}}
  BY DEF View, NamesIn
<1>3. ASSUME NEW r \in list PROVE Line(list, r) = Seen(r.name)
  BY <1>1, <1>3 DEF Line, RowStands, OneEach, IsRow
<1> HIDE DEF Seen
<1> QED BY <1>2, <1>3, ManifestIsLines

\* Equal manifests are of the same names, each of one kind and content.
LEMMA EqualManifests ==
  ASSUME NEW list, NEW again, OneEach(list), OneEach(again), ManifestOf(list) = ManifestOf(again)
  PROVE  /\ NamesIn(list) = NamesIn(again)
         /\ \A r \in list, q \in again : q.name = r.name => q.kind = r.kind /\ (q.kind = "file" => q.hash = r.hash)
<1>1. ASSUME NEW a, NEW b, OneEach(a), OneEach(b), NEW r \in a, NEW q \in b, Line(a, r) = Line(b, q)
      PROVE  q.name = r.name /\ q.kind = r.kind /\ (q.kind = "file" => q.hash = r.hash)
  BY <1>1 DEF Line, OneEach, IsRow
<1>0. {Line(list, r) : r \in list} = {Line(again, q) : q \in again}
  BY ManifestIsLines
<1>2. \A r \in list : \E q \in again : Line(list, r) = Line(again, q)
  BY <1>0
<1>3. \A q \in again : \E r \in list : Line(list, r) = Line(again, q)
  BY <1>0
<1>4. NamesIn(list) = NamesIn(again)
  <2>1. \A r \in list : \E q \in again : q.name = r.name
    BY <1>1, <1>2
  <2>2. \A q \in again : \E r \in list : q.name = r.name
    BY <1>1, <1>3
  <2> QED BY <2>1, <2>2 DEF NamesIn
<1>5. ASSUME NEW r \in list, NEW q \in again, q.name = r.name
      PROVE  q.kind = r.kind /\ (q.kind = "file" => q.hash = r.hash)
  <2>1. PICK p \in again : Line(list, r) = Line(again, p)
    BY <1>2
  <2>2. p.name = r.name /\ p.kind = r.kind /\ (p.kind = "file" => p.hash = r.hash)
    BY <1>1, <2>1
  <2>3. p = q
    BY <1>5, <2>2 DEF OneEach
  <2> QED BY <2>2, <2>3
<1> QED BY <1>4, <1>5

LEMMA RoomStart == RoomInit => RoomInv
<1> SUFFICES ASSUME RoomInit PROVE RoomInv
  OBVIOUS
<1>1. store \in [Name -> StoreEntry]
  BY RoomAssumption DEF RoomAssumption, RoomInit, StoreEntry
<1> QED BY <1>1 DEF RoomInit, RoomInv, RoomTypeOK, BuilderSound, NoBuild, FixtureIsAMoment

-----------------------------------------------------------------------------
(* The other writers. *)
Writes ==
  \/ \E i \in Inode : WritesFile(i)
  \/ \E n \in Name, i \in Inode : CreatesFile(n, i) \/ HardLinks(n, i)
  \/ \E n \in Name : RemovesName(n)

\* Contents grow, and under a build a name is not linked back unseen.
RowFollows(r) ==
  /\ RowPassed(r) => RowPassed(r)'
  /\ RowStands(r) => RowStands(r)' \/ RowPassed(r)'
WriterMoves ==
  /\ RoomTypeOK' /\ writes' >= writes /\ View(store, body)' \in moments' /\ moments \subseteq moments'
  /\ \A n \in Name : fate[n] = "returned" => fate'[n] = "returned"
  /\ builder # NoBuild => \A r : IsRow(r) /\ r.hash <= writes => RowFollows(r)

LEMMA WriteMoves == ASSUME RoomInv, NEW i \in Inode, WritesFile(i) PROVE WriterMoves
<1>1. /\ store' = store /\ body' = [body EXCEPT ![i] = writes + 1] /\ writes' = writes + 1 /\ fate' = fate
      /\ moments' = moments \cup {View(store', body')}
  BY DEF WritesFile, SourceMoves, Written
<1>2. RoomTypeOK'
  BY <1>1 DEF RoomInv, RoomTypeOK
<1>3. \A n \in Name : store[n].kind = "file" => store[n].at \in Inode
  BY DEF RoomInv, RoomTypeOK, StoreEntry, Gone, FileAt, LinkTo
<1>4. \A j \in Inode : body'[j] >= body[j] /\ body[j] \in Nat /\ (body'[j] # body[j] => j = i /\ body'[j] = writes + 1)
  BY <1>1 DEF RoomInv, RoomTypeOK
<1>5. ASSUME NEW r, IsRow(r), r.hash <= writes PROVE RowFollows(r)
  <2>1. RowPassed(r) => RowPassed(r)'
    BY <1>1, <1>2, <1>3, <1>4, <1>5 DEF RowPassed, IsRow, RoomTypeOK
  <2>2. RowStands(r) => RowStands(r)' \/ RowPassed(r)'
    BY <1>1, <1>3, <1>4, <1>5 DEF RowStands, RowPassed, IsRow, RoomInv, RoomTypeOK
  <2> QED BY <2>1, <2>2 DEF RowFollows
<1> QED BY <1>1, <1>2, <1>5 DEF WriterMoves, RoomInv, RoomTypeOK

LEMMA CreateMoves == ASSUME RoomInv, NEW n \in Name, NEW i \in Inode, CreatesFile(n, i) PROVE WriterMoves
<1>1. /\ store[n] = Gone /\ NamesOf(store, i) = {}
      /\ store' = [store EXCEPT ![n] = FileAt(i)] /\ body' = [body EXCEPT ![i] = writes + 1]
      /\ writes' = writes + 1 /\ fate' = fate /\ moments' = moments \cup {View(store', body')}
  BY DEF CreatesFile, SourceMoves, Written
<1>2. RoomTypeOK'
  BY <1>1 DEF RoomInv, RoomTypeOK, StoreEntry
<1>3. \A m \in Name : store[m].kind = "file" => store[m].at \in Inode /\ store[m].at # i
  <2> SUFFICES ASSUME NEW m \in Name, store[m].kind = "file" PROVE store[m].at \in Inode /\ store[m].at # i
    OBVIOUS
  <2>1. PICK j \in Inode : store[m] = FileAt(j)
    BY DEF RoomInv, RoomTypeOK, StoreEntry, Gone, FileAt, LinkTo
  <2>2. j # i
    BY <1>1, <2>1 DEF NamesOf
  <2> QED BY <2>1, <2>2 DEF FileAt
<1>4. \A j \in Inode : body[j] \in Nat /\ (j # i => body'[j] = body[j])
  BY <1>1 DEF RoomInv, RoomTypeOK
<1>5. ASSUME NEW r, IsRow(r), r.hash <= writes PROVE RowFollows(r)
  <2>1. CASE r.name = n
    <3>1. store'[n].kind = "file" /\ store'[n].at = i /\ body'[i] = writes + 1
      BY <1>1 DEF RoomInv, RoomTypeOK, FileAt
    <3>2. RowPassed(r)'
      <4>1. body'[i] > r.hash
        BY <1>5, <3>1 DEF RoomInv, RoomTypeOK, IsRow
      <4> QED BY <1>5, <2>1, <3>1, <4>1 DEF RowPassed, IsRow
    <3> QED BY <3>2 DEF RowFollows
  <2>2. CASE r.name # n
    <3>1. store'[r.name] = store[r.name]
      BY <1>1, <1>5, <2>2 DEF RoomInv, RoomTypeOK, IsRow
    <3>2. store[r.name].kind = "file" => body'[store[r.name].at] = body[store[r.name].at]
      BY <1>3, <1>4, <1>5 DEF IsRow
    <3>3. RowPassed(r) => RowPassed(r)'
      BY <1>1, <3>1, <3>2 DEF RowPassed
    <3>4. RowStands(r) => RowStands(r)'
      BY <1>1, <3>1, <3>2 DEF RowStands
    <3> QED BY <3>3, <3>4 DEF RowFollows
  <2> QED BY <2>1, <2>2
<1> QED BY <1>1, <1>2, <1>5 DEF WriterMoves, RoomInv, RoomTypeOK

\* A name linked back had been there, or was not there when the build began.
LEMMA LinkMoves == ASSUME RoomInv, NEW n \in Name, NEW i \in Inode, HardLinks(n, i) PROVE WriterMoves
<1>1. /\ store[n] = Gone /\ store' = [store EXCEPT ![n] = FileAt(i)] /\ body' = body /\ writes' = writes + 1
      /\ fate' = Fares(n, "removed", "returned") /\ moments' = moments \cup {View(store', body')}
  BY DEF HardLinks, SourceMoves
<1>2. RoomTypeOK' /\ \A m \in Name : (fate[m] = "returned" => fate'[m] = "returned") /\ (m # n => fate'[m] = fate[m])
  BY <1>1 DEF RoomInv, RoomTypeOK, StoreEntry, Fares
<1>3. ASSUME NEW r, IsRow(r), builder # NoBuild PROVE RowFollows(r)
  <2>1. CASE r.name = n
    <3>1. ~RowStands(r)
      BY <1>1, <1>3, <2>1 DEF RowStands, IsRow, Gone
    <3>2. RowPassed(r) => fate[n] \in {"returned", "removed"}
      BY <1>1, <2>1 DEF RowPassed, Gone
    <3>3. fate[n] = "removed" => fate'[n] = "returned"
      BY <1>1, <1>3 DEF RoomInv, RoomTypeOK, Fares
    <3> QED BY <1>2, <2>1, <3>1, <3>2, <3>3 DEF RowFollows, RowPassed
  <2>2. CASE r.name # n
    <3>1. store'[r.name] = store[r.name] /\ fate'[r.name] = fate[r.name]
      BY <1>1, <1>2, <1>3, <2>2 DEF RoomInv, RoomTypeOK, IsRow
    <3> QED BY <1>1, <3>1 DEF RowFollows, RowPassed, RowStands
  <2> QED BY <2>1, <2>2
<1> QED BY <1>1, <1>2, <1>3 DEF WriterMoves, RoomInv, RoomTypeOK

LEMMA RemoveMoves == ASSUME RoomInv, NEW n \in Name, RemovesName(n) PROVE WriterMoves
<1>1. /\ store' = [store EXCEPT ![n] = Gone] /\ body' = body /\ writes' = writes + 1
      /\ fate' = Fares(n, "kept", "removed") /\ moments' = moments \cup {View(store', body')}
  BY DEF RemovesName, SourceMoves
<1>2. RoomTypeOK' /\ \A m \in Name : (fate[m] = "returned" => fate'[m] = "returned") /\ (m # n => fate'[m] = fate[m])
  BY <1>1 DEF RoomInv, RoomTypeOK, StoreEntry, Fares
<1>3. ASSUME NEW r, IsRow(r), builder # NoBuild PROVE RowFollows(r)
  <2>1. CASE r.name = n
    <3>1. store'[n] = Gone /\ fate'[n] \in {"removed", "returned"}
      BY <1>1, <1>3 DEF RoomInv, RoomTypeOK, Fares
    <3>2. RowPassed(r)'
      BY <2>1, <3>1 DEF RowPassed
    <3> QED BY <3>2 DEF RowFollows
  <2>2. CASE r.name # n
    <3>1. store'[r.name] = store[r.name] /\ fate'[r.name] = fate[r.name]
      BY <1>1, <1>2, <1>3, <2>2 DEF RoomInv, RoomTypeOK, IsRow
    <3> QED BY <1>1, <3>1 DEF RowFollows, RowPassed, RowStands
  <2> QED BY <2>1, <2>2
<1> QED BY <1>1, <1>2, <1>3 DEF WriterMoves, RoomInv, RoomTypeOK

\* A census goes on meaning what it did, whoever moves.
LEMMA CensusFollows ==
  ASSUME RoomInv, WriterMoves, builder # NoBuild, NEW list, Census(list)
  PROVE  Census(list)'
<1>1. \A r \in list : IsRow(r) /\ r.hash <= writes /\ (RowStands(r) \/ RowPassed(r))
  BY DEF Census, OneEach
<1>2. \A r \in list : r.hash <= writes' /\ (RowStands(r)' \/ RowPassed(r)')
  BY <1>1 DEF WriterMoves, RowFollows, RoomInv, RoomTypeOK, IsRow
<1> QED BY <1>2 DEF Census, OneEach, IsRow

LEMMA WritesKeep == ASSUME RoomInv, Writes PROVE RoomInv'
<1>1. WriterMoves
  BY WriteMoves, CreateMoves, LinkMoves, RemoveMoves DEF Writes
<1>2. builder' = builder /\ fixture' = fixture /\ dest' = dest /\ destBody' = destBody
  BY DEF Writes, WritesFile, CreatesFile, HardLinks, RemovesName, SourceMoves
<1>3. builder # NoBuild => \A list : Census(list) => Census(list)'
  BY <1>1, CensusFollows
<1>4. ASSUME builder # NoBuild, NEW list, Census(list), Differs(list) PROVE Differs(list)'
  <2>1. CASE NamesIn(list) # NamesIn(builder.rows) \cup builder.todo
    BY <1>2, <2>1 DEF Differs, NamesIn
  <2>2. CASE \E r \in list : RowPassed(r) /\ \A q \in builder.rows : q.name = r.name => Parted(q, r)
    <3>1. PICK r \in list : RowPassed(r) /\ \A q \in builder.rows : q.name = r.name => Parted(q, r)
      BY <2>2
    <3>2. IsRow(r) /\ r.hash <= writes
      BY <1>4 DEF Census, OneEach
    <3>3. RowPassed(r)'
      BY <1>1, <1>4, <3>1, <3>2 DEF WriterMoves, RowFollows
    <3>4. \A q : Parted(q, r) => Parted(q, r)'
      BY <1>1, <3>2 DEF WriterMoves, Parted, IsRow
    <3> QED BY <1>2, <3>1, <3>3, <3>4 DEF Differs
  <2> QED BY <1>4, <2>1, <2>2 DEF Differs
<1>5. BuilderSound'
  <2>1. Walking => Walking'
    BY <1>2 DEF Walking, OneEach, IsRow
  <2>2. CASE builder = NoBuild
    BY <1>2, <2>2 DEF BuilderSound, NoBuild
  <2>3. CASE builder # NoBuild /\ builder.pc = "census"
    BY <1>2, <1>3, <2>1, <2>3 DEF RoomInv, BuilderSound
  <2>4. CASE builder # NoBuild /\ builder.pc = "clone"
    <3>1. PICK list : Census(list) /\ builder.manifest = ManifestOf(list)
      BY <2>4 DEF RoomInv, BuilderSound
    <3>2. Census(list)' /\ builder'.manifest = ManifestOf(list)
      BY <1>2, <1>3, <2>4, <3>1
    <3> QED BY <1>2, <2>4, <3>2 DEF RoomInv, BuilderSound
  <2>5. CASE builder # NoBuild /\ builder.pc = "again"
    <3>1. CASE builder.manifest \in moments
      BY <1>1, <1>2, <2>1, <2>5, <3>1 DEF RoomInv, BuilderSound, WriterMoves
    <3>2. CASE builder.manifest \notin moments
      <4>1. PICK list : Census(list) /\ builder.manifest = ManifestOf(list) /\ Differs(list)
        BY <2>5, <3>2 DEF RoomInv, BuilderSound
      <4>2. Census(list)' /\ builder'.manifest = ManifestOf(list) /\ Differs(list)'
        BY <1>2, <1>3, <1>4, <2>5, <4>1
      <4> QED BY <1>2, <2>1, <2>5, <4>2 DEF RoomInv, BuilderSound
    <3> QED BY <3>1, <3>2
  <2> QED BY <2>2, <2>3, <2>4, <2>5 DEF RoomInv, BuilderSound
<1>6. FixtureIsAMoment'
  <2>1. View(dest, destBody)' = View(dest, destBody)
    BY <1>2
  <2> QED BY <1>1, <1>2, <2>1 DEF RoomInv, WriterMoves, FixtureIsAMoment
<1> QED BY <1>1, <1>2, <1>5, <1>6 DEF RoomInv, WriterMoves

-----------------------------------------------------------------------------
(* The builder. *)

\* What only the builder moves leaves every row where it was.
LEMMA RowsUntouched ==
  ASSUME UNCHANGED <<store, body, writes, fate>>
  PROVE  /\ RoomTypeOK' = RoomTypeOK
         /\ \A r : RowStands(r)' = RowStands(r) /\ RowPassed(r)' = RowPassed(r) /\ IsRow(r)' = IsRow(r)
         /\ \A list : Census(list)' = Census(list)
         /\ \A q, r : Parted(q, r)' = Parted(q, r)
  BY DEF RoomTypeOK, RowStands, RowPassed, IsRow, OneEach, Census, Parted

\* A build that ends otherwise than with a pass.
LEMMA RefusalKeeps == ASSUME RoomInv, NEW state, state # "FIXTURE_PASS", Refused(state) PROVE RoomInv'
  BY RowsUntouched DEF Refused, RoomInv, BuilderSound, NoBuild, FixtureIsAMoment

LEMMA DeathKeeps == ASSUME RoomInv, BuilderDies PROVE RoomInv'
  BY RowsUntouched DEF BuilderDies, RoomInv, BuilderSound, NoBuild, FixtureIsAMoment

LEMMA BeginKeeps == ASSUME RoomInv, NEW root \in DestRoot, BeginsBuild(root) PROVE RoomInv'
<1>1. /\ UNCHANGED <<store, body, writes, moments>> /\ fate' = [n \in Name |-> "kept"]
      /\ fixture' \in {"none", "REFUSED_SOURCE_TOPOLOGY"} /\ builder = NoBuild
      /\ builder' \in {builder, [pc |-> "census", todo |-> Named(store), rows |-> {}]}
  BY DEF BeginsBuild
<1>2. Named(store) \subseteq Name
  BY DEF Named
<1>3. BuilderSound'
  BY <1>1, <1>2 DEF BuilderSound, NoBuild, Walking, OneEach, Census
<1> QED BY <1>1, <1>3 DEF RoomInv, RoomTypeOK, FixtureIsAMoment

LEMMA CloneKeeps == ASSUME RoomInv, ClonesEntry PROVE RoomInv'
<1>1. builder.pc = "clone" /\ builder # NoBuild
  BY DEF ClonesEntry, NoBuild
<1>2. \/ Refused("REFUSED_COW")
      \/ /\ UNCHANGED <<store, body, writes, moments, fate, fixture>>
         /\ \E n : LET rest == [builder EXCEPT !.todo = @ \ {n}]
                   IN  builder' = rest \/ \E first : builder' = [rest EXCEPT !.first = first]
  BY DEF ClonesEntry, BuilderMoves
<1>3. CASE UNCHANGED <<store, body, writes, moments, fate, fixture>>
           /\ \E n : LET rest == [builder EXCEPT !.todo = @ \ {n}]
                     IN  builder' = rest \/ \E first : builder' = [rest EXCEPT !.first = first]
  <2>1. builder = [pc |-> "clone", todo |-> builder.todo, manifest |-> builder.manifest, first |-> builder.first]
    BY <1>1 DEF RoomInv, BuilderSound
  <2>2. builder' = [pc |-> "clone", todo |-> builder'.todo, manifest |-> builder'.manifest, first |-> builder'.first]
        /\ builder'.manifest = builder.manifest
    <3>1. PICK n : LET rest == [builder EXCEPT !.todo = @ \ {n}]
                   IN  builder' = rest \/ \E first : builder' = [rest EXCEPT !.first = first]
      BY <1>3
    <3>2. PICK todo : [builder EXCEPT !.todo = @ \ {n}] =
                        [pc |-> "clone", todo |-> todo, manifest |-> builder.manifest, first |-> builder.first]
      BY <2>1
    <3>3. \E first : builder' = [pc |-> "clone", todo |-> todo, manifest |-> builder.manifest, first |-> first]
      BY <3>1, <3>2
    <3> QED BY <3>3
  <2>3. BuilderSound'
    BY <1>1, <1>3, <2>2, RowsUntouched DEF RoomInv, BuilderSound
  <2> QED BY <1>1, <1>3, <2>3, RowsUntouched DEF RoomInv, FixtureIsAMoment
<1> QED BY <1>2, <1>3, RefusalKeeps

LEMMA EndCensusKeeps == ASSUME RoomInv, EndsCensus PROVE RoomInv'
<1>1. builder.pc = "census" /\ builder # NoBuild
  BY DEF EndsCensus, NoBuild
<1>2. CensusFault(builder.rows) # "FIXTURE_PASS"
  BY DEF CensusFault, LinkFault
<1>3. CASE builder' = [pc |-> "clone", todo |-> {r.name : r \in builder.rows},
                       manifest |-> ManifestOf(builder.rows), first |-> [i \in {} |-> 0]]
           /\ UNCHANGED <<store, body, writes, moments, fate, fixture>>
  <2>1. Census(builder.rows)
    BY <1>1 DEF RoomInv, BuilderSound
  <2>2. BuilderSound'
    BY <1>3, <2>1, RowsUntouched DEF BuilderSound
  <2> QED BY <1>1, <1>3, <2>2, RowsUntouched DEF RoomInv, FixtureIsAMoment
<1> QED BY <1>2, <1>3, RefusalKeeps DEF EndsCensus, BuilderMoves

\* The second census begins: either everything read still stands, and the
\* manifest is of this moment, or it cannot come out the same.
LEMMA AgainKeeps == ASSUME RoomInv, BeginsAgain PROVE RoomInv'
<1>1. /\ builder.pc = "clone" /\ builder # NoBuild
      /\ builder' = [pc |-> "again", todo |-> Named(store), rows |-> {}, manifest |-> builder.manifest]
      /\ UNCHANGED <<store, body, writes, moments, fate, fixture>>
  BY DEF BeginsAgain, BuilderMoves, NoBuild
<1>2. PICK list : Census(list) /\ builder.manifest = ManifestOf(list)
  BY <1>1 DEF RoomInv, BuilderSound
<1>3. Walking'
  BY <1>1 DEF Walking, OneEach, Named
<1>4. Census(list)'
  BY <1>1, <1>2, RowsUntouched
<1>5. builder'.manifest \in moments' \/ Differs(list)'
  <2>1. CASE NamesIn(list) = Named(store) /\ \A r \in list : RowStands(r)
    BY <1>1, <1>2, <2>1, StandingIsView DEF Census, RoomInv
  <2>2. CASE NamesIn(list) # Named(store)
    BY <1>1, <2>2 DEF Differs, NamesIn
  <2>3. CASE \E r \in list : ~RowStands(r)
    <3>1. PICK r \in list : RowPassed(r)
      BY <1>2, <2>3 DEF Census
    <3>2. RowPassed(r)'
      BY <1>1, <3>1, RowsUntouched
    <3> QED BY <1>1, <3>2 DEF Differs
  <2> QED BY <2>1, <2>2, <2>3
<1>6. BuilderSound'
  BY <1>1, <1>2, <1>3, <1>4, <1>5 DEF BuilderSound
<1> QED BY <1>1, <1>6, RowsUntouched DEF RoomInv, FixtureIsAMoment

\* An entry is read as it is; one that passed since the first census reads otherwise.
LEMMA WalkKeeps == ASSUME RoomInv, WalksEntry PROVE RoomInv'
<1>1. builder.pc \in {"census", "again"} /\ builder # NoBuild
  BY DEF WalksEntry, NoBuild
<1>2. PICK n \in builder.todo :
        \/ Refused("REFUSED_SOURCE_DRIFT")
        \/ /\ store[n] # Gone /\ builder' = [builder EXCEPT !.todo = @ \ {n}, !.rows = @ \cup {RowOf(n)}]
           /\ UNCHANGED <<store, body, writes, moments, fate, fixture, dest, destBody>>
  BY DEF WalksEntry, BuilderMoves
<1>3. CASE /\ store[n] # Gone /\ builder' = [builder EXCEPT !.todo = @ \ {n}, !.rows = @ \cup {RowOf(n)}]
           /\ UNCHANGED <<store, body, writes, moments, fate, fixture, dest, destBody>>
  <2>1. Walking /\ n \in Name
    BY <1>1 DEF RoomInv, BuilderSound, Walking
  <2>2. store[n] \in StoreEntry /\ body \in [Inode -> Nat] /\ \A i \in Inode : body[i] <= writes
    BY <2>1 DEF RoomInv, RoomTypeOK
  <2>3. PICK row : row = RowOf(n)
    OBVIOUS
  <2>4. row.name = n /\ row.kind = store[n].kind /\ row.at = store[n].at /\ row.kind \in {"file", "link"}
        /\ row.hash \in Nat /\ row.hash <= writes /\ (row.kind = "file" => row.hash = body[store[n].at])
    <3>1. CASE store[n].kind = "link"
      BY <2>3, <3>1 DEF RowOf, RoomInv, RoomTypeOK
    <3>2. CASE store[n].kind # "link"
      <4>1. PICK i \in Inode : store[n] = FileAt(i)
        BY <1>3, <2>2, <3>2 DEF StoreEntry, LinkTo
      <4>2. store[n].kind = "file" /\ store[n].at = i
        BY <4>1 DEF FileAt
      <4>3. row = [name |-> n, kind |-> "file", hash |-> body[i], at |-> i, nlink |-> NLink(i)]
        BY <2>3, <4>2 DEF RowOf
      <4> QED BY <2>2, <4>2, <4>3
    <3> QED BY <3>1, <3>2
  <2>5. IsRow(row) /\ RowStands(row)
    BY <2>1, <2>4 DEF IsRow, RowStands
  <2>6. /\ builder'.todo = builder.todo \ {n} /\ builder'.rows = builder.rows \cup {row} /\ builder'.pc = builder.pc
        /\ builder.pc = "census" => builder' = [pc |-> "census", todo |-> builder'.todo, rows |-> builder'.rows]
        /\ builder.pc = "again" => builder' = [pc |-> "again", todo |-> builder'.todo, rows |-> builder'.rows,
                                               manifest |-> builder.manifest]
    <3>1. CASE builder.pc = "census"
      <4>1. builder = [pc |-> "census", todo |-> builder.todo, rows |-> builder.rows]
        BY <3>1 DEF RoomInv, BuilderSound
      <4> QED BY <1>3, <2>3, <3>1, <4>1
    <3>2. CASE builder.pc = "again"
      <4>1. builder = [pc |-> "again", todo |-> builder.todo, rows |-> builder.rows, manifest |-> builder.manifest]
        BY <3>2 DEF RoomInv, BuilderSound
      <4> QED BY <1>3, <2>3, <3>2, <4>1
    <3> QED BY <1>1, <3>1, <3>2
  <2>7. Walking'
    BY <2>1, <2>4, <2>5, <2>6, RowsUntouched DEF Walking, OneEach, IsRow
  <2>8. ASSUME NEW list, Census(list), Differs(list) PROVE Differs(list)'
    <3>1. CASE NamesIn(list) # NamesIn(builder.rows) \cup builder.todo
      <4>1. NamesIn(builder'.rows) \cup builder'.todo = NamesIn(builder.rows) \cup builder.todo
        BY <2>4, <2>6 DEF NamesIn
      <4> QED BY <3>1, <4>1 DEF Differs, NamesIn
    <3>2. CASE \E r \in list : RowPassed(r) /\ \A q \in builder.rows : q.name = r.name => Parted(q, r)
      <4>1. PICK r \in list : RowPassed(r) /\ \A q \in builder.rows : q.name = r.name => Parted(q, r)
        BY <3>2
      <4>2. IsRow(r)
        BY <2>8 DEF Census, OneEach
      <4>3. r.name = n => Parted(row, r)
        BY <1>3, <2>2, <2>4, <4>1, <4>2 DEF RowPassed, Parted, IsRow
      <4>4. \A q \in builder'.rows : q.name = r.name => Parted(q, r)
        BY <2>4, <2>6, <4>1, <4>3
      <4> QED BY <1>3, <4>1, <4>4, RowsUntouched DEF Differs
    <3> QED BY <2>8, <3>1, <3>2 DEF Differs
  <2>9. BuilderSound'
    <3>1. CASE builder.pc = "census"
      <4>1. Census(builder.rows)
        BY <3>1 DEF RoomInv, BuilderSound
      <4>2. Census(builder'.rows)
        BY <2>1, <2>4, <2>5, <2>6, <4>1 DEF Census, OneEach, Walking
      <4>3. Census(builder.rows)'
        BY <1>3, <4>2 DEF Census, OneEach, IsRow, RowStands, RowPassed
      <4> QED BY <2>6, <2>7, <3>1, <4>3 DEF BuilderSound
    <3>2. CASE builder.pc = "again" /\ builder.manifest \in moments
      BY <1>3, <2>6, <2>7, <3>2 DEF BuilderSound
    <3>3. CASE builder.pc = "again" /\ builder.manifest \notin moments
      <4>1. PICK list : Census(list) /\ builder.manifest = ManifestOf(list) /\ Differs(list)
        BY <3>3 DEF RoomInv, BuilderSound
      <4>2. Census(list)' /\ Differs(list)'
        BY <1>3, <2>8, <4>1, RowsUntouched
      <4> QED BY <2>6, <2>7, <3>3, <4>1, <4>2 DEF BuilderSound
    <3> QED BY <1>1, <3>1, <3>2, <3>3
  <2> QED BY <1>1, <1>3, <2>9, RowsUntouched DEF RoomInv, FixtureIsAMoment
<1> QED BY <1>2, <1>3, RefusalKeeps

\* Two censuses that agree, and no name linked back: the manifest is of the
\* moment the second one began.
LEMMA PassIsMoment ==
  ASSUME RoomInv, builder.pc = "again", builder.todo = {}, \A n \in Name : fate[n] # "returned",
         SourceStable(builder.rows, builder.manifest)
  PROVE  builder.manifest \in moments
<1>1. SUFFICES ASSUME builder.manifest \notin moments PROVE FALSE
  OBVIOUS
<1>2. OneEach(builder.rows)
  BY DEF RoomInv, BuilderSound, Walking
<1>3. PICK list : Census(list) /\ builder.manifest = ManifestOf(list) /\ Differs(list)
  BY <1>1 DEF RoomInv, BuilderSound
<1>4. /\ NamesIn(list) = NamesIn(builder.rows)
      /\ \A r \in list, q \in builder.rows : q.name = r.name => q.kind = r.kind /\ (q.kind = "file" => q.hash = r.hash)
  BY <1>2, <1>3, EqualManifests DEF SourceStable, Census
<1>5. PICK r \in list : \A q \in builder.rows : q.name = r.name => Parted(q, r)
  BY <1>3, <1>4 DEF Differs
<1>6. PICK q \in builder.rows : q.name = r.name
  BY <1>4 DEF NamesIn
<1>7. fate[r.name] # "returned"
  BY <1>3 DEF Census, OneEach, IsRow
<1> QED BY <1>4, <1>5, <1>6, <1>7 DEF Parted

LEMMA EndKeeps == ASSUME RoomInv, EndsBuild PROVE RoomInv'
<1>1. builder.pc = "again" /\ builder.todo = {} /\ builder # NoBuild
  BY DEF EndsBuild, NoBuild
<1>2. /\ UNCHANGED <<store, body, writes, moments, fate, dest, destBody>> /\ builder' = NoBuild
      /\ fixture' = "FIXTURE_PASS" =>
           SourceStable(builder.rows, builder.manifest) /\ CloneAgrees(builder.manifest)
  <2>1. CensusFault(builder.rows) # "FIXTURE_PASS"
    BY DEF CensusFault, LinkFault
  <2> QED BY <2>1 DEF EndsBuild, Refused
<1>3. FixtureIsAMoment'
  <2> SUFFICES ASSUME fixture' = "FIXTURE_PASS", \A n \in Name : fate[n] # "returned"
               PROVE  View(dest, destBody)' \in moments'
    BY <1>2 DEF FixtureIsAMoment
  <2>1. builder.manifest \in moments
    BY <1>1, <1>2, PassIsMoment
  <2>2. View(dest, destBody)' = View(dest, destBody)
    BY <1>2
  <2> QED BY <1>2, <2>1, <2>2 DEF CloneAgrees
<1> QED BY <1>2, <1>3, RowsUntouched DEF RoomInv, BuilderSound, NoBuild

LEMMA RoomKept == RoomInv /\ [RoomNext]_roomVars => RoomInv'
<1> SUFFICES ASSUME RoomInv, [RoomNext]_roomVars PROVE RoomInv'
  OBVIOUS
<1>1. CASE UNCHANGED roomVars
  <2>1. UNCHANGED <<store, body, writes, moments, fate, fixture, dest, destBody, builder>>
    BY <1>1 DEF roomVars
  <2>2. BuilderSound' = BuilderSound
    BY <2>1 DEF BuilderSound, Walking, OneEach, IsRow, Census, RowStands, RowPassed, Differs, Parted, NamesIn
  <2> QED BY <2>1, <2>2, RowsUntouched DEF RoomInv, FixtureIsAMoment
<1> QED BY <1>1, WritesKeep, BeginKeeps, WalkKeeps, EndCensusKeeps, CloneKeeps, AgainKeeps, EndKeeps, DeathKeeps
        DEF RoomNext, Writes

-----------------------------------------------------------------------------
(* Evidence is of something that was: an accepted receipt of the tree as it  *)
(* is, a verdict of the run's own receipt, a fixture of one moment of its    *)
(* source: for any tests, shards, stores, edits and deaths (validate,        *)
(* reconcile, the clean room's second census).                               *)
THEOREM EvidenceIsRealHolds == GateSpec /\ RoomSpec => EvidenceIsReal
<1>1. GateInit => GateInv
  BY GateStart
<1>2. GateInv /\ [ReconcileNext \/ ValidateNext]_gateVars => GateInv'
  BY GateKept
<1>3. GateInv /\ [ReconcileNext \/ ValidateNext]_gateVars =>
        [said' # said /\ said'.state \in {"PASS", "FAIL"} /\ rec.sidecar.state = "RUNNING"
           => rec.receipt.run = said'.run /\ rec.receipt.state = said'.state]_gateVars
  BY SaysItsOwn
<1>4. RoomInit => RoomInv
  BY RoomStart
<1>5. RoomInv /\ [RoomNext]_roomVars => RoomInv'
  BY RoomKept
<1>6. GateInv /\ RoomInv => AcceptedMeansGreen /\ FixtureIsAMoment
  BY DEF GateInv, RoomInv
<1> QED BY <1>1, <1>2, <1>3, <1>4, <1>5, <1>6, PTL DEF GateSpec, RoomSpec, EvidenceIsReal, SaidIsOwn
=============================================================================
