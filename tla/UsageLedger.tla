---------------------------- MODULE UsageLedger -----------------------------
(***************************************************************************)
(* The usage ledger of usage/ledger.py: sources, observations, canonical   *)
(* decisions and billing items, each written with its link of a hash       *)
(* chain, and the anchors kept outside the database.                       *)
(*                                                                         *)
(* A hash is what it is computed from.  A decision names the decision it   *)
(* replaces by its place; the reads that find it happen before the         *)
(* transaction that writes.  The file may be replaced by an older copy.    *)
(***************************************************************************)
EXTENDS Integers, FiniteSets, Sequences, SequencesExt

CONSTANTS
  Source,
  Observation,  \* records [src, art, cells, eligible, complete]
  Item,         \* billing items: records [key, src]
  Caller,
  MaxCommits, MaxAnchors   \* bounds

\* An observation is of a list of cells.
ASSUME LedgerAssumption ==
  /\ \A o \in Observation : IsFiniteSet(o.cells)
  /\ MaxCommits \in Nat /\ MaxAnchors \in Nat

VARIABLES
  commits,   \* ledger_commit: the entities in the order they were committed
  rows,      \* the entity tables
  caller,    \* per caller: what it read for the decision it is about to write
  anchors    \* anchor files

ledgerVars == <<commits, rows, caller, anchors>>

Idle == [act |-> "none", obs |-> "none", prior |-> << >>]

LedgerInit ==
  /\ commits = << >> /\ rows = {} /\ anchors = {}
  /\ caller = [c \in Caller |-> Idle]

\* Entities, told apart by their kind.
SourceRow(s) == <<"source", s>>
ObservationRow(o) == <<"observation", o>>
BillingRow(b) == <<"billing", b>>
Decision(cell, act, obs, prior) == <<"decision", cell, act, obs, prior>>

\* The last decision about a cell: its place in the chain, 0 when there is none.
Places(cell) ==
  {i \in 1 .. Len(commits) : commits[i][1] = "decision" /\ commits[i][2] = cell}
Latest(cell) == IF Places(cell) = {} THEN 0 ELSE CHOOSE i \in Places(cell) : \A j \in Places(cell) : j <= i

\* A transaction adds rows that are not there yet, each with its commit.
Committed(entities) ==
  /\ Len(commits) + Len(entities) <= MaxCommits
  /\ commits' = commits \o entities
  /\ rows' = rows \cup ToSet(entities)

RegisterSource(s) ==
  /\ SourceRow(s) \notin rows /\ Committed(<<SourceRow(s)>>)
  /\ UNCHANGED <<caller, anchors>>

\* One content per source and artifact: a repetition is silent, another content refused.
Competing(o) ==
  {p \in Observation : ObservationRow(p) \in rows /\ p.src = o.src /\ p.art = o.art}
RecordObservation(o) ==
  /\ SourceRow(o.src) \in rows /\ Competing(o) = {}
  /\ Committed(<<ObservationRow(o)>>)
  /\ UNCHANGED <<caller, anchors>>

\* One item per provider item key.
RecordBilling(b) ==
  /\ SourceRow(b.src) \in rows
  /\ \A i \in Item : i.key = b.key => BillingRow(i) \notin rows
  /\ Committed(<<BillingRow(b)>>)
  /\ UNCHANGED <<caller, anchors>>

SelectRead(c, o, allowPartial) ==
  /\ caller[c] = Idle /\ ObservationRow(o) \in rows
  /\ o.eligible /\ (o.complete \/ allowPartial)
  /\ caller' = [caller EXCEPT ![c] =
       [act |-> "select", obs |-> o, prior |-> [cell \in o.cells |-> Latest(cell)]]]
  /\ UNCHANGED <<commits, rows, anchors>>

WithdrawRead(c, cell) ==
  /\ caller[c] = Idle /\ Latest(cell) # 0
  /\ caller' = [caller EXCEPT ![c] =
       [act |-> "withdraw", obs |-> "none", prior |-> [x \in {cell} |-> Latest(x)]]]
  /\ UNCHANGED <<commits, rows, anchors>>

\* The transaction: one decision per cell; the very same decision already
\* written is passed over by a selection and refused to a withdrawal.
Chosen(c) ==
  {Decision(cell, caller[c].act, caller[c].obs, caller[c].prior[cell]) :
     cell \in DOMAIN caller[c].prior}
Decide(c) ==
  /\ caller[c] # Idle
  /\ Committed(SetToSeq(Chosen(c) \ rows))
  /\ caller' = [caller EXCEPT ![c] = Idle]
  /\ UNCHANGED anchors

CallerDies(c) ==
  /\ caller[c] # Idle /\ caller' = [caller EXCEPT ![c] = Idle]
  /\ UNCHANGED <<commits, rows, anchors>>

-----------------------------------------------------------------------------
(* Anchors.                                                                *)

\* Mutant: a commit's hash leaves out the one before it.
LinkAlone(n) == <<commits[n]>>
\* The hash of commit n covers every commit up to n.
CommitHash(n) == SubSeq(commits, 1, n)

\* The roots of the entities committed up to n, sorted by id: the set of them.
EntityRoots(n) == ToSet(SubSeq(commits, 1, n))

\* verify_integrity: the tables hold exactly what was committed.
VerifyIntegrity == rows = ToSet(commits)

\* was is not in the file: it is what the anchor stands for.
WriteAnchor ==
  /\ commits # << >> /\ VerifyIntegrity /\ Cardinality(anchors) < MaxAnchors
  /\ LET n == Len(commits) IN
     anchors' = anchors \cup {[seq |-> n, hash |-> CommitHash(n), roots |-> EntityRoots(n),
                               was |-> commits]}
  /\ UNCHANGED <<commits, rows, caller>>

VerifyAnchor(a) ==
  /\ a.seq <= Len(commits)
  /\ CommitHash(a.seq) = a.hash /\ EntityRoots(a.seq) = a.roots
  /\ VerifyIntegrity

-----------------------------------------------------------------------------
(* The file system.                                                        *)

\* An older copy of the file is put in its place.
BackupRestored ==
  /\ \E n \in 0 .. Len(commits) - 1 :
       commits' = SubSeq(commits, 1, n) /\ rows' = ToSet(SubSeq(commits, 1, n))
  /\ caller' = [c \in Caller |-> Idle]
  /\ UNCHANGED anchors
RowLost ==
  /\ VerifyIntegrity /\ rows # {}
  /\ \E e \in rows : rows' = rows \ {e}
  /\ UNCHANGED <<commits, caller, anchors>>

LedgerNext ==
  \/ \E s \in Source : RegisterSource(s)
  \/ \E o \in Observation : RecordObservation(o)
  \/ \E b \in Item : RecordBilling(b)
  \/ \E c \in Caller, o \in Observation, p \in BOOLEAN : SelectRead(c, o, p)
  \/ \E c \in Caller, cell \in UNION {o.cells : o \in Observation} : WithdrawRead(c, cell)
  \/ \E c \in Caller : Decide(c) \/ CallerDies(c)
  \/ WriteAnchor \/ BackupRestored \/ RowLost

LedgerSpec == LedgerInit /\ [][LedgerNext]_ledgerVars

-----------------------------------------------------------------------------
(* Properties.                                                             *)

\* An anchor that verifies says that all it anchored is still in the ledger
\* and in the same order, although an older copy of the file was restored and
\* the ledger went on from there, or rows were lost (verify_anchor).
VerifiedMeansKept ==
  \A a \in anchors : VerifyAnchor(a) => IsPrefix(a.was, commits) /\ ToSet(a.was) \subseteq rows
=============================================================================
