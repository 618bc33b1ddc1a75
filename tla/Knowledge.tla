----------------------------- MODULE Knowledge ------------------------------
(***************************************************************************)
(* The knowledge plane: how notes are cut up, the full-text index over them, *)
(* the fact ledger and the published generations of accepted memory.       *)
(***************************************************************************)
EXTENDS Integers, Sequences, FiniteSets, SequencesExt

-----------------------------------------------------------------------------
(***************************************************************************)
(* The knowledge plane: how notes are cut up, the full-text index over them *)
(* and the fact ledger.                                                    *)
(***************************************************************************)

-----------------------------------------------------------------------------
(***************************************************************************)
(* How notes are cut up: the cards knowledge/kfts.py indexes a document by *)
(* (_section_cards, _cards_for_file) and the atoms                          *)
(* knowledge/accepted_memory_r4.py splits an accepted note into            *)
(* (atomize_markdown, _bounded_atom_spans).                                *)
(*                                                                         *)
(* A line is its heading level, 0 for text.  A byte is "nl" for a newline, *)
(* "hd" for the hash that opens a heading line, "cb" for a UTF-8           *)
(* continuation byte and "ch" for any other.                               *)
(***************************************************************************)

CONSTANTS
  MaxLines,    \* longest document
  MaxBytes,    \* longest accepted note
  AtomBytes    \* MAX_ATOM_BYTES

ASSUME DocumentsAssumption == AtomBytes \in Nat \ {0}

VARIABLES lines, bytes

docVars == <<lines, bytes>>

UpTo(S, n) == UNION {[1..k -> S] : k \in 0..n}

DocumentsInit == lines = << >> /\ bytes = << >>

\* Any document may be indexed.
IndexDocument(d) == lines = << >> /\ bytes = << >> /\ lines' = d /\ UNCHANGED bytes

\* Any note of UTF-8 text may be accepted.
Utf8(b) == \A i \in DOMAIN b : b[i] = "cb" => i > 1 /\ b[i - 1] \in {"ch", "cb"}
AcceptNote(b) == lines = << >> /\ bytes = << >> /\ Utf8(b) /\ bytes' = b /\ UNCHANGED lines

DocumentsNext ==
  \/ \E d \in UpTo(0..3, MaxLines) : IndexDocument(d)
  \/ \E b \in UpTo({"nl", "hd", "cb", "ch"}, MaxBytes) : AcceptNote(b)

-----------------------------------------------------------------------------
(* Cards.                                                                  *)

\* Headings of level 1 title the document and open no section.
Headings == {i \in DOMAIN lines : lines[i] >= 2}
FirstHeading == CHOOSE i \in Headings : \A j \in Headings : i <= j

\* A section runs to the next heading of its level or above.
SectionEnd(i) ==
  LET next == {j \in Headings : j > i /\ lines[j] <= lines[i]}
  IN IF next = {} THEN Len(lines) ELSE (CHOOSE j \in next : \A k \in next : j <= k) - 1

\* What stands before the first section is a card of its own.
Preamble ==
  IF Headings # {} /\ FirstHeading > 1 THEN {[first |-> 1, last |-> FirstHeading - 1]} ELSE {}

SectionCards == Preamble \cup {[first |-> i, last |-> SectionEnd(i)] : i \in Headings}

\* _cards_for_file: the document's own card has a body only without sections.
Cards ==
  IF SectionCards # {} THEN SectionCards
  ELSE IF lines = << >> THEN {} ELSE {[first |-> 1, last |-> Len(lines)]}

-----------------------------------------------------------------------------
(* Atoms, as byte ranges [from, to).                                       *)

\* Where an atom that is too long is cut: behind the last newline in reach,
\* else at the limit, moved back to the start of a character.
Boundary(cursor, end) ==
  LET limit == cursor + AtomBytes
      nl == {i \in cursor..limit : bytes[i] = "nl"}
      starts == {i \in cursor + 1..limit : bytes[i] # "cb"}
  IN IF nl # {} THEN (CHOOSE i \in nl : \A j \in nl : j <= i) + 1
     ELSE IF starts # {} THEN CHOOSE i \in starts : \A j \in starts : j <= i
     ELSE limit

\* _bounded_atom_spans.
Spans[cursor \in 1..MaxBytes + 1, end \in 1..MaxBytes + 1] ==
  IF end - cursor > AtomBytes /\ Boundary(cursor, end) > cursor
  THEN {[from |-> cursor, to |-> Boundary(cursor, end)]} \cup Spans[Boundary(cursor, end), end]
  ELSE IF cursor < end THEN {[from |-> cursor, to |-> end]} ELSE {}

\* Headings open atoms, and the first byte does.
Starts == {i \in DOMAIN bytes : i = 1 \/ (bytes[i] = "hd" /\ bytes[i - 1] = "nl")}
NextStart(i) ==
  LET later == {j \in Starts : j > i}
  IN IF later = {} THEN Len(bytes) + 1 ELSE CHOOSE j \in later : \A k \in later : j <= k
Atoms == UNION {Spans[i, NextStart(i)] : i \in Starts}

DocumentsSpec == DocumentsInit /\ [][DocumentsNext]_docVars

-----------------------------------------------------------------------------
\* No line of a note is lost to search, and two cards of a note are apart
\* or one lies inside the other: a document with sections is indexed by
\* their bodies only (_section_cards, _cards_for_file).
CardsCover ==
  /\ \A i \in DOMAIN lines : \E c \in Cards : i \in c.first..c.last
  /\ \A c, d \in Cards :
       \/ c.last < d.first \/ d.last < c.first
       \/ (c.first <= d.first /\ d.last <= c.last) \/ (d.first <= c.first /\ c.last <= d.last)
  /\ \A c, d \in Cards :
       c # d /\ c.first \in Headings /\ d.first \in Headings /\ d.first \in c.first..c.last
         => lines[c.first] < lines[d.first]

\* The atoms of an accepted note tile its bytes; none is longer than
\* MAX_ATOM_BYTES and a newline, and a character is cut only when it does
\* not fit an atom at all (atomize_markdown, _bounded_atom_spans).
AtomsTile ==
  /\ \A i \in DOMAIN bytes : \E a \in Atoms : a.from <= i /\ i < a.to
  /\ \A a, b \in Atoms : a # b => a.to <= b.from \/ b.to <= a.from
  /\ \A a \in Atoms : a.to - a.from <= AtomBytes + (IF bytes[a.to - 1] = "nl" THEN 1 ELSE 0)
  /\ \A a \in Atoms :
       a.from > 1 /\ bytes[a.from] = "cb" =>
         \A i \in 1..AtomBytes - 1 : a.from - i >= 1 => bytes[a.from - i] = "cb"

-----------------------------------------------------------------------------
(***************************************************************************)
(* The full-text index of knowledge/kfts.py: when it is rebuilt, when a    *)
(* read trusts the line ranges it kept, and what index_stats calls stale.  *)
(* The index shares its database file with the fact ledger                 *)
(* (facts.DEFAULT_INDEX_DB), so a fact written moves the file's time too.  *)
(***************************************************************************)

CONSTANTS
  File,       \* paths under the vault globs
  Revision,   \* texts a note may have
  MaxMtime    \* bound on the clock

VARIABLES
  note,      \* [text, mtime] per path; text NoText: no such file
  indexed,   \* text each path was indexed with
  dbTime,    \* modification time of the database file and its log; 0: none
  rebuild,   \* a rebuild under way: [on, todo, got]
  served,    \* the last section read: the text the ranges are of, the text read, basis
  noteClock

indexVars == <<note, indexed, dbTime, rebuild, served, noteClock>>

NoText == "no text"
Idle == [on |-> FALSE, todo |-> {}, got |-> [f \in File |-> NoText]]
Nothing == [ranges |-> NoText, text |-> NoText, basis |-> "none"]

IndexInit ==
  /\ note = [f \in File |-> [text |-> NoText, mtime |-> 0]]
  /\ indexed = [f \in File |-> NoText]
  /\ dbTime = 0 /\ rebuild = Idle /\ served = Nothing /\ noteClock = 1

Sources == {f \in File : note[f].text # NoText}
NewestSource == IF Sources = {} THEN 0
                ELSE CHOOSE t \in {note[f].mtime : f \in Sources} : \A f \in Sources : note[f].mtime <= t

EditNote(f, t) ==
  /\ t # note[f].text
  /\ note' = [note EXCEPT ![f] = [text |-> t, mtime |-> noteClock]]
  /\ UNCHANGED <<indexed, dbTime, rebuild, served, noteClock>>

\* A file moved over another path keeps its modification time.
MoveNote(f, g) ==
  /\ f # g /\ f \in Sources
  /\ note' = [note EXCEPT ![g] = note[f], ![f] = [text |-> NoText, mtime |-> 0]]
  /\ UNCHANGED <<indexed, dbTime, rebuild, served, noteClock>>

\* facts.upsert_fact and supersede commit to the same file.
WriteFact ==
  /\ dbTime # noteClock /\ dbTime' = noteClock
  /\ UNCHANGED <<note, indexed, rebuild, served, noteClock>>

ClockAdvances ==
  /\ noteClock < MaxMtime /\ noteClock' = noteClock + 1
  /\ UNCHANGED <<note, indexed, dbTime, rebuild, served>>

-----------------------------------------------------------------------------
\* ensure_fresh_index: an empty index, another number of files, or a source
\* newer than the database.
NeedsRebuild ==
  \/ dbTime = 0
  \/ NewestSource > 0 /\ \A f \in File : indexed[f] = NoText
  \/ Cardinality({f \in File : indexed[f] # NoText}) # Cardinality(Sources)
  \/ NewestSource > dbTime

\* rebuild_index: one transaction over the files, read one after another.
BeginRebuild ==
  /\ ~rebuild.on /\ NeedsRebuild
  /\ rebuild' = [on |-> TRUE, todo |-> File, got |-> [f \in File |-> NoText]]
  /\ UNCHANGED <<note, indexed, dbTime, served, noteClock>>

IndexFile(f) ==
  /\ rebuild.on /\ f \in rebuild.todo
  /\ rebuild' = [rebuild EXCEPT !.todo = @ \ {f}, !.got[f] = note[f].text]
  /\ UNCHANGED <<note, indexed, dbTime, served, noteClock>>

CommitRebuild ==
  /\ rebuild.on /\ rebuild.todo = {}
  /\ indexed' = rebuild.got /\ dbTime' = noteClock
  /\ rebuild' = Idle
  /\ UNCHANGED <<note, served, noteClock>>

\* The process dies in the transaction.
RebuildDies ==
  /\ rebuild.on /\ rebuild' = Idle
  /\ UNCHANGED <<note, indexed, dbTime, served, noteClock>>

\* _index_fresh_for_source.
IndexFreshFor(f) == dbTime > 0 /\ note[f].mtime <= dbTime

\* read_note of a section: the line range the index keeps for it when the index
\* looks fresh, else that of the document parsed again; the lines themselves
\* are the file's.
ReadSection(f) ==
  /\ f \in Sources
  /\ served' = IF IndexFreshFor(f) /\ indexed[f] # NoText
               THEN [ranges |-> indexed[f], text |-> note[f].text, basis |-> "indexed_line_range"]
               ELSE [ranges |-> note[f].text, text |-> note[f].text, basis |-> "parsed"]
  /\ UNCHANGED <<note, indexed, dbTime, rebuild, noteClock>>

\* index_stats on a scan of the sources.
StaleReasons ==
  (IF dbTime = 0 THEN {"missing_index"} ELSE {})
  \cup (IF Sources # {} /\ \A f \in File : indexed[f] = NoText THEN {"empty_index"} ELSE {})
  \cup (IF Cardinality({f \in File : indexed[f] # NoText}) # Cardinality(Sources)
        THEN {"source_count_mismatch"} ELSE {})
  \cup (IF NewestSource > dbTime THEN {"source_newer_than_index"} ELSE {})

IndexNext ==
  \/ \E f \in File, t \in Revision \cup {NoText} : EditNote(f, t)
  \/ \E f, g \in File : MoveNote(f, g)
  \/ WriteFact \/ ClockAdvances
  \/ BeginRebuild \/ CommitRebuild \/ RebuildDies
  \/ \E f \in File : IndexFile(f) \/ ReadSection(f)

IndexSpec == IndexInit /\ [][IndexNext]_indexVars

-----------------------------------------------------------------------------
\* A rebuild during which no note changed settles the index: no search asks for
\* another one, and the line ranges it keeps are those of the notes, so that a
\* section read by its range is the section (ensure_fresh_index, rebuild_index).
RebuildSettles ==
  [][CommitRebuild /\ rebuild.got = [f \in File |-> note[f].text] =>
       ~NeedsRebuild' /\ StaleReasons' = {} /\ \A f \in Sources : IndexFreshFor(f)']_indexVars

-----------------------------------------------------------------------------
(***************************************************************************)
(* The fact ledger of knowledge/facts.py: rows that answer one statement,  *)
(* links between them, and the rule that picks the answer in force.        *)
(***************************************************************************)

CONSTANTS
  Fact,        \* ids of the rows that answer the statement
  MaxFactTime  \* bound on the clock of _now()

VARIABLES
  facts,     \* [status, supersedes, at, evidence] per id
  factClock  \* whole seconds, as updated_at keeps them

factVars == <<facts, factClock>>

NoFact == "no fact"
Missing == [status |-> "absent", supersedes |-> NoFact, at |-> 0,
            evidence |-> FALSE]

FactsInit == facts = [f \in Fact |-> Missing] /\ factClock = 1

Recorded(f) == f \in Fact /\ facts[f].status # "absent"

\* upsert_fact: the row is rewritten, its link too; only the back pointer
\* superseded_by, which decorates the shown value, would stay.
UpsertFact(f, status, old, evidence) ==
  /\ old = NoFact \/ Recorded(old)
  /\ facts' = [facts EXCEPT ![f] = [status |-> status, supersedes |-> old,
                                    at |-> factClock, evidence |-> evidence]]
  /\ UNCHANGED factClock

\* supersede, with its default old_status: both rows in one transaction.
Supersede(old, new) ==
  /\ Recorded(old) /\ Recorded(new) /\ old # new
  /\ facts' = [facts EXCEPT
       ![old] = [@ EXCEPT !.status = "corrected", !.at = factClock],
       ![new] = [@ EXCEPT !.supersedes = old, !.at = factClock]]
  /\ UNCHANGED factClock

FactTick == factClock < MaxFactTime /\ factClock' = factClock + 1 /\ UNCHANGED facts

-----------------------------------------------------------------------------
\* The rows reached from f by following supersedes, at most n links.
Replaced[f \in Fact \cup {NoFact}, n \in Nat] ==
  IF n = 0 \/ ~Recorded(f) \/ facts[f].supersedes = NoFact THEN {}
  ELSE {facts[f].supersedes} \cup Replaced[facts[f].supersedes, n - 1]

\* Mutant: only the direct link counts.
DirectlySupersedes(x, target) == facts[x].supersedes = target
\* _supersedes_transitively.
SupersedesTransitively(x, target) == target \in Replaced[x, Cardinality(Fact)]

\* resolve_fact_conflict: an explicit chain, then the later transaction
\* time, then the row with evidence, else nobody.
Winner(a, b) ==
  IF SupersedesTransitively(a, b) THEN a
  ELSE IF SupersedesTransitively(b, a) THEN b
  ELSE IF facts[a].at # facts[b].at THEN IF facts[a].at > facts[b].at THEN a ELSE b
  ELSE IF facts[a].evidence # facts[b].evidence THEN IF facts[a].evidence THEN a ELSE b
  ELSE NoFact

\* The rows current_value considers: the live ones, or failing those
\* whatever is neither superseded nor corrected.
Candidates ==
  LET live == {f \in Fact : facts[f].status = "live"}
      open == {f \in Fact : Recorded(f) /\ facts[f].status \notin {"superseded", "corrected"}}
  IN IF live # {} THEN live ELSE open

\* ORDER BY updated_at DESC; rows of one second come in any order.
Orders == {s \in SetToSeqs(Candidates) : \A i, j \in DOMAIN s : i < j => facts[s[i]].at >= facts[s[j]].at}

\* current_value: the fold over the candidates; NoFact stands for the
\* exception UnresolvedFactConflict.
CurrentValue(order) ==
  IF order = << >> THEN NoFact
  ELSE FoldLeft(LAMBDA w, f : IF w = NoFact THEN NoFact ELSE Winner(w, f), order[1], Tail(order))

FactsNext ==
  \/ \E f \in Fact, st \in {"live", "closed"}, old \in Fact \cup {NoFact}, e \in BOOLEAN :
       UpsertFact(f, st, old, e)
  \/ \E old, new \in Fact : Supersede(old, new)
  \/ FactTick

FactsSpec == FactsInit /\ [][FactsNext]_factVars

-----------------------------------------------------------------------------
Acyclic == \A f \in Fact : f \notin Replaced[f, Cardinality(Fact)]

\* The answer in force is never a row that another candidate replaced,
\* directly or through rows that are no candidates, however recently the
\* replaced row was written and in whatever order rows of one second come
\* back; links that form a cycle say nothing (current_value).
CurrentNotSuperseded ==
  Acyclic => \A order \in Orders :
    LET v == CurrentValue(order)
    IN v # NoFact => \A f \in Candidates : ~(v \in Replaced[f, Cardinality(Fact)])

-----------------------------------------------------------------------------
(***************************************************************************)
(* The accepted-memory store of knowledge/accepted_memory_r4.py: immutable *)
(* generations built from declared notes, and the CURRENT pointer swapped  *)
(* under a file lock.                                                      *)
(*                                                                         *)
(* A note version's identifier hashes its content and its predecessor's    *)
(* identifier, so a version is modelled by the sequence of contents that   *)
(* led to it.  A generation's identifier hashes all of it.                 *)
(***************************************************************************)

CONSTANTS
  Note,       \* logical paths
  Text,       \* declared contents of a note
  Publisher,  \* processes that publish or roll back
  MaxBuilt,   \* bound on the generations
  MaxSwaps    \* bound on the pointer swaps

VARIABLES
  built,     \* generations on disk: [heads, history]
  tampered,  \* generations whose bytes no longer match their manifest
  current,   \* generation CURRENT names
  swaps,     \* the values CURRENT had, oldest first
  receipts,  \* publication receipts: <<old, new>>
  pub        \* per publisher: [pc, want, expect, saw]

memVars == <<built, tampered, current, swaps, receipts, pub>>

NoGeneration == [heads |-> << >>, history |-> {}]
AtRest == [pc |-> "rest", want |-> NoGeneration, expect |-> NoGeneration, saw |-> NoGeneration]

MemoryInit ==
  /\ built = {} /\ tampered = {}
  /\ current = NoGeneration /\ swaps = <<NoGeneration>> /\ receipts = {}
  /\ pub = [p \in Publisher |-> AtRest]

-----------------------------------------------------------------------------
\* _effective_lifecycles: one superseder per note, none of itself, no cycle.
SupersessionOk(sup) ==
  /\ \A n \in DOMAIN sup : n \notin sup[n]
  /\ \A m, n \in DOMAIN sup : m # n => sup[m] \cap sup[n] = {}
  /\ ~\E loop \in SUBSET DOMAIN sup : loop # {} /\ \A n \in loop : sup[n] \cap loop # {}

Lifecycle(sup, n) == IF \E m \in DOMAIN sup : n \in sup[m] THEN "superseded" ELSE "current"

\* The version a declared note gets on top of the previous generation: the
\* head itself when nothing changed, else a successor of it.
Versioned(prev, n, semantic) ==
  LET before == IF n \in DOMAIN prev.heads THEN prev.heads[n] ELSE << >>
  IN IF before # << >> /\ before[Len(before)] = semantic THEN before ELSE Append(before, semantic)

\* build_generation: every note declared, history carried over.
Generation(prev, text, sup) ==
  LET heads == [n \in DOMAIN text |-> Versioned(prev, n, <<text[n], Lifecycle(sup, n)>>)]
  IN [heads |-> heads, history |-> prev.history \cup {<<n, heads[n]>> : n \in DOMAIN text}]

Build(prev, text, sup) ==
  /\ prev \in (built \ tampered) \cup {NoGeneration}
  /\ SupersessionOk(sup)
  /\ Generation(prev, text, sup) \notin built
  /\ Cardinality(built) < MaxBuilt
  /\ built' = built \cup {Generation(prev, text, sup)}
  /\ UNCHANGED <<tampered, current, swaps, receipts, pub>>

\* verify_generation fails from now on.
Tamper(g) ==
  /\ g \in built \ tampered
  /\ tampered' = tampered \cup {g}
  /\ UNCHANGED <<built, current, swaps, receipts, pub>>

-----------------------------------------------------------------------------
\* publish_current and rollback_current, from their verification to the lock.
VerifyTarget(p, g, expect) ==
  /\ pub[p].pc = "rest" /\ Len(swaps) <= MaxSwaps
  /\ g \in built \ tampered
  /\ pub' = [pub EXCEPT ![p] = [pc |-> "verified", want |-> g, expect |-> expect,
                                saw |-> NoGeneration]]
  /\ UNCHANGED <<built, tampered, current, swaps, receipts>>

Locked == {p \in Publisher : pub[p].pc \in {"locked", "swapped"}}

\* flock(LOCK_EX) on .pointer.lock.
LockFree(p) == Locked \subseteq {p}

\* _read_current under the lock: the named manifest must still match.
ReadCurrent(p) ==
  /\ pub[p].pc = "verified" /\ LockFree(p)
  /\ pub' = [pub EXCEPT ![p] =
       IF current \notin tampered /\ current = @.expect
       THEN [@ EXCEPT !.pc = "locked", !.saw = current] ELSE AtRest]
  /\ UNCHANGED <<built, tampered, current, swaps, receipts>>

\* os.replace of CURRENT.
SwapCurrent(p) ==
  /\ pub[p].pc = "locked"
  /\ current' = pub[p].want
  /\ swaps' = Append(swaps, pub[p].want)
  /\ pub' = [pub EXCEPT ![p].pc = "swapped"]
  /\ UNCHANGED <<built, tampered, receipts>>

\* The receipt, and the lock let go.
WriteReceipt(p) ==
  /\ pub[p].pc = "swapped"
  /\ receipts' = receipts \cup {<<pub[p].saw, pub[p].want>>}
  /\ pub' = [pub EXCEPT ![p] = AtRest]
  /\ UNCHANGED <<built, tampered, current, swaps>>

\* The process dies; the kernel lets its lock go.
PublisherDies(p) ==
  /\ pub[p].pc # "rest"
  /\ pub' = [pub EXCEPT ![p] = AtRest]
  /\ UNCHANGED <<built, tampered, current, swaps, receipts>>

MemoryNext ==
  \/ \E prev \in built \cup {NoGeneration}, text \in [Note -> Text], sup \in [Note -> SUBSET Note] :
       Build(prev, text, sup)
  \/ \E g \in built : Tamper(g)
  \/ \E p \in Publisher, g \in built, e \in built \cup {NoGeneration} : VerifyTarget(p, g, e)
  \/ \E p \in Publisher : ReadCurrent(p) \/ SwapCurrent(p) \/ WriteReceipt(p) \/ PublisherDies(p)

MemorySpec == MemoryInit /\ [][MemoryNext]_memVars

-----------------------------------------------------------------------------
\* Every publication receipt names two generations CURRENT really held one
\* after the other: two publishers that expected the same generation cannot
\* both succeed, and a death between the swap and the receipt loses a
\* receipt and never writes a wrong one (publish_current).
PublicationsChain ==
  \A r \in receipts : \E i \in 1..Len(swaps) - 1 : swaps[i] = r[1] /\ swaps[i + 1] = r[2]

\* What the knowledge plane hands out is whole and in force: cards and atoms
\* leave out nothing of a note, a calm rebuild settles the index, no answer is a
\* replaced fact, and receipts of publications chain.
KnowledgeStands ==
  [](CardsCover /\ AtomsTile /\ CurrentNotSuperseded /\ PublicationsChain) /\ RebuildSettles
=============================================================================
