------------------------------ MODULE ScanStore -----------------------------
(***************************************************************************)
(* The persistent usage scan of usage/scan_store.py over the transcript    *)
(* parser of usage/local_history.py.                                       *)
(*                                                                         *)
(* Transcripts grow, are replayed into one another and are truncated while *)
(* scanners stat, parse and absorb them, one transaction per file.  A      *)
(* fingerprint is a request id or the (file, ordinal) of a Codex record; a *)
(* slot is a day, the model name and the six token columns are one number. *)
(***************************************************************************)
EXTENDS Integers, FiniteSets, FiniteSetsExt, Sequences, SequencesExt

CONSTANTS
  ClaudeFile, CodexFile,  \* transcripts of each provider
  ClaudeRequest, CodexRequest,  \* billable requests of each, of 1 .. MaxTokens tokens
  Scanner,
  Day,          \* days a record may carry; 0 is a record without timestamp
  MaxTokens, MaxEvents, MaxEdits   \* bounds

VARIABLES
  content,   \* events of each transcript
  edits,     \* its (size, mtime): the number of changes
  scanned,   \* the (size, mtime) stored for it, 0 when unknown
  seen,      \* per fingerprint: [owner, day, n] or None
  alias,     \* usage_identity_alias
  unplaced,  \* unplaced_claude_receipt
  anon,      \* file_unidentified_slot
  slots,     \* file_slot
  frozen,    \* days with legacy rows
  everFrozen,
  scan,      \* per scanner: [file, stat, len] between stat and transaction
  spent      \* tokens each request really used

scanVars == <<content, edits, scanned, seen, alias, unplaced, anon, slots, frozen, everFrozen,
              scan, spent>>

File == ClaudeFile \cup CodexFile
Request == ClaudeRequest \cup CodexRequest
\* A request's own id, or the thread and ordinal of a Codex record.
RequestId(r) == <<"id", r>>
RequestIds == {RequestId(r) : r \in Request}
Fingerprint == RequestIds \cup (CodexFile \X (1 .. MaxEvents))
Nameless == << >>
None == [owner |-> "none", day |-> 0, n |-> 0]
NotScanning == [file |-> "none", stat |-> 0, len |-> 0]
Larger(a, b) == IF a > b THEN a ELSE b
EmptyDays == [d \in Day |-> 0]

ScanInit ==
  /\ content = [f \in File |-> << >>] /\ edits = [f \in File |-> 1]
  /\ scanned = [f \in File |-> 0]
  /\ seen = [p \in Fingerprint |-> None] /\ alias = [p \in Fingerprint |-> p]
  /\ unplaced = [p \in RequestIds |-> 0]
  /\ anon = [f \in File |-> EmptyDays] /\ slots = [f \in File |-> EmptyDays]
  /\ frozen = {} /\ everFrozen = {}
  /\ scan = [s \in Scanner |-> NotScanning]
  /\ spent = [r \in Request |-> 0]

-----------------------------------------------------------------------------
(* iter_history_records.  An event is a usage line: "msg" of Claude, and   *)
(* the "receipt" and "count" lines of Codex.                               *)

Record(id, also, day, n) == [id |-> id, also |-> also, day |-> day, n |-> n]

\* A token_count whose running total did not move is a re-emission, unless a
\* modern receipt stands behind it.
Reemitted(total, previous, modern) == total = previous /\ ~modern

\* One line of a Codex rollout: a receipt waits for the count that mirrors it.
CodexLine(f, state, i) ==
  LET e == content[f][i]  modern == state.pending # << >>  legacy == <<f, i>> IN
  IF e.kind = "receipt"
  THEN [state EXCEPT !.out = IF modern THEN Append(@, Head(state.pending)) ELSE @,
                     !.pending = <<Record(e.id, {}, e.day, e.n)>>]
  ELSE IF Reemitted(e.total, state.total, modern) THEN [state EXCEPT !.pending = << >>]
  ELSE [out |-> Append(state.out, IF modern THEN [Head(state.pending) EXCEPT !.also = {legacy}]
                                  ELSE Record(legacy, {}, e.day, e.n)),
        pending |-> << >>, total |-> e.total]

\* The records of the first k lines.
CodexRecords(f, k) ==
  LET end == FoldLeft(LAMBDA state, i : CodexLine(f, state, i),
                      [out |-> << >>, pending |-> << >>, total |-> -1], [i \in 1 .. k |-> i])
  IN end.out \o end.pending

ClaudeRecords(f, k) ==
  [i \in 1 .. k |-> LET e == content[f][i] IN Record(e.id, {}, e.day, e.n)]

Records(f, k) == IF f \in CodexFile THEN CodexRecords(f, k) ELSE ClaudeRecords(f, k)

-----------------------------------------------------------------------------
(* _absorb, one transaction.  st is the state of the transaction.          *)

Owned(st, f, d) == {p \in Fingerprint : st.seen[p].owner = f /\ st.seen[p].day = d}
OwnedSum(st, f, d) == MapThenSumSet(LAMBDA p : st.seen[p].n, Owned(st, f, d))

\* _resolve_fingerprints: the identity held under any of the names; two of
\* them held is an error.
Names(st, rec) == {rec.id} \cup rec.also \cup {st.alias[p] : p \in {rec.id} \cup rec.also}
Held(st, rec) == {p \in Names(st, rec) : st.seen[p] # None}
Mapped(st, rec) == {st.alias[p] : p \in {q \in {rec.id} \cup rec.also : st.alias[q] # q}}
Ambiguous(st, rec) ==
  Cardinality(Held(st, rec)) > 1 \/ (Held(st, rec) = {} /\ Cardinality(Mapped(st, rec)) > 1)
Resolved(st, rec) ==
  CASE Held(st, rec) # {} -> CHOOSE p \in Held(st, rec) : TRUE
    [] Held(st, rec) = {} /\ Mapped(st, rec) # {} -> CHOOSE p \in Mapped(st, rec) : TRUE
    [] OTHER -> rec.id
Aliased(st, f, rec) ==
  IF f \in CodexFile
  THEN [p \in Fingerprint |-> IF p \in Names(st, rec) THEN Resolved(st, rec) ELSE st.alias[p]]
  ELSE st.alias

\* The representative is the maximum over every occurrence.
Raised(held, n) == Larger(held, n)

\* Mutant: the increase goes to the file that brought it.
ToRaiser(owner, f) == f
\* An increase belongs to the aggregate of the file that owns the identity.
CreditedTo(owner, f) == owner

\* _claim: the first claimant owns the identity, a later one may raise it.
Claim(st, f, rec, p) ==
  LET n == IF f \in ClaudeFile THEN Larger(rec.n, st.unplaced[p]) ELSE rec.n
      held == st.seen[p]
      kept == IF f \in ClaudeFile THEN [st.unplaced EXCEPT ![p] = 0] ELSE st.unplaced
  IN IF held = None
     THEN [st EXCEPT !.seen[p] = [owner |-> f, day |-> rec.day, n |-> n], !.unplaced = kept]
     ELSE LET now == Raised(held.n, n)  to == CreditedTo(held.owner, f) IN
          [st EXCEPT !.seen[p].n = now, !.unplaced = kept,
                     !.foreign[to][held.day] =
                       IF held.owner = f THEN @ ELSE @ + now - held.n]

Identified(st, f, rec) ==
  LET p == Resolved(st, rec)  st2 == [st EXCEPT !.alias = Aliased(st, f, rec)] IN
  CASE Ambiguous(st, rec) -> [st EXCEPT !.failed = TRUE]
    [] ~Ambiguous(st, rec) /\ rec.day \in frozen /\ st.seen[p] = None -> st2
    [] ~Ambiguous(st, rec) /\ rec.day \notin frozen /\ st.seen[p] = None
         /\ anon[f][rec.day] > 0 -> [st EXCEPT !.failed = TRUE]
    [] OTHER -> Claim(st2, f, rec, p)

\* A record without identity adds to its day unless the day is frozen; it may
\* not join a day of this file that so far held identified usage only.
Anonymous(st, f, rec) ==
  IF rec.day \in frozen THEN st
  ELSE IF anon[f][rec.day] = 0 /\ \E p \in Fingerprint : seen[p].owner = f /\ seen[p].day = rec.day
  THEN [st EXCEPT !.failed = TRUE]
  ELSE [st EXCEPT !.anonymous[rec.day] = @ + rec.n]

\* A record without timestamp counts where its identity is placed already, and
\* waits outside the totals otherwise.
Unplaced(st, f, rec) ==
  IF st.seen[rec.id] = None
  THEN [st EXCEPT !.unplaced[rec.id] = Larger(@, rec.n)]
  ELSE Identified(st, f, [rec EXCEPT !.day = st.seen[rec.id].day])

AbsorbRecord(st, f, rec) ==
  CASE st.failed -> st
    [] ~st.failed /\ rec.id = Nameless -> Anonymous(st, f, rec)
    [] ~st.failed /\ rec.id # Nameless /\ rec.day = 0 -> Unplaced(st, f, rec)
    [] OTHER -> Identified(st, f, rec)

Transaction(f, k) ==
  FoldLeft(LAMBDA st, rec : AbsorbRecord(st, f, rec),
           [seen |-> seen, alias |-> alias, unplaced |-> unplaced, anonymous |-> EmptyDays,
            foreign |-> [g \in File |-> EmptyDays], failed |-> FALSE],
           Records(f, k))

\* The (size, mtime) read before the file was opened.
StatBefore(s) == scan[s].stat

\* The parse may see lines written after the stat.  An error leaves the store
\* as it was and ends the pass.
Absorb(s) ==
  /\ scan[s] # NotScanning
  /\ LET f == scan[s].file IN
     \E k \in scan[s].len .. Len(content[f]) :
       LET st == Transaction(f, k)
           anonNow == [d \in Day |-> Larger(anon[f][d], st.anonymous[d])] IN
       IF st.failed THEN UNCHANGED <<seen, alias, unplaced, anon, slots, scanned>>
       ELSE /\ seen' = st.seen /\ alias' = st.alias /\ unplaced' = st.unplaced
            /\ anon' = [anon EXCEPT ![f] = anonNow]
            /\ slots' = [g \in File |-> [d \in Day |->
                 (IF g = f THEN anonNow[d] + OwnedSum(st, f, d) ELSE slots[g][d])
                 + st.foreign[g][d]]]
            /\ scanned' = [scanned EXCEPT ![f] = StatBefore(s)]
  /\ scan' = [scan EXCEPT ![s] = NotScanning]
  /\ UNCHANGED <<content, edits, frozen, everFrozen, spent>>

\* scan: the stat, and the skip of an unchanged file.
StatFile(s, f) ==
  /\ scan[s] = NotScanning /\ scanned[f] # edits[f]
  /\ scan' = [scan EXCEPT ![s] = [file |-> f, stat |-> edits[f], len |-> Len(content[f])]]
  /\ UNCHANGED <<content, edits, scanned, seen, alias, unplaced, anon, slots, frozen, everFrozen,
                 spent>>

ScannerDies(s) ==
  /\ scan[s] # NotScanning /\ scan' = [scan EXCEPT ![s] = NotScanning]
  /\ UNCHANGED <<content, edits, scanned, seen, alias, unplaced, anon, slots, frozen, everFrozen,
                 spent>>

\* rebuild drops what one provider's files hold; the pass that follows is an
\* ordinary one.
Rebuild(files) ==
  /\ \A s \in Scanner : scan[s] = NotScanning
  /\ \E f \in files : scanned[f] # 0
  /\ LET gone == {p \in Fingerprint : seen[p].owner \in files} IN
     /\ seen' = [p \in Fingerprint |-> IF p \in gone THEN None ELSE seen[p]]
     /\ alias' = [p \in Fingerprint |-> IF alias[p] \in gone THEN p ELSE alias[p]]
  /\ anon' = [f \in File |-> IF f \in files THEN EmptyDays ELSE anon[f]]
  /\ slots' = [f \in File |-> IF f \in files THEN EmptyDays ELSE slots[f]]
  /\ scanned' = [f \in File |-> IF f \in files THEN 0 ELSE scanned[f]]
  /\ UNCHANGED <<content, edits, unplaced, frozen, everFrozen, scan, spent>>

\* import_legacy and drop_legacy.
ImportLegacy(d) ==
  /\ d \notin frozen /\ frozen' = frozen \cup {d} /\ everFrozen' = everFrozen \cup {d}
  /\ UNCHANGED <<content, edits, scanned, seen, alias, unplaced, anon, slots, scan, spent>>
DropLegacy(d) ==
  /\ d \in frozen /\ frozen' = frozen \ {d}
  /\ UNCHANGED <<content, edits, scanned, seen, alias, unplaced, anon, slots, everFrozen, scan,
                 spent>>

-----------------------------------------------------------------------------
(* The command-line tools that write transcripts.                          *)

Written(f, events) ==
  /\ Len(content[f]) + Len(events) <= MaxEvents /\ edits[f] < MaxEdits
  /\ content' = [content EXCEPT ![f] = @ \o events]
  /\ edits' = [edits EXCEPT ![f] = @ + 1]
  /\ UNCHANGED <<scanned, seen, alias, unplaced, anon, slots, frozen, everFrozen, scan>>

\* A line of a response: one per content block, with the usage so far; or the
\* replay of a line by a resumed session; or a line without id.
ClaudeWrites(f, id, d, n) ==
  /\ Written(f, <<[kind |-> "msg", id |-> id, day |-> d, n |-> n]>>)
  /\ spent' = IF id = Nameless THEN spent ELSE [spent EXCEPT ![id[2]] = Larger(@, n)]

LastTotal(f) ==
  LET counts == {i \in 1 .. Len(content[f]) : content[f][i].kind = "count"} IN
  IF counts = {} THEN 0 ELSE content[f][CHOOSE i \in counts : \A j \in counts : j <= i].total

\* A Codex request ends: its receipt, written now and mirrored later, or both
\* lines at once, the mirror with a total that may have stood still; or, of an
\* older release, the count alone.
Receipt(r, d, n) == [kind |-> "receipt", id |-> RequestId(r), day |-> d, n |-> n]
Count(f, d, n, moved) ==
  [kind |-> "count", id |-> Nameless, day |-> d, n |-> n, total |-> LastTotal(f) + moved]
CodexWrites(f, r, d, n) ==
  /\ spent[r] = 0 /\ spent' = [spent EXCEPT ![r] = n]
  /\ \/ Written(f, <<Receipt(r, d, n)>>)
     \/ \E moved \in {0, n} : Written(f, <<Receipt(r, d, n), Count(f, d, n, moved)>>)
     \/ Written(f, <<Count(f, d, n, n)>>)

\* The mirror of the receipt that ends the file, or a re-emitted count.
CodexMirrors(f) ==
  /\ content[f] # << >>
  /\ LET e == Last(content[f]) IN
     IF e.kind = "receipt" THEN Written(f, <<Count(f, e.day, e.n, e.n)>>)
     ELSE Written(f, <<[e EXCEPT !.id = Nameless]>>)
  /\ UNCHANGED spent

\* A Codex rollout, whose ordinals are identities, is not rewritten.
Truncate(f) ==
  /\ content[f] # << >> /\ edits[f] < MaxEdits
  /\ content' = [content EXCEPT ![f] = << >>] /\ edits' = [edits EXCEPT ![f] = @ + 1]
  /\ UNCHANGED <<scanned, seen, alias, unplaced, anon, slots, frozen, everFrozen, scan, spent>>

\* The scanners and the operator over one provider's transcripts, and the
\* tools that write them.
ScanSteps(files) ==
  \/ \E s \in Scanner, f \in files : StatFile(s, f)
  \/ \E s \in Scanner : Absorb(s) \/ ScannerDies(s)
  \/ Rebuild(files)

LegacySteps == \E d \in Day : ImportLegacy(d) \/ DropLegacy(d)

ClaudeSteps ==
  \/ \E f \in ClaudeFile, r \in ClaudeRequest, d \in Day \cup {0}, n \in 1 .. MaxTokens :
       ClaudeWrites(f, RequestId(r), d, n)
  \/ \E f \in ClaudeFile, d \in Day : ClaudeWrites(f, Nameless, d, 1)
  \/ \E f \in ClaudeFile : Truncate(f)

CodexSteps ==
  \/ \E f \in CodexFile, r \in CodexRequest, d \in Day, n \in 1 .. MaxTokens : CodexWrites(f, r, d, n)
  \/ \E f \in CodexFile : CodexMirrors(f)

ScanNext ==
  ScanSteps(ClaudeFile) \/ ScanSteps(CodexFile) \/ LegacySteps \/ ClaudeSteps \/ CodexSteps

ScanSpec == ScanInit /\ [][ScanNext]_scanVars

-----------------------------------------------------------------------------
(* Properties.                                                             *)

\* A file's aggregate is the sum of the receipts it owns and its anonymous
\* usage, although other files raise receipts it owns, scanners overlap, and
\* transcripts shrink (_absorb, _claim).
AggregatesAreReceipts ==
  \A f \in File, d \in Day :
    slots[f][d] = anon[f][d]
                + MapThenSumSet(LAMBDA p : seen[p].n,
                                {p \in Fingerprint : seen[p].owner = f /\ seen[p].day = d})

\* No request is charged beyond what it used: replays, partial lines, mirrors
\* and re-emitted counts of one request are one receipt
\* (iter_history_records, _resolve_fingerprints, _claim).
NothingChargedTwice ==
  MapThenSumSet(LAMBDA p : seen[p].n, Fingerprint) <= MapThenSumSet(LAMBDA r : spent[r], Request)

\* A transcript the next pass would skip has been counted: every placed record
\* in it stands in the store at its full size, unless its day was frozen at
\* some time (scan: the stat precedes the parse).
SkippedIsCounted ==
  \A f \in File : scanned[f] = edits[f] =>
    \A i \in DOMAIN Records(f, Len(content[f])) :
      LET rec == Records(f, Len(content[f]))[i] IN
      rec.id \in Fingerprint /\ rec.day \in Day \ everFrozen =>
        \E p \in Fingerprint : p \in {rec.id, alias[rec.id]} /\ seen[p].n >= rec.n

\* The store counts all usage and nothing twice: aggregates are their receipts,
\* receipts no more than was spent, and what a pass may skip is counted.
UsageCounted == AggregatesAreReceipts /\ NothingChargedTwice /\ SkippedIsCounted
=============================================================================
