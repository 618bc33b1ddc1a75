----------------------------- MODULE BoardRows ------------------------------
(***************************************************************************)
(* The rows of the board (board_rows in coord/coord_db.py): a scan in      *)
(* bounded chunks on a live connection, each chunk a statement of its own, *)
(* and the status derived for each row.                                    *)
(***************************************************************************)
EXTENDS Integers, Sequences, FiniteSets, SequencesExt

CONSTANTS
  Listed,      \* rows, numbers in the order of their ids
  Chunk,       \* rows a statement returns at most (500 in the source)
  Wanted,      \* status filters tried; {} for none
  Limits,      \* limits tried; 0 for none
  MaxMoment, MaxTouched  \* bounds: the clock, and rows written to during a scan

ASSUME ListedAssumption ==
  /\ Listed \subseteq Nat /\ IsFiniteSet(Listed)
  /\ Chunk \in Nat \ {0} /\ Limits \subseteq Nat

VARIABLES
  moment,
  tableRow,    \* row -> [updated, intent, artifact, passed, claim, until, run]
  listing      \* the scan: [pc, at, live, wanted, limit, after, got, touched]

rowVars == <<moment, tableRow, listing>>

\* Rows as other modules leave them: claims run and lapse, proofs come before
\* or after the word done, a run may outlive its claim.
Kinds ==
  LET plain == [intent |-> "queued", artifact |-> FALSE, passed |-> FALSE, claim |-> "none", until |-> 0, run |-> FALSE] IN
  {plain, [plain EXCEPT !.intent = "running", !.claim = "running", !.until = 2],
   [plain EXCEPT !.intent = "done", !.artifact = TRUE, !.run = TRUE]}
As(kind, u) == [updated |-> u, intent |-> kind.intent, artifact |-> kind.artifact, passed |-> kind.passed,
                claim |-> kind.claim, until |-> kind.until, run |-> kind.run]
NoScan == [pc |-> "idle", at |-> 0, live |-> {}, wanted |-> {}, limit |-> 0, after |-> << >>, got |-> << >>, touched |-> {}]

RowsInit ==
  /\ moment = 1 /\ listing = NoScan
  /\ tableRow \in [Listed -> {As(k, u) : k \in Kinds, u \in {0, 1}}]

-----------------------------------------------------------------------------
(* Statuses.                                                               *)

\* derive_work_status; live says that a process of a run of the row is alive.
DeriveStatus(r, live, at) ==
  CASE r.intent \in {"archived", "superseded", "closed"} -> r.intent
    [] live -> "running"
    [] r.intent = "failed" -> "failed"
    [] r.intent # "done" /\ r.claim \in {"running", "paused", "blocked"} ->
         IF r.until > at THEN r.claim ELSE "attention"
    [] r.intent = "blocked" -> "blocked"
    [] r.intent = "done" -> IF r.artifact /\ r.passed THEN "done" ELSE "attention"
    [] r.artifact -> "attention"
    [] OTHER -> IF r.intent = "running" THEN "queued" ELSE r.intent

\* derive_proof_state
ProofState(r, live, at) ==
  LET s == DeriveStatus(r, live, at) IN
  CASE s \in {"archived", "superseded", "closed", "running", "failed", "blocked"} -> s
    [] s = "done" -> "verified_done"
    [] r.artifact /\ r.intent # "done" -> "needs_adjudication"
    [] r.intent = "done" /\ ~r.artifact -> "missing_done_signal"
    [] r.artifact -> "needs_verification"
    [] r.intent \in {"queued", "planned"} -> "awaiting_artifact"
    [] OTHER -> s

-----------------------------------------------------------------------------
(* Writers, and the passing of time.                                       *)

\* The scan starts from any table, so that only writes during it are of interest.
Writes(w, kind) ==
  /\ listing.pc = "scan" /\ Cardinality(listing.touched \cup {w}) <= MaxTouched
  /\ As(kind, moment) # tableRow[w] /\ tableRow' = [tableRow EXCEPT ![w] = As(kind, moment)]
  /\ listing' = [listing EXCEPT !.touched = @ \cup {w}]
  /\ UNCHANGED moment
MomentPasses == moment < MaxMoment /\ moment' = moment + 1 /\ UNCHANGED <<tableRow, listing>>

-----------------------------------------------------------------------------
(* The scan.                                                               *)

\* board_rows: the clock and the processes are looked at first.
ScanBegins(wanted, limit) ==
  /\ listing.pc = "idle"
  /\ listing' = [NoScan EXCEPT !.pc = "scan", !.at = moment, !.wanted = wanted, !.limit = limit,
                               !.live = {w \in Listed : tableRow[w].run}]
  /\ UNCHANGED <<moment, tableRow>>

BoardOrder(v, w) == \/ tableRow[v].updated > tableRow[w].updated
                    \/ tableRow[v].updated = tableRow[w].updated /\ v < w
\* _board_scan_chunks: after the last row of the chunk before, by time and id.
Remaining(w) ==
  \/ listing.after = << >>
  \/ tableRow[w].updated < listing.after[1]
  \/ tableRow[w].updated = listing.after[1] /\ w > listing.after[2]

BatchSize == IF listing.wanted = {} /\ listing.limit # 0 THEN listing.limit ELSE Chunk
\* The first n of a set of rows, and its rows in their order.
FirstRows(rest, n) == {w \in rest : Cardinality({v \in rest : BoardOrder(v, w)}) < n}
InOrder(some) ==
  CHOOSE s \in [1 .. Cardinality(some) -> some] :
    \A i, j \in DOMAIN s : i < j => BoardOrder(s[i], s[j])
StatusNow(w) == DeriveStatus(tableRow[w], w \in listing.live, listing.at)
\* The rows a statement returns, those the filter leaves, and what they add to the answer.
Batch == FirstRows({w \in Listed : Remaining(w)}, BatchSize)
Hits(batch) == {w \in batch : listing.wanted = {} \/ StatusNow(w) \in listing.wanted}
Answers(found) == [i \in DOMAIN found |-> <<found[i], StatusNow(found[i]), tableRow[found[i]].updated>>]
LastOf(batch) == CHOOSE w \in batch : \A v \in batch : ~BoardOrder(w, v)
ScanChunk ==
  LET batch == Batch
      got == listing.got \o Answers(InOrder(Hits(batch)))
      full == listing.limit # 0 /\ Len(got) >= listing.limit IN
  /\ listing.pc = "scan"
  /\ listing' = [listing EXCEPT
       !.got = IF full THEN SubSeq(got, 1, listing.limit) ELSE got,
       !.pc = IF full \/ Cardinality(batch) < BatchSize THEN "done" ELSE "scan",
       !.after = IF batch = {} THEN @ ELSE <<tableRow[LastOf(batch)].updated, LastOf(batch)>>]
  /\ UNCHANGED <<moment, tableRow>>
ScanAnswered == listing.pc = "done" /\ listing' = NoScan /\ UNCHANGED <<moment, tableRow>>

RowsNext ==
  \/ \E w \in Listed, k \in Kinds : Writes(w, k)
  \/ MomentPasses \/ ScanChunk \/ ScanAnswered
  \/ \E wanted \in Wanted, limit \in Limits : ScanBegins(wanted, limit)

-----------------------------------------------------------------------------
(* Properties.                                                             *)

\* A scan answers no row twice, and leaves out no row that nobody wrote to
\* meanwhile: all of them when it has no limit, and with one those that come
\* before the last row it gives (_board_scan_chunks, board_rows).
ScanMissesNothingStill ==
  listing.pc = "done" =>
    /\ \A i, j \in DOMAIN listing.got : listing.got[i][1] = listing.got[j][1] => i = j
    /\ \A w \in Listed \ listing.touched :
         LET s == StatusNow(w) IN
         \/ listing.wanted # {} /\ s \notin listing.wanted
         \/ \E i \in DOMAIN listing.got : listing.got[i][1] = w /\ listing.got[i][2] = s
         \/ /\ listing.limit # 0 /\ Len(listing.got) = listing.limit
            /\ LET l == Last(listing.got) IN
               \/ l[3] > tableRow[w].updated
               \/ l[3] = tableRow[w].updated /\ l[1] < w
=============================================================================
