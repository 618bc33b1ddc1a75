----------------------------- MODULE BoardServer ----------------------------
(***************************************************************************)
(* The board server (board/server.py) and the private copy of the database  *)
(* its documents are built from (board/snapshot.py).                       *)
(*                                                                         *)
(* SQLite is external: a commit appends frames to the WAL, the last one    *)
(* marked; a checkpoint moves pages into the database file; the WAL then   *)
(* starts anew or is removed.  A copier reads both files byte by byte      *)
(* without a lock and believes the copy when the stamps did not move.      *)
(***************************************************************************)
EXTENDS Integers, Sequences, FiniteSets

CONSTANTS
  Doc, JobDoc, \* documents in the order they are built, and those that read sidecars
  MaxAttempt,  \* copies tried before giving up (8 in the source)
  MaxCommit, MaxJobs  \* bounds: transactions, changes of the sidecars

\* The refresh thread and a metrics request.
Copier == {"loop", "scrape"}

VARIABLES
  main,        \* page -> version, in the database file
  wal,         \* frames [page, version, last]
  walThere,    \* whether there is a WAL file
  committed,   \* versions committed
  hint,        \* an operator action committed, its handler not yet done
  jobs,        \* version of the sidecar directory, read live
  copy,        \* per copier: [pc, attempt, walThere, moved, main, wal]; moved: a stamp
               \* is no longer the one taken before
  built,       \* documents of the refresh under way
  refresh,     \* [due, locked, degraded]
  documents,       \* the published documents
  scraped      \* how the last metrics request ended

boardVars == <<main, wal, walThere, committed, hint, jobs, copy, built, refresh, documents, scraped>>
sqliteVars == <<main, wal, walThere, committed, hint, jobs>>

PageOf == <<"p1", "p2">>
Page == {"p1", "p2"}
\* What SQLite reads: the newest committed frame of a page, else the database file.
Content(m, w) ==
  [p \in Page |->
    LET seen == {i \in DOMAIN w : w[i].page = p /\ \E e \in DOMAIN w : i <= e /\ w[e].last} IN
    IF seen = {} THEN m[p] ELSE w[CHOOSE i \in seen : \A j \in seen : j <= i].version]
Now == Content(main, wal)
Resting == [pc |-> "idle", attempt |-> 0, walThere |-> FALSE, moved |-> FALSE,
            main |-> << >>, wal |-> << >>]
DocOf(content, j) == [db |-> content, jobs |-> j]

BoardInit ==
  /\ main = [p \in Page |-> 0] /\ wal = << >> /\ walThere = TRUE
  /\ committed = 0 /\ hint = FALSE /\ jobs = 0
  /\ copy = [t \in Copier |-> Resting] /\ built = << >>
  /\ refresh = [due |-> FALSE, locked |-> FALSE, degraded |-> FALSE]
  /\ documents = [i \in DOMAIN Doc |-> DocOf(Now, 0)] /\ scraped = "none"

-----------------------------------------------------------------------------
(* The writers of the database and of the sidecars.                        *)

Quiet == wal = << >> \/ wal[Len(wal)].last
FileMoves == copy' = [t \in Copier |-> [copy[t] EXCEPT !.moved = copy[t].pc \in {"main", "wal", "compare"}]]
Elsewhere == UNCHANGED <<built, documents, scraped>>

\* A transaction writes both pages, one frame at a time.
FrameWritten(operator) ==
  LET last == ~Quiet IN
  /\ committed < MaxCommit
  /\ wal' = Append(wal, [page |-> IF last THEN "p2" ELSE "p1", version |-> committed + 1, last |-> last])
  /\ walThere' = TRUE /\ FileMoves /\ committed' = IF last THEN committed + 1 ELSE committed
  /\ hint' = (hint \/ (last /\ operator)) /\ (operator => last)
  /\ UNCHANGED <<main, jobs, refresh>> /\ Elsewhere
Checkpoint(p) ==
  /\ main[p] # Now[p] /\ main' = [main EXCEPT ![p] = Now[p]] /\ FileMoves
  /\ UNCHANGED <<wal, walThere, committed, hint, jobs, refresh>> /\ Elsewhere
WalEnds(removed) ==
  /\ wal # << >> /\ Quiet /\ main = Now /\ wal' = << >> /\ walThere' = ~removed /\ FileMoves
  /\ UNCHANGED <<main, committed, hint, jobs, refresh>> /\ Elsewhere
JobMoves ==
  /\ jobs < MaxJobs /\ jobs' = jobs + 1
  /\ UNCHANGED <<main, wal, walThere, committed, hint, copy, refresh>> /\ Elsewhere

-----------------------------------------------------------------------------
(* stable_copy.                                                            *)

To(t, pc) == copy' = [copy EXCEPT ![t].pc = pc]
Again(t) == copy' = [copy EXCEPT ![t] = [Resting EXCEPT !.pc = IF copy[t].attempt = MaxAttempt THEN "failed" ELSE "begin",
                                                        !.attempt = copy[t].attempt]]
Copies == UNCHANGED <<sqliteVars, built, refresh, documents, scraped>>

TakesStamps(t) ==
  /\ copy[t].pc = "begin"
  /\ copy' = [copy EXCEPT ![t] = [Resting EXCEPT !.pc = "main", !.attempt = copy[t].attempt + 1, !.walThere = walThere]]
  /\ Copies
CopiesMain(t) ==
  LET n == Len(copy[t].main) + 1 IN
  /\ copy[t].pc = "main"
  /\ copy' = [copy EXCEPT ![t].main = Append(@, main[PageOf[n]]),
                          ![t].pc = IF n = Len(PageOf) THEN "wal" ELSE "main"]
  /\ Copies
\* A WAL that was there and is not any more costs an attempt.
CopiesWal(t) ==
  /\ copy[t].pc = "wal"
  /\ IF copy[t].walThere /\ ~walThere THEN Again(t)
     ELSE copy' = [copy EXCEPT ![t].wal = IF copy[t].walThere THEN wal ELSE << >>, ![t].pc = "compare"]
  /\ Copies
Unmoved(t) == ~copy[t].moved
Compares(t) ==
  /\ copy[t].pc = "compare"
  /\ IF Unmoved(t) THEN To(t, "frozen") ELSE Again(t)
  /\ Copies
Frozen(t) == Content([p \in Page |-> copy[t].main[CHOOSE n \in DOMAIN PageOf : PageOf[n] = p]], copy[t].wal)

-----------------------------------------------------------------------------
(* The refresh.                                                            *)

TimeComes ==
  /\ ~refresh.due /\ refresh' = [refresh EXCEPT !.due = TRUE]
  /\ UNCHANGED <<sqliteVars, copy, built, documents, scraped>>

\* _refresh_once: due, and nobody else refreshes.
RefreshOnce ==
  /\ refresh.due /\ ~refresh.locked /\ copy["loop"].pc = "idle"
  /\ refresh' = [refresh EXCEPT !.due = FALSE, !.locked = TRUE]
  /\ copy' = [copy EXCEPT !["loop"] = [Resting EXCEPT !.pc = "begin"]] /\ built' = << >>
  /\ UNCHANGED <<sqliteVars, documents, scraped>>

\* Mutant: each builder copies the database for itself.
ReadsLive == Now
\* build_documents: the builders share one copy of the database.
SourceOfBuild == Frozen("loop")
BuildDocument ==
  LET n == Len(built) + 1 IN
  /\ copy["loop"].pc = "frozen" /\ n <= Len(Doc)
  /\ built' = Append(built, DocOf(SourceOfBuild, IF Doc[n] \in JobDoc THEN jobs ELSE 0))
  /\ UNCHANGED <<sqliteVars, copy, refresh, documents, scraped>>

\* All documents are swapped under the lock; the pace overwrites what was due.
Publish ==
  /\ copy["loop"].pc = "frozen" /\ Len(built) = Len(Doc)
  /\ documents' = built /\ built' = << >> /\ copy' = [copy EXCEPT !["loop"] = Resting]
  /\ refresh' = [due |-> FALSE, locked |-> FALSE, degraded |-> FALSE]
  /\ UNCHANGED <<sqliteVars, scraped>>

\* Mutant: the run lock is not released when the build fails.
KeptLock == [refresh EXCEPT !.degraded = TRUE]
\* The old documents stay, and the receipt says degraded.
AfterFailure == [refresh EXCEPT !.degraded = TRUE, !.locked = FALSE]
RefreshFails ==
  /\ copy["loop"].pc = "failed"
  /\ copy' = [copy EXCEPT !["loop"] = Resting] /\ built' = << >> /\ refresh' = AfterFailure
  /\ UNCHANGED <<sqliteVars, documents, scraped>>

\* native_operator_action: its row is committed, then a refresh is due at once.
OperatorDone ==
  /\ hint /\ hint' = FALSE /\ refresh' = [refresh EXCEPT !.due = TRUE]
  /\ UNCHANGED <<main, wal, walThere, committed, jobs, copy, built, documents, scraped>>

-----------------------------------------------------------------------------
(* metrics_text: a copy of its own for the run and session gauges.         *)

ScrapeBegins ==
  /\ copy["scrape"].pc = "idle"
  /\ copy' = [copy EXCEPT !["scrape"] = [Resting EXCEPT !.pc = "begin"]] /\ scraped' = "none"
  /\ UNCHANGED <<sqliteVars, built, refresh, documents>>
\* Only errors of the file system and of SQLite are caught: giving up on the
\* copy is neither and leaves the request without an answer.
ScrapeEnds ==
  /\ copy["scrape"].pc \in {"frozen", "failed"}
  /\ scraped' = IF copy["scrape"].pc = "frozen" THEN "answered" ELSE "dropped"
  /\ copy' = [copy EXCEPT !["scrape"] = Resting]
  /\ UNCHANGED <<sqliteVars, built, refresh, documents>>

CopyStep(t) == TakesStamps(t) \/ CopiesMain(t) \/ CopiesWal(t) \/ Compares(t)
Writers ==
  \/ \E operator \in BOOLEAN : FrameWritten(operator)
  \/ \E p \in Page : Checkpoint(p)
  \/ \E removed \in BOOLEAN : WalEnds(removed)
  \/ JobMoves
BoardNext ==
  \/ Writers \/ CopyStep("loop") \/ OperatorDone
  \/ TimeComes \/ RefreshOnce \/ BuildDocument \/ Publish \/ RefreshFails
\* A metrics request shares nothing with a refresh but the files both read.
ScrapeNext == Writers \/ CopyStep("scrape") \/ ScrapeBegins \/ ScrapeEnds

\* The refresh thread runs, time passes.
BoardFairness ==
  /\ WF_boardVars(TimeComes) /\ WF_boardVars(RefreshOnce) /\ WF_boardVars(CopyStep("loop"))
  /\ WF_boardVars(BuildDocument) /\ WF_boardVars(Publish) /\ WF_boardVars(RefreshFails)

-----------------------------------------------------------------------------
(* Properties.                                                             *)

\* operations_bundle and operations_bundle_v2: every document under one lock.
Bundle == documents

\* The documents of a bundle show the database at one instant, a state some
\* transaction left, though it is copied without a lock while pages and WAL
\* move and the documents are built one after another (stable_copy,
\* build_documents, operations_bundle).
BundleAgrees == \E v \in 0 .. committed : \A i \in DOMAIN Bundle, p \in Page : Bundle[i].db[p] = v

\* Once the database is quiet the board comes to show its last commit, after
\* refreshes that gave up and operator actions whose hint was overwritten
\* (_refresh_loop, _refresh_once_locked).
EventuallyOnBoard == <>[](\A i \in DOMAIN Bundle : Bundle[i].db = Now)
=============================================================================
