------------------------------ MODULE Queries -------------------------------
(***************************************************************************)
(* Ranked work queries: coord/exact_query_core.py over work_query_v2.py.   *)
(*                                                                         *)
(* A snapshot is one read transaction, so a query is one step.  A reader   *)
(* pages through the ranked workstreams with a cursor that carries the     *)
(* source_change_seq of its first page, while other sessions write, leases *)
(* run out and processes die.  The last two move no sequence number, and a *)
(* workstream's rank depends on them.  Byte sizes are a choice: any number *)
(* of the cards within the item cap may fit.                               *)
(***************************************************************************)
EXTENDS Integers, FiniteSets, Sequences, SequencesExt

CONSTANTS
  QRow,          \* work ids, numbered
  QStream,       \* (program, workstream) pairs, numbered
  QPlane,        \* exact subject planes, numbered
  Pins,          \* value heads a declaration may give: plain, pinned, valued
  FirstBoards,     \* boards a reader may begin with: functions on QRow, written before seq 0
  Filters,       \* WorkFilters a reader may pass
  PageCap,       \* max_items
  MaxSeq         \* bound on source_change_seq

QueryRow ==
  [plane : Int, stream : Int, pin : Pins \cup {"plain"}, claim : {"none", "running", "blocked"}, leased : BOOLEAN,
   pid : BOOLEAN, intent : {"planned", "blocked"}, priority : Nat, updated : {0}]
ASSUME QueriesAssumption ==
  /\ IsFiniteSet(QRow) /\ QRow \subseteq Int /\ QPlane \cup QStream \subseteq Int
  /\ FirstBoards \subseteq [QRow -> QueryRow] /\ PageCap \in Nat /\ MaxSeq \in Nat

VARIABLES
  qrow,     \* row -> its heads, intent, claim, run and updated_seq
  seq,      \* coord_source_state.source_change_seq
  enforced, \* coord_authority_policy is enforced, with an active generation
  reader,   \* a paging reader: its cursor, what it was shown; lifted: workstreams
            \* that a dying process moved up the ranks meanwhile
  answer    \* what the step just taken returned

queryVars == <<qrow, seq, enforced, reader, answer>>

Undecided == 0      \* a plane head that needs review
NoHeadYet == -1
NoAnswer == [kind |-> "none", got |-> << >>]
NoPaging ==
  [pc |-> "idle", fence |-> 0, filter |-> "none", last |-> << >>, shown |-> {}, due |-> {}, lifted |-> {}]

QueriesInit ==
  /\ qrow \in FirstBoards /\ seq = 0 /\ enforced = TRUE /\ reader = NoPaging
  /\ answer = NoAnswer

-----------------------------------------------------------------------------
(* What moves the board under a reader.  The coord_seq_* triggers count every *)
(* write; a lease that lapses and a process that dies write nothing.          *)
WritesRow(w, row) ==
  /\ seq < MaxSeq /\ seq' = seq + 1 /\ qrow' = [qrow EXCEPT ![w] = row]
  /\ answer' = NoAnswer /\ UNCHANGED <<enforced, reader>>
Declares(w, p, s, pin) ==
  WritesRow(w, [qrow[w] EXCEPT !.plane = p, !.stream = s, !.pin = pin])
TakesClaim(w, status) ==
  WritesRow(w, [qrow[w] EXCEPT !.claim = status, !.leased = TRUE, !.updated = seq + 1])
SetsIntent(w, intent) == WritesRow(w, [qrow[w] EXCEPT !.intent = intent, !.updated = seq + 1])
LeaseLapses(w) ==
  /\ qrow[w].leased /\ qrow' = [qrow EXCEPT ![w].leased = FALSE]
  /\ answer' = NoAnswer /\ UNCHANGED <<seq, enforced, reader>>
RollsPolicyBack ==
  /\ enforced /\ enforced' = FALSE /\ seq < MaxSeq /\ seq' = seq + 1
  /\ answer' = NoAnswer /\ UNCHANGED <<qrow, reader>>

-----------------------------------------------------------------------------
(* load_exact_query_snapshot: rows with every head in place are exact, the   *)
(* others are kept in quarantine.                                            *)
StatusOf(r) ==
  CASE r.pid -> "running"
    [] ~r.pid /\ r.claim # "none" -> IF r.leased THEN r.claim ELSE "attention"
    [] OTHER -> r.intent
SnapshotStatus(w) == StatusOf(qrow[w])
Quarantined(w) ==
  qrow[w].plane \in {NoHeadYet, Undecided} \/ qrow[w].stream = NoHeadYet \/ qrow[w].pin = "none"
ExactRows == {w \in QRow : ~Quarantined(w)}

\* _normalize_span: a row in quarantine lost its lineage and stands alone.
Unclassified(w) == 100 + w
NormalizedSpan(w) ==
  LET r == qrow[w]
      exact == r.plane \notin {NoHeadYet, Undecided}
  IN [work |-> w, status |-> SnapshotStatus(w), priority |-> r.priority, updated |-> r.updated,
      plane |-> IF exact THEN r.plane ELSE Undecided, planeExact |-> exact,
      stream |-> IF Quarantined(w) THEN Unclassified(w) ELSE r.stream, lineageExact |-> ~Quarantined(w),
      quarantined |-> Quarantined(w), pinned |-> ~Quarantined(w) /\ r.pin = "pinned",
      valued |-> ~Quarantined(w) /\ r.pin = "valued"]

\* A workstream with rows of two planes has no exact plane.
Mixed(spans, s) ==
  Cardinality({x.plane : x \in {y \in spans : y.stream = s /\ y.planeExact /\ y.lineageExact}}) > 1
CrossSpanQuarantine(spans) ==
  {IF x.lineageExact /\ Mixed(spans, x.stream)
   THEN [x EXCEPT !.plane = Undecided, !.planeExact = FALSE, !.quarantined = TRUE] ELSE x : x \in spans}
Normalized == CrossSpanQuarantine({NormalizedSpan(w) : w \in QRow})

Matches(x, f) ==
  /\ x.quarantined => f.quarantined
  /\ f.planes # {} => x.plane \in f.planes
  /\ f.statuses # {} => x.status \in f.statuses
  /\ f.stream # 0 => x.stream = f.stream
EligibleSpans(f) == {x \in Normalized : Matches(x, f)}

-----------------------------------------------------------------------------
(* _aggregate_workstreams and the rank it sorts by *)
Key(x) == <<x.plane, x.stream>>
Lowest(nums) == CHOOSE n \in nums : \A m \in nums : n <= m
Highest(nums) == CHOOSE n \in nums : \A m \in nums : m <= n
CardOf(k, spans) ==
  LET own == {x \in spans : Key(x) = k} IN
  [key |-> k, pinned |-> \E x \in own : x.pinned, active |-> \E x \in own : x.status = "running",
   blocked |-> \E x \in own : x.status = "blocked", valued |-> \E x \in own : x.valued,
   priority |-> Lowest({x.priority : x \in own}), newest |-> Highest({x.updated : x \in own})]
WorkCards(spans) == {CardOf(k, spans) : k \in {Key(x) : x \in spans}}
First(b) == IF b THEN 0 ELSE 1
RankSignature(c) ==
  <<First(c.pinned \/ c.active \/ c.blocked \/ c.valued), First(c.pinned), First(c.active),
    First(c.blocked), First(c.valued), c.priority, -c.newest, c.key[1], c.key[2]>>
Precedes(a, b) == \E i \in DOMAIN a : a[i] < b[i] /\ \A j \in 1 .. i - 1 : a[j] = b[j]
Ranked(cards) ==
  CHOOSE s \in [1 .. Cardinality(cards) -> cards] :
    \A i, j \in DOMAIN s : i < j => Precedes(RankSignature(s[i]), RankSignature(s[j]))

\* A process dies: nothing is written, and its row falls back on its claim or its
\* intent.  Where that is blocked and another row of the workstream runs on, the
\* workstream moves up the ranks.
Lifts(w) ==
  /\ StatusOf([qrow[w] EXCEPT !.pid = FALSE]) = "blocked"
  /\ \E x, y \in Normalized : x.work = w /\ y.work # w /\ Key(x) = Key(y) /\ y.status = "running"
ProcessDies(w) ==
  /\ qrow[w].pid /\ qrow' = [qrow EXCEPT ![w].pid = FALSE]
  /\ reader' = IF reader.pc = "more" /\ Lifts(w)
               THEN [reader EXCEPT !.lifted = @ \cup {Key(x) : x \in {y \in Normalized : y.work = w}}]
               ELSE reader
  /\ answer' = NoAnswer /\ UNCHANGED <<seq, enforced>>

(* _pack_workstreams: a prefix within the caps, and a cursor when cards are  *)
(* left and some card was shown.                                             *)
PagesOf(ranked) == {SubSeq(ranked, 1, n) : n \in {m \in 0 .. Len(ranked) : m <= PageCap}}
KeysOf(cards) == {cards[i].key : i \in DOMAIN cards}
\* _continuation
Continuation(page, ranked) ==
  IF Len(page) = Len(ranked) THEN "done" ELSE IF page = << >> THEN "cut" ELSE "more"
ReadsPage(f, ranked, shown, due) ==
  /\ \E page \in PagesOf(ranked) :
       reader' = [pc |-> Continuation(page, ranked), fence |-> seq, filter |-> f,
                  last |-> IF page = << >> THEN << >> ELSE RankSignature(page[Len(page)]),
                  shown |-> shown \cup KeysOf(page), due |-> due, lifted |-> reader.lifted]
  /\ answer' = NoAnswer /\ UNCHANGED <<qrow, seq, enforced>>

FirstPage(f) ==
  /\ reader.pc = "idle" /\ enforced
  /\ LET ranked == Ranked(WorkCards(EligibleSpans(f))) IN ReadsPage(f, ranked, {}, KeysOf(ranked))

\* work_query_v2 with a cursor: another source or other filters, and the reader starts again.
\* Mutant: the source fence is not compared.
FilterHolds(f) == reader.filter = f
FenceHolds(f) == reader.fence = seq /\ reader.filter = f
NextPage(f) ==
  /\ reader.pc = "more" /\ enforced /\ FenceHolds(f)
  /\ LET left == {c \in WorkCards(EligibleSpans(f)) : Precedes(reader.last, RankSignature(c))}
     IN ReadsPage(f, Ranked(left), reader.shown, reader.due)
RestartsQuery(f) ==
  /\ \/ reader.pc = "more" /\ ~(enforced /\ FenceHolds(f))
     \/ reader.pc \in {"done", "cut"}
  /\ reader' = NoPaging
  /\ answer' = NoAnswer /\ UNCHANGED <<qrow, seq, enforced>>

-----------------------------------------------------------------------------
\* The other queries of a snapshot
\* (an answer stands until the board or the reader moves: asked again it would be the same).
Responds(kind, got) ==
  /\ enforced /\ answer = NoAnswer /\ answer' = [kind |-> kind, got |-> got]
  /\ UNCHANGED <<qrow, seq, enforced, reader>>
NewestFirst(spans) == SetToSortSeq(spans, LAMBDA x, y : x.updated > y.updated \/ (x.updated = y.updated /\ x.work < y.work))
WorksOf(spans) == [i \in DOMAIN spans |-> spans[i].work]
Everything == [planes |-> {}, statuses |-> {}, stream |-> 0, quarantined |-> TRUE]
\* search_history_v2 and expand_workstream_v2: no cursor is ever offered.
SearchesHistory(f) == Responds("history", WorksOf(NewestFirst(EligibleSpans(f))))
ExpandsWorkstream(s) == Responds("expand", WorksOf(Reverse(NewestFirst({x \in EligibleSpans(Everything) : x.stream = s}))))
SearchesQuarantine == Responds("quarantine", WorksOf(NewestFirst({x \in Normalized : x.work \notin ExactRows})))

\* flat_ranked_rows looks up each exact row's card; a row without one is a KeyError.
ServedCards == WorkCards(EligibleSpans([Everything EXCEPT !.quarantined = FALSE]))
FlatRows ==
  IF \A w \in ExactRows : \E c \in ServedCards : c.key = <<qrow[w].plane, qrow[w].stream>>
  THEN Responds("flat", WorksOf(NewestFirst({x \in Normalized : x.work \in ExactRows})))
  ELSE Responds("error", << >>)

\* session_capsule_v2: own claims, then ranked work, cut to a prefix.  The directed
\* events between the two are left out: the session here has none.
CapsuleUnits ==
  LET claims == NewestFirst({x \in Normalized : qrow[x.work].claim # "none"})
      cards == Ranked(ServedCards)
  IN [i \in DOMAIN claims |-> <<claims[i].work, 0>>] \o [i \in DOMAIN cards |-> cards[i].key]
TakesCapsule(n) ==
  LET units == CapsuleUnits IN n <= Len(units) /\ Responds("capsule", SubSeq(units, 1, n))

QueriesNext ==
  \/ \E w \in QRow :
       \/ \E p \in QPlane \cup {Undecided}, s \in QStream, pin \in Pins : Declares(w, p, s, pin)
       \/ \E status \in {"running", "blocked"} : TakesClaim(w, status)
       \/ SetsIntent(w, IF qrow[w].intent = "planned" THEN "blocked" ELSE "planned")
       \/ LeaseLapses(w) \/ ProcessDies(w)
  \/ RollsPolicyBack \/ SearchesQuarantine \/ FlatRows
  \/ \E f \in Filters : FirstPage(f) \/ NextPage(f) \/ RestartsQuery(f) \/ SearchesHistory(f)
  \/ \E s \in QStream : ExpandsWorkstream(s)
  \/ \E n \in 0 .. PageCap : TakesCapsule(n)

QueriesSpec == QueriesInit /\ [][QueriesNext]_queryVars

-----------------------------------------------------------------------------
(* A reader that pages to the end with one cursor chain was shown every       *)
(* workstream its first page had in store, although leases lapsed and         *)
(* processes died between its pages and moved the ranks (work_query_v2.py:    *)
(* "reject stale fence and restart; never offset-page").  Left out are a      *)
(* workstream that a death moved up the ranks, past the cursor, and a filter  *)
(* on status: a row that changes status by time comes into it late.           *)
PagedMeansSeen ==
  reader.pc = "done" /\ reader.filter.statuses = {} => reader.due \subseteq reader.shown \cup reader.lifted
=============================================================================
