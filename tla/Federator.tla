----------------------------- MODULE Federator ------------------------------
(***************************************************************************)
(* Federated context search: knowledge/context_federator.py.               *)
(*                                                                         *)
(* A search asks the providers one after the other, each reading its own   *)
(* store at its own moment; one that fails contributes an error.  What     *)
(* they return is deduplicated, ordered, cut to the hit cap so that every  *)
(* source keeps its first hit, and cut to the byte budget.  Sizes are a    *)
(* choice: any prefix may be what fits.  A pointer of the packet is read   *)
(* later, when the stores have moved on.                                   *)
(***************************************************************************)
EXTENDS Integers, FiniteSets, Sequences

CONSTANTS
  Provider,      \* default_context_providers, in order: a sequence of sources
  Entry,         \* what a store may hold: [id, work, score]
  StockInit,     \* provider -> the entries it holds
  ProviderLimit, \* per_provider_limit
  MaxHits,       \* max_hits
  MaxMoves       \* bound on writes to the stores

Source == {"board", "board_history", "facts", "kfts", "artifact_manifest", "accepted_memory", "memory_proposals"}
StoreEntry == [id : Nat, work : Nat, score : Nat]
\* An id names one entry of a store.
ASSUME FederatorAssumption ==
  /\ Provider \in Seq(Source) /\ Entry \subseteq StoreEntry /\ IsFiniteSet(Entry)
  /\ StockInit \in [Source -> SUBSET StoreEntry]
  /\ \A s \in Source : /\ IsFiniteSet(StockInit[s])
                      /\ \A a, b \in StockInit[s] \cup Entry : a.id = b.id => a = b
  /\ ProviderLimit \in Nat /\ MaxHits \in Nat /\ MaxMoves \in Nat

VARIABLES
  stock,     \* source -> entries
  edition,   \* the CURRENT accepted-memory generation
  moves,
  search,    \* the search under way: providers left, hits so far
  packet,    \* the packet or pack last returned
  pointer    \* a hit's pointer being read, and what was read

fedVars == <<stock, edition, moves, search, packet, pointer>>

NoSearch == [on |-> FALSE, next |-> 1, focus |-> FALSE, hits |-> << >>, cut |-> FALSE, failed |-> {}]
NoPacket == [made |-> "none", hits |-> << >>, returned |-> {}, failed |-> {}, errors |-> {}, truncated |-> FALSE]
Unread == [state |-> "none", edition |-> 0, got |-> 0]

FederatorInit ==
  /\ stock = StockInit /\ edition = 1 /\ moves = 0
  /\ search = NoSearch /\ packet = NoPacket /\ pointer = Unread

StoreMoves(s, e) ==
  /\ moves < MaxMoves /\ moves' = moves + 1
  /\ stock' = [stock EXCEPT ![s] = IF e \in @ THEN @ \ {e} ELSE @ \cup {e}]
  /\ UNCHANGED <<edition, search, packet, pointer>>
PublishesMemory ==
  /\ moves < MaxMoves /\ moves' = moves + 1 /\ edition' = edition + 1
  /\ UNCHANGED <<stock, search, packet, pointer>>

-----------------------------------------------------------------------------
(* The providers.  Board, artifact, accepted-memory and history searches say *)
(* when they cut at the limit; facts, notes and proposals do not, and a      *)
(* board focus cuts its rows a second time without a word.                   *)
Hit(s, e) == [source |-> s, id |-> e.id, work |-> e.work, score |-> e.score,
              edition |-> IF s = "accepted_memory" THEN edition ELSE 0]
\* sorted(): the members of S as a sequence, in the order of the pairs R.
Arranged(S, R) ==
  [n \in 1 .. Cardinality(S) |-> CHOOSE x \in S : Cardinality({y \in S : <<y, x>> \in R}) = n - 1]
Better(entries) ==
  {p \in entries \X entries :
     p[1].score > p[2].score \/ (p[1].score = p[2].score /\ p[1].id < p[2].id)}
Best(entries) == Arranged(entries, Better(entries))
Upto(seq, n) == SubSeq(seq, 1, IF Len(seq) < n THEN Len(seq) ELSE n)
Result(s, entries, told) ==
  [hits |-> [i \in DOMAIN Upto(Best(entries), ProviderLimit) |-> Hit(s, Best(entries)[i])],
   cut |-> told /\ Cardinality(entries) > ProviderLimit]
BoardSearch(focus) == Result("board", stock["board"], ~focus)
HistorySearch == Result("board_history", stock["board_history"], TRUE)
FactsSearch == Result("facts", stock["facts"], FALSE)
KftsSearch == Result("kfts", stock["kfts"], FALSE)
ArtifactSearch(focus) ==
  Result("artifact_manifest", {e \in stock["artifact_manifest"] : focus => e.work = 1}, TRUE)
AcceptedSearch == Result("accepted_memory", stock["accepted_memory"], TRUE)
ProposalSearch(focus) == Result("memory_proposals", {e \in stock["memory_proposals"] : focus => e.work = 1}, FALSE)
ResultOf(s, focus) ==
  CASE s = "board" -> BoardSearch(focus) [] s = "facts" -> FactsSearch [] s = "kfts" -> KftsSearch
    [] s = "artifact_manifest" -> ArtifactSearch(focus) [] s = "accepted_memory" -> AcceptedSearch
    [] s = "memory_proposals" -> ProposalSearch(focus) [] s = "board_history" -> HistorySearch

BeginsSearch(focus) ==
  /\ ~search.on /\ search' = [NoSearch EXCEPT !.on = TRUE, !.focus = focus]
  /\ packet' = NoPacket /\ pointer' = Unread
  /\ UNCHANGED <<stock, edition, moves>>
Asks(fails) ==
  LET s == Provider[search.next] IN
  /\ search.on /\ search.next <= Len(Provider)
  /\ search' = [search EXCEPT !.next = @ + 1,
                  !.hits = @ \o IF fails THEN << >> ELSE ResultOf(s, search.focus).hits,
                  !.cut = @ \/ (~fails /\ ResultOf(s, search.focus).cut),
                  !.failed = @ \cup IF fails THEN {s} ELSE {}]
  /\ UNCHANGED <<stock, edition, moves, packet, pointer>>

-----------------------------------------------------------------------------
(* From the hits to the packet *)
\* A row found on the board and in its history is one hit.
HitKey(h) == IF h.source \in {"board", "board_history"} THEN <<"board_work", h.work>> ELSE <<h.source, h.id>>
Upwards(S) == {p \in S \X S : p[1] < p[2]}
\* The hits at the places S, in the order R of the places.
HitsAt(hits, S, R) == LET places == Arranged(S, R) IN [n \in DOMAIN places |-> hits[places[n]]]
FirstOfKey(hits) == {i \in DOMAIN hits : \A j \in 1 .. i - 1 : HitKey(hits[j]) # HitKey(hits[i])}
DedupeHits(hits) == HitsAt(hits, FirstOfKey(hits), Upwards(FirstOfKey(hits)))
SourceOrder(s) ==
  CASE s = "board" -> 0 [] s = "accepted_memory" -> 1 [] s = "facts" -> 2 [] s = "kfts" -> 3
    [] s = "board_history" -> 4 [] OTHER -> 50
BySource(hits) ==
  {p \in (DOMAIN hits) \X (DOMAIN hits) :
     LET g == hits[p[1]]
         h == hits[p[2]]
     IN \/ SourceOrder(g.source) < SourceOrder(h.source)
        \/ /\ SourceOrder(g.source) = SourceOrder(h.source)
           /\ g.score > h.score \/ (g.score = h.score /\ p[1] < p[2])}
OrderHits(hits) == HitsAt(hits, DOMAIN hits, BySource(hits))
\* The first hit of each source, then the rest, in their order, up to the cap.
SelectDiverse(hits) ==
  LET leads == {i \in DOMAIN hits : \A j \in 1 .. i - 1 : hits[j].source # hits[i].source}
      rest == DOMAIN hits \ leads
      diverse == HitsAt(hits, leads, Upwards(leads)) \o HitsAt(hits, rest, Upwards(rest))
  IN IF Len(hits) <= MaxHits THEN hits ELSE SubSeq(diverse, 1, MaxHits)

CapCuts(ordered) == Len(ordered) > MaxHits \/ search.cut
\* _bound_hits keeps `n` of the hits; _bound_packet pops to `m` and may shed the errors as well.
PacksPacket(n, m) ==
  LET ordered == OrderHits(DedupeHits(search.hits))
      selected == SelectDiverse(ordered)
  IN
  /\ search.on /\ search.next > Len(Provider) /\ n <= Len(selected) /\ m <= n
  /\ \E sheds \in IF m = 0 THEN BOOLEAN ELSE {FALSE} :
       packet' = [made |-> "packet", hits |-> SubSeq(selected, 1, m), failed |-> search.failed,
                  returned |-> {search.hits[i] : i \in DOMAIN search.hits},
                  errors |-> IF sheds THEN {} ELSE search.failed,
                  truncated |-> CapCuts(ordered) \/ n < Len(selected) \/ m < n \/ sheds]
  /\ search' = NoSearch /\ UNCHANGED <<stock, edition, moves, pointer>>

\* compile_context_pack: hits by section; the byte budget pops from the last section back.
Section(h) ==
  CASE h.source = "board" -> 1 [] h.source = "board_history" -> 2 [] h.source = "facts" -> 3
    [] h.source = "kfts" -> 4 [] h.source = "artifact_manifest" -> 5 [] h.source = "accepted_memory" -> 6
    [] h.source = "memory_proposals" -> 7
BySection(hits) ==
  {p \in (DOMAIN hits) \X (DOMAIN hits) :
     \/ Section(hits[p[1]]) < Section(hits[p[2]])
     \/ Section(hits[p[1]]) = Section(hits[p[2]]) /\ p[1] < p[2]}
SectionOrder(hits) == HitsAt(hits, DOMAIN hits, BySection(hits))
\* With no item left to pop it sheds the errors, and does not count that as a cut.
CompilesPack(n, sheds) ==
  LET sections == SectionOrder(packet.hits) IN
  /\ packet.made # "none" /\ n <= Len(sections) /\ (sheds => n = 0)
  /\ packet' = [packet EXCEPT !.made = "pack", !.hits = SubSeq(sections, 1, n),
                  !.errors = IF sheds THEN {} ELSE @, !.truncated = @ \/ n < Len(sections)]
  /\ UNCHANGED <<stock, edition, moves, search, pointer>>

-----------------------------------------------------------------------------
(* read_context_pointer: an accepted-memory pointer names its generation; a   *)
(* note pointer is resolved against the files of the moment.                  *)
PicksPointer(h) ==
  /\ pointer' = [state |-> h.source, edition |-> h.edition, got |-> 0]
  /\ UNCHANGED <<stock, edition, moves, search, packet>>
\* Mutant: any pointer into the store is read from CURRENT.
AnyEdition == TRUE
NamesCurrent == pointer.edition = edition
ReadsAccepted ==
  /\ pointer.state = "accepted_memory"
  /\ pointer' = IF NamesCurrent THEN [pointer EXCEPT !.state = "read", !.got = edition]
                ELSE [pointer EXCEPT !.state = "refused"]
  /\ UNCHANGED <<stock, edition, moves, search, packet>>
ReadsNote(resolved) ==
  /\ pointer.state \in {"kfts", "facts", "board"}
  /\ pointer' = [pointer EXCEPT !.state = IF resolved THEN "note" ELSE "missing"]
  /\ UNCHANGED <<stock, edition, moves, search, packet>>

FederatorNext ==
  \/ \E s \in DOMAIN stock, e \in Entry : StoreMoves(s, e)
  \/ PublishesMemory \/ ReadsAccepted
  \/ \E b \in BOOLEAN : BeginsSearch(b) \/ Asks(b) \/ ReadsNote(b)
  \/ \E n, m \in 0 .. MaxHits : PacksPacket(n, m)
  \/ \E n \in 0 .. MaxHits, sheds \in BOOLEAN : CompilesPack(n, sheds)
  \/ \E i \in DOMAIN packet.hits : PicksPointer(packet.hits[i])

FederatorSpec == FederatorInit /\ [][FederatorNext]_fedVars

-----------------------------------------------------------------------------
(* A packet or pack that does not say it was cut holds every hit a provider   *)
(* returned, up to rows found twice, and a packet the error of every provider *)
(* that failed: neither the caps nor the byte budget drop them in silence.    *)
CutIsTold ==
  packet.made # "none" /\ ~packet.truncated =>
    /\ packet.made = "packet" => packet.failed = packet.errors
    /\ \A h \in packet.returned : \E i \in DOMAIN packet.hits : HitKey(packet.hits[i]) = HitKey(h)

(* A pointer from a search reads the generation the search found it in, or is *)
(* refused: a publication in between never swaps the text under it.           *)
ReadIsWhatWasFound == pointer.state = "read" => pointer.got = pointer.edition

\* A search says what it left out, and what it points to is what it found
\* (search, _bound_packet, _bound_context_pack, read_context_pointer).
SearchIsHonest == CutIsTold /\ ReadIsWhatWasFound
=============================================================================
