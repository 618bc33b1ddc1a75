------------------------------ MODULE MCRecords -----------------------------
(* Work rows, the authority ledger, facts, accepted memory, documents, the   *)
(* note index, the test gate, the clean room, console releases, the rate     *)
(* card, ranked queries and federated search in one run.  `part` chooses which of them moves: they share no step, *)
(* so TLC explores their sum.                                                *)
EXTENDS WorkRows, Authority, Knowledge, TestHarness, Releases, RateCard,
        Queries, Federator

CONSTANT Parts

VARIABLE part

\* The third test file is the heavier one and a memory singleton.
FileWeight == [f \in TestFile |-> f]
GreenOrRed == {[f \in TestFile |-> "green"], [f \in TestFile |-> IF f = 1 THEN "red" ELSE "green"]}

\* A file and a link to it; a hard-linked pair; a link out; two links in a ring.
Stores ==
  {[n \in Name |-> IF n = 1 THEN FileAt(1) ELSE IF n = 2 THEN LinkTo(1) ELSE Gone],
   [n \in Name |-> IF n = 1 THEN LinkTo(Allowlisted) ELSE FileAt(1)],
   [n \in Name |-> IF n = 3 THEN LinkTo(Escaped) ELSE Gone],
   [n \in Name |-> IF n = 3 THEN FileAt(2) ELSE LinkTo(3 - n)]}
Rooms == {<<"tmp", "room">>, <<"repo", "room">>}
Repo == <<"repo">>

\* A model the vendored card lacks; catalogs that are down, garbled, good, wild and short.
ByProvider == [m \in Model |-> IF m = "opus" THEN "anthropic" ELSE "openai"]
OnCard == [m \in Model |-> IF m = "new" THEN 0 ELSE 4]
Served ==
  [down |-> Broken, garbled |-> Broken, good |-> [m \in Model |-> 5], jumped |-> [m \in Model |-> 40],
   short |-> [m \in Model |-> IF m = "opus" THEN 4 ELSE 0]]

\* A board on which a process keeps a blocked row of a workstream running that another row
\* runs in too; and one with a row in quarantine.
Board(claim, pid, head, stream) ==
  [plane |-> head, stream |-> stream, pin |-> "plain", claim |-> claim, leased |-> claim # "none", pid |-> pid,
   intent |-> "planned", priority |-> 1, updated |-> 0]
Boards ==
  {[w \in QRow |-> Board(IF w = 3 THEN "blocked" ELSE "running", w = 3, 1, IF w = 1 THEN 1 ELSE 2)],
   [w \in QRow |-> IF w = 1 THEN Board("none", FALSE, NoHeadYet, NoHeadYet)
                   ELSE Board(IF w = 3 THEN "blocked" ELSE "none", FALSE, 1, 1)]}
Default == [planes |-> {}, statuses |-> {}, stream |-> 0, quarantined |-> FALSE]
Asked == {Default, [Default EXCEPT !.planes = {1}, !.statuses = {"attention"}, !.quarantined = TRUE]}

\* Two rows on the board, the second also in its history, and one accepted note.
AllProviders ==
  <<"board", "facts", "kfts", "artifact_manifest", "accepted_memory", "memory_proposals", "board_history">>
Held(i) == [id |-> i, work |-> i, score |-> i]
Stocked ==
  [s \in {AllProviders[i] : i \in DOMAIN AllProviders} |->
     IF s = "board" THEN {Held(1), Held(2)} ELSE IF s \in {"board_history", "accepted_memory"} THEN {Held(2)} ELSE {}]
Entries == {Held(3)}

recVars == <<part, rowVars, authVars, factVars, memVars, docVars, indexVars, gateVars, roomVars,
             releaseVars, rateVars, queryVars, fedVars>>

RecordsInit ==
  /\ part \in Parts
  /\ RowsInit /\ AuthorityInit /\ FactsInit /\ MemoryInit /\ DocumentsInit /\ IndexInit
  /\ GateInit /\ (part \in {"reconcile", "validate"} \/ \A f \in TestFile : tree[f] = "green")
  /\ ReleasesInit /\ pointers = [current |-> 1, previous |-> 2] /\ RateInit
  /\ QueriesInit /\ (part = "queries" \/ qrow[3].pid)
  /\ FederatorInit
  /\ RoomInit /\ (part = "room" \/ store[3] = LinkTo(Escaped))

\* All parts but one stand still.
Only(p) ==
  /\ part = p /\ UNCHANGED part
  /\ IF p = "rows" THEN TRUE ELSE UNCHANGED rowVars
  /\ IF p = "authority" THEN TRUE ELSE UNCHANGED authVars
  /\ IF p = "facts" THEN TRUE ELSE UNCHANGED factVars
  /\ IF p = "memory" THEN TRUE ELSE UNCHANGED memVars
  /\ IF p = "documents" THEN TRUE ELSE UNCHANGED docVars
  /\ IF p = "index" THEN TRUE ELSE UNCHANGED indexVars
  /\ IF p \in {"reconcile", "validate"} THEN TRUE ELSE UNCHANGED gateVars
  /\ IF p = "room" THEN TRUE ELSE UNCHANGED roomVars
  /\ IF p = "releases" THEN TRUE ELSE UNCHANGED releaseVars
  /\ IF p = "rates" THEN TRUE ELSE UNCHANGED rateVars
  /\ IF p = "queries" THEN TRUE ELSE UNCHANGED queryVars
  /\ IF p = "search" THEN TRUE ELSE UNCHANGED fedVars

RecordsNext ==
  \/ Only("rows") /\ RowsNext
  \/ Only("authority") /\ AuthorityNext
  \/ Only("facts") /\ FactsNext
  \/ Only("memory") /\ MemoryNext
  \/ Only("documents") /\ DocumentsNext
  \/ Only("index") /\ IndexNext
  \/ Only("reconcile") /\ ReconcileNext
  \/ Only("validate") /\ ValidateNext
  \/ Only("room") /\ RoomNext
  \/ Only("releases") /\ ReleasesNext
  \/ Only("rates") /\ RateNext
  \/ Only("queries") /\ QueriesNext
  \/ Only("search") /\ FederatorNext

RecordsSpec == RecordsInit /\ [][RecordsNext]_recVars
=============================================================================
