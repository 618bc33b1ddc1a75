------------------------------ MODULE MCBoard -------------------------------
(* The board server and what it makes of the rows: the bundle it publishes,   *)
(* the operations analysis, the graph envelope and the listing.               *)
EXTENDS BoardServer, BoardGraph, BoardRows
CONSTANT Parts
VARIABLE part

SomeDoc == <<"snapshot", "graph", "timeline">>
\* Edges between the nodes, and one that ends at a node the graph does not have.
SomeEdges == {s \in SUBSET {<<1, 2>>, <<2, 3>>, <<3, 1>>, <<2, 4>>} : Cardinality(s) <= 3}

allBoardVars == <<boardVars, opsVars, envVars, rowVars, part>>

\* The parts share no state: a behaviour runs one of them, the others stand at
\* one initial state.
Init ==
  /\ part \in Parts /\ BoardInit
  /\ IF part = "ops" THEN OpsInit
     ELSE /\ shownAs = [w \in WorkRow |-> "done"] /\ depends = [w \in WorkRow |-> {}] /\ cap = 1
          /\ index = << >> /\ low = << >> /\ stack = << >> /\ frames = << >> /\ components = {}
  /\ IF part = "envelope" THEN EnvInit
     ELSE /\ nature = [n \in NodeId |-> "done"] /\ twice = {} /\ given = {} /\ caps = << >>
          /\ phase = "read" /\ outNodes = << >> /\ outEdges = << >> /\ leftNodes = 0 /\ leftEdges = 0
  /\ IF part = "rows" THEN RowsInit ELSE moment = 1 /\ listing = NoScan /\ tableRow = << >>
Next ==
  /\ UNCHANGED part
  /\ \/ part = "board" /\ BoardNext /\ UNCHANGED <<opsVars, envVars, rowVars>>
     \/ part = "scrape" /\ ScrapeNext /\ UNCHANGED <<opsVars, envVars, rowVars>>
     \/ part = "ops" /\ OpsNext /\ UNCHANGED <<boardVars, envVars, rowVars>>
     \/ part = "envelope" /\ EnvNext /\ UNCHANGED <<boardVars, opsVars, rowVars>>
     \/ part = "rows" /\ RowsNext /\ UNCHANGED <<boardVars, opsVars, envVars>>
Spec == Init /\ [][Next]_allBoardVars /\ BoardFairness

\* Readers of the board see one state of the database: a bundle is of one
\* instant, a scan leaves out nothing that stood still (capture, board_rows).
BoardReadsAgree == BundleAgrees /\ ScanMissesNothingStill
=============================================================================
