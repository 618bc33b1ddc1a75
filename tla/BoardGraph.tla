----------------------------- MODULE BoardGraph -----------------------------
(***************************************************************************)
(* What the board makes of the graph of rows: the dependency analysis of the *)
(* operations atlas and the bounded envelope.                              *)
(***************************************************************************)
EXTENDS Integers, Sequences, FiniteSets, FiniteSetsExt, Relation, SequencesExt

-----------------------------------------------------------------------------
(***************************************************************************)
(* The dependency analysis of the operations atlas (board/operations.py)   *)
(* over the rows the snapshot shows (board/snapshot.py), and the answer of *)
(* the action registry to the same question (board/server.py).             *)
(*                                                                         *)
(* Tarjan's search is modelled call by call with its own stack; what       *)
(* follows it is one pass over the components and is given by definitions. *)
(***************************************************************************)

CONSTANTS
  WorkRow,      \* rows of the database, numbers in the order of their ids
  NoSuchRow,    \* an id the database does not hold
  AnalysisCap   \* the caps tried (400 in the source)

VARIABLES
  shownAs,        \* per row: what the board makes of it
  depends,      \* row -> ids it depends on
  cap,          \* rows analysed
  index, low,   \* row -> number of its visit, and of the oldest row it reaches
  stack, frames,\* the search: rows not yet in a component, calls under way
  components

opsVars == <<shownAs, depends, cap, index, low, stack, frames, components>>

\* Derived statuses of a row and whether they earn a place: queued and ranked
\* or not, done today or long ago.
Shown == {"queued", "unranked", "done", "aged"}

\* _serves_operator_surface
Surface == {w \in WorkRow : shownAs[w] \in {"queued", "done"}}
IsDone(w) == shownAs[w] \in {"done", "aged"}

\* work_ids: the first of the surface's rows.
Analysed == {w \in Surface : Cardinality({x \in Surface : x < w}) < cap}
Known(w) == depends[w] \cap Analysed
Boundary(w) == (depends[w] \cap Surface) \ Analysed
Missing(w) == depends[w] \ Surface

OpsInit ==
  /\ shownAs \in [WorkRow -> Shown] /\ cap \in AnalysisCap
  /\ depends \in [WorkRow -> SUBSET WorkRow \cup {{NoSuchRow}}]
  /\ \A w \in WorkRow \ Surface : depends[w] = {}
  /\ index = << >> /\ low = << >> /\ stack = << >> /\ frames = << >> /\ components = {}

-----------------------------------------------------------------------------
(* strongconnect.                                                          *)

Top == frames[Len(frames)]
Below == SubSeq(frames, 1, Len(frames) - 1)
With(f, w, v) == [x \in DOMAIN f \cup {w} |-> IF x = w THEN v ELSE f[x]]
OnStack(w) == \E i \in DOMAIN stack : stack[i] = w

Enter(w, calls) ==
  /\ index' = With(index, w, Cardinality(DOMAIN index)) /\ low' = With(low, w, Cardinality(DOMAIN index))
  /\ stack' = Append(stack, w) /\ frames' = Append(calls, [row |-> w, todo |-> Known(w)])
  /\ UNCHANGED <<shownAs, depends, cap, components>>

StartSearch ==
  LET left == Analysed \ DOMAIN index IN
  frames = << >> /\ left # {} /\ Enter(Min(left), << >>)

\* Only a row still on the stack can belong to the same cycle.
Links(d) == OnStack(d)

Explore ==
  LET w == Top.row  d == Min(Top.todo)  rest == Append(Below, [Top EXCEPT !.todo = @ \ {d}]) IN
  /\ frames # << >> /\ Top.todo # {}
  /\ IF d \notin DOMAIN index THEN Enter(d, rest)
     ELSE /\ low' = IF Links(d) THEN [low EXCEPT ![w] = Min({@, index[d]})] ELSE low
          /\ frames' = rest /\ UNCHANGED <<shownAs, depends, cap, index, stack, components>>

\* The rows above w on the stack close a component; the caller learns the link.
Return ==
  LET w == Top.row  at == CHOOSE i \in DOMAIN stack : stack[i] = w IN
  /\ frames # << >> /\ Top.todo = {}
  /\ IF low[w] = index[w]
     THEN /\ components' = components \cup {{stack[i] : i \in at .. Len(stack)}}
          /\ stack' = SubSeq(stack, 1, at - 1)
     ELSE UNCHANGED <<components, stack>>
  /\ frames' = Below
  /\ low' = IF Below = << >> THEN low
            ELSE LET p == Below[Len(Below)].row IN [low EXCEPT ![p] = Min({@, low[w]})]
  /\ UNCHANGED <<shownAs, depends, cap, index>>

OpsNext == StartSearch \/ Explore \/ Return
SearchDone == frames = << >> /\ Analysed = DOMAIN index

-----------------------------------------------------------------------------
(* The components.                                                         *)

ComponentOf(w) == CHOOSE c \in components : w \in c
Cyclic == {c \in components : Cardinality(c) > 1 \/ \E w \in c : w \in Known(w)}
\* component_dependents
ComponentEdge(c, d) == c # d /\ \E w \in d : Known(w) \cap c # {}
Downstream(seeds) ==
  LET after == TransitiveClosure([p \in components \X components |-> ComponentEdge(p[1], p[2])], components) IN
  {d \in components : \E c \in seeds : after[c, d]}

\* Mutant: only the row itself is withheld, not what waits for it.
SeedsAlone(seeds) == seeds
\* propagate_component_taint
Taint(seeds) == seeds \cup Downstream(seeds)
Unresolved(w) == Boundary(w) # {} \/ Missing(w) # {}
Withheld == Taint(Cyclic) \cup Taint({ComponentOf(w) : w \in {x \in Analysed : Unresolved(x)}})
Schedulable == Analysed \ UNION Withheld

\* depth: layers, and the longest path is one row per layer.
Depth ==
  LET d[w \in Schedulable] ==
        LET before == Known(w) \cap Schedulable IN IF before = {} THEN 0 ELSE 1 + Max({d[x] : x \in before})
  IN d
CriticalPathSteps == IF Schedulable = {} THEN 0 ELSE 1 + Max({Depth[w] : w \in Schedulable})

\* The rows an end of w may release.
Impact(w) == Cardinality(UNION Downstream({ComponentOf(w)}))

\* dependency_clear_planned
Clear == {w \in Schedulable : ~IsDone(w) /\ \A d \in Known(w) : IsDone(d)}

\* action_registry: dependencies_satisfied, from the census of every row.
Satisfied(w) == \A d \in depends[w] : d \in WorkRow /\ IsDone(d)

-----------------------------------------------------------------------------
(* Properties.                                                             *)

Before == TransitiveClosure([p \in Analysed \X Analysed |-> p[2] \in Known(p[1])], Analysed)

\* The components are the sets of rows that wait for one another, whatever
\* the order in which the search met them (strongconnect).
ComponentsAreMutual ==
  SearchDone =>
    components = {{x \in Analysed : x = w \/ (Before[w, x] /\ Before[x, w])} : w \in Analysed}

\* Scheduled are exactly the rows none of whose prerequisites, however far, is
\* in a cycle, missing or beyond the cap; each has a layer above them, and a
\* row called clear is one the action registry lets start
\* (_dependency_analysis, build_operations, action_registry).
ScheduledIsResolved ==
  SearchDone =>
    LET closed == {w \in Analysed : Unresolved(w) \/ Before[w, w]} IN
    /\ Schedulable = {w \in Analysed \ closed : \A x \in closed : ~Before[w, x]}
    /\ \A w \in Schedulable : /\ \A x \in Known(w) : Depth[x] < Depth[w]
                              /\ Impact(w) = Cardinality({x \in Analysed : Before[x, w]})
    /\ \A w \in Clear : Satisfied(w)

-----------------------------------------------------------------------------
(***************************************************************************)
(* The bounded graph of the board: which nodes and edges a capped envelope *)
(* emits and how it accounts for the rest (board/graph_envelope.py), and   *)
(* the bundle trimmed to it (board/server.py, _project_to_envelope).       *)
(*                                                                         *)
(* A node is its id, a number in the order of ids; an edge is a pair.  The *)
(* size of the payload is counted in units: NodeUnit a node, one an edge.  *)
(***************************************************************************)

CONSTANTS
  NodeId,
  EdgeChoice,   \* sets of edges tried, their ends ids of nodes or not
  NodeCap, EdgeCap, ByteCap, \* caps tried
  NodeUnit

VARIABLES
  nature,       \* per node: "running", "queued", "done", or "artifact" without a status
  twice,        \* ids that occur on two nodes
  given,        \* edges of the graph
  caps,         \* [nodes, edges, bytes]
  phase,
  outNodes, outEdges,       \* emitted so far, in order
  leftNodes, leftEdges      \* omitted so far, counted

envVars == <<nature, twice, given, caps, phase, outNodes, outEdges, leftNodes, leftEdges>>

EnvInit ==
  /\ nature \in [NodeId -> {"running", "queued", "done", "artifact"}]
  /\ twice \in {{}} \cup {{n} : n \in NodeId} /\ given \in EdgeChoice
  /\ caps \in [nodes : NodeCap, edges : EdgeCap, bytes : ByteCap]
  /\ phase = "read" /\ outNodes = << >> /\ outEdges = << >> /\ leftNodes = 0 /\ leftEdges = 0

Population == Cardinality(NodeId) + Cardinality(twice)

-----------------------------------------------------------------------------
(* Admission.                                                              *)

\* A node whose id collides is quarantined, both of its entries.
Eligible == NodeId \ twice
Degree(n) == Cardinality({e \in given : e[1] = n}) + Cardinality({e \in given : e[2] = n})
\* _open: only work has a lifecycle.
Open(n) == nature[n] \in {"running", "queued"}
Rank(n) == IF nature[n] = "running" THEN 0 ELSE 5

Lexical(a, b) == \E i \in DOMAIN a : a[i] < b[i] /\ \A j \in 1 .. i - 1 : a[j] = b[j]
Ordered(S, K(_)) == SetToSortSeq(S, LAMBDA a, b : Lexical(K(a), K(b)))

\* _frontier_key
FrontierKey(n) == <<Rank(n), -Degree(n), n>>

\* Half of the cap is open work; the rest goes by how much a node connects to it.
Reserve ==
  LET open == {n \in Eligible : Open(n)} IN
  SubSeq(Ordered(open, FrontierKey), 1,
         IF Cardinality(open) < caps.nodes \div 2 THEN Cardinality(open) ELSE caps.nodes \div 2)
Adjacent(n) == Cardinality({e \in given : e[1] \in ToSet(Reserve) /\ e[2] = n})
             + Cardinality({e \in given : e[2] \in ToSet(Reserve) /\ e[1] = n})
FillKey(n) == <<-Adjacent(n), -Degree(n), n>>
Admission == Reserve \o Ordered(Eligible \ ToSet(Reserve), FillKey)

EligibleEdges == {e \in given : e[1] \in Eligible /\ e[2] \in Eligible}
Prefix(s, n) == SubSeq(s, 1, IF Len(s) < n THEN Len(s) ELSE n)

\* An edge needs both of its ends.
BothKept(e, nodes) == e[1] \in nodes /\ e[2] \in nodes

\* The caps on nodes and edges.
Cut ==
  LET nodes == Prefix(Admission, caps.nodes)
      within == {e \in EligibleEdges : BothKept(e, ToSet(nodes))}
      edges == Prefix(Ordered(within, LAMBDA e : e), caps.edges) IN
  /\ phase = "read" /\ phase' = "edges" /\ outNodes' = nodes /\ outEdges' = edges
  /\ leftNodes' = Population - Len(nodes) /\ leftEdges' = Cardinality(given) - Len(edges)
  /\ UNCHANGED <<nature, twice, given, caps>>

Size == NodeUnit * Len(outNodes) + Len(outEdges)

\* The cap on bytes: edges go first, from the end.
TrimEdges ==
  /\ phase = "edges"
  /\ IF outEdges # << >> /\ Size > caps.bytes
     THEN outEdges' = Front(outEdges) /\ leftEdges' = leftEdges + 1 /\ UNCHANGED phase
     ELSE phase' = "nodes" /\ UNCHANGED <<outEdges, leftEdges>>
  /\ UNCHANGED <<nature, twice, given, caps, outNodes, leftNodes>>
\* Then nodes, and with each the edges it ends.
TrimNodes ==
  /\ phase = "nodes"
  /\ IF outNodes # << >> /\ Size > caps.bytes
     THEN LET nodes == Front(outNodes)
              kept == SelectSeq(outEdges, LAMBDA e : BothKept(e, ToSet(nodes))) IN
          /\ outNodes' = nodes /\ leftNodes' = leftNodes + 1
          /\ outEdges' = kept /\ leftEdges' = leftEdges + Len(outEdges) - Len(kept) /\ UNCHANGED phase
     ELSE phase' = "done" /\ UNCHANGED <<outNodes, leftNodes, outEdges, leftEdges>>
  /\ UNCHANGED <<nature, twice, given, caps>>

EnvNext == Cut \/ TrimEdges \/ TrimNodes

\* open_emitted and open_omitted of the receipt: every emitted node counts
\* whose status is not terminal, an artifact's empty one included.
OpenEmitted == Cardinality({n \in ToSet(outNodes) : nature[n] # "done"})
OpenOmitted == Cardinality({n \in Eligible : Open(n)}) - OpenEmitted

-----------------------------------------------------------------------------
(* The bundle.                                                             *)

\* _project_to_envelope: nothing emitted, or nothing matched, leaves it whole.
Keep == IF outNodes = << >> THEN NodeId ELSE ToSet(outNodes)
BundleNodes == Keep
BundleEdges == IF outNodes = << >> THEN given ELSE {e \in given : BothKept(e, Keep)}

-----------------------------------------------------------------------------
(* Properties.                                                             *)

BothEndsOut(e) == e[1] \in ToSet(outNodes) /\ e[2] \in ToSet(outNodes)

\* What is emitted and what is counted as omitted add up to the graph, after
\* every cap and every trim, and nothing emitted points outside
\* (build_graph_envelope, _project_to_envelope).
EnvelopeAccounts ==
  phase = "done" =>
    /\ Len(outNodes) + leftNodes = Population /\ Len(outEdges) + leftEdges = Cardinality(given)
    /\ outNodes # << >> => Size <= caps.bytes
    /\ \A e \in ToSet(outEdges) : BothEndsOut(e)
    /\ outNodes # << >> => ToSet(outEdges) \subseteq BundleEdges /\ \A e \in BundleEdges : BothEndsOut(e)

\* Running work is on the map whenever two nodes fit, however little it is
\* connected yet (open_reserve in build_graph_envelope).
RunningIsDrawn ==
  phase = "done" /\ Len(outNodes) >= 2 /\ (\E n \in Eligible : nature[n] = "running")
    => \E n \in ToSet(outNodes) : nature[n] = "running"

\* The analysis and the drawing of the graph account for every row: mutual
\* components, a schedule of resolved rows only, an envelope that adds up and
\* shows running work.
GraphAccounts == ComponentsAreMutual /\ ScheduledIsResolved /\ EnvelopeAccounts /\ RunningIsDrawn
=============================================================================
