----------------------------- MODULE MCServing ------------------------------
(* What callers are served, in one run: the MCP tools on claims and messages, *)
(* the cockpit, the import of jobs and local models.                          *)
EXTENDS ClaimTools, PostTools, CockpitRows, Ingest, ModelRuns, TLC
CONSTANTS Parts, row1, row2
VARIABLE part

OwnScope == [s \in Session |-> IF s = "s1" THEN {"src/"} ELSE {"src/a"}]
OnePrefix == {<<"src/", "src/a">>}
OneLane == [c \in Client |-> "claude"]
\* Two sessions of a lane use one operation id; a note goes to the lane or to a session.
SomeWishes ==
  {[tool |-> "handoff", by |-> c, op |-> "op1", text |-> "t", to |-> "codex"] : c \in Client}
  \cup {[tool |-> "verdict", by |-> "c2", op |-> "op1", text |-> "t", to |-> "codex"]}
  \cup {[tool |-> "note", by |-> "c1", op |-> "n", text |-> "t", to |-> a] : a \in {"codex", "s9"}}
  \cup {[tool |-> t, by |-> "c1", op |-> "n", text |-> "t", to |-> "codex"] : t \in {"audit_request", "decision"}}

\* The backlog names each row the parent of the other.
CrossedBacklog == [w \in WorkId |-> IF w = "w1" THEN [intent |-> "done", parent |-> "w2"]
                                  ELSE [intent |-> "queued", parent |-> "w1"]]
OneEnded == [r \in ImportRun |-> [work |-> "w1", over |-> r = "j1"]]

servingVars == <<toolVars, proofVars, postVars, cockpitVars, groupVars, ingestVars,
                modelVars, part>>
\* The parts share no state: a behaviour runs one of them, the others stand at
\* one initial state.
Init ==
  /\ ToolInit /\ ProofInit /\ PostInit /\ ModelInit /\ part \in Parts
  /\ CockpitInit /\ (part = "cockpit" \/ writes = [face |-> FALSE, server |-> FALSE])
  /\ IF part = "groups" THEN GroupInit ELSE registry = << >> /\ owners = {} /\ groups = << >>
  /\ IngestInit /\ (part = "ingest" \/ alive = {})
\* All parts but one stand still.
Only(p) ==
  /\ part = p /\ UNCHANGED part
  /\ IF p = "tools" THEN TRUE ELSE UNCHANGED toolVars
  /\ IF p = "proof" THEN TRUE ELSE UNCHANGED proofVars
  /\ IF p = "posts" THEN TRUE ELSE UNCHANGED postVars
  /\ IF p = "cockpit" THEN TRUE ELSE UNCHANGED cockpitVars
  /\ IF p = "groups" THEN TRUE ELSE UNCHANGED groupVars
  /\ IF p = "ingest" THEN TRUE ELSE UNCHANGED ingestVars
  /\ IF p = "models" THEN TRUE ELSE UNCHANGED modelVars
Next ==
  \/ Only("tools") /\ ToolNext
  \/ Only("proof") /\ ProofNext
  \/ Only("posts") /\ PostNext
  \/ Only("cockpit") /\ CockpitNext
  \/ Only("groups") /\ GroupNext
  \/ Only("ingest") /\ IngestNext
  \/ Only("models") /\ ModelNext
\* The rows of the claim tools are interchangeable.
ServingSymmetry == Permutations(Row)

Spec == Init /\ [][Next]_servingVars
=============================================================================
