----------------------------- MODULE ModelRuns ------------------------------
(***************************************************************************)
(* `coord-models run`: a caller validates its request, holds the lock file *)
(* of the GPU (jobs/resource_lock.py) and runs the model behind a run, a   *)
(* claim and a session of the board (modeld_lite.py, mlx_runner.py).       *)
(*                                                                         *)
(* Callers share one work row and one lock path.  A caller runs under the  *)
(* chat it was started from or under a session of its own, named like it.  *)
(* Some other program may remove the lock file at any moment.              *)
(***************************************************************************)
EXTENDS Integers, FiniteSets

CONSTANTS
  Caller,     \* processes of coord-models
  Requests,   \* what they ask: a set of "gpu" (a GPU model) and "chat" (the chat's session)
  MaxInode,   \* bound on the files made at the lock path
  MaxEpoch    \* bound on the claims made

HostChat == "chat"
ASSUME ModelAssumption ==
  MaxInode \in Nat /\ MaxEpoch \in Nat /\ HostChat \notin Caller /\ "" \notin Caller

VARIABLES
  request,    \* of each caller: where it is and what it holds
  lockPath,   \* the inode at the lock path, 0 when there is none
  inodes,     \* how many were made
  flock,      \* who has each inode locked
  receipt,    \* whose token each inode holds
  chatState,  \* the sessions: none, active or ended
  modelRun,   \* the run row of each caller
  lease,      \* the held claim of the row: [id, by, lapsed]
  epochs,     \* how many claims were made
  intent      \* intent_state of the row

modelVars == <<request, lockPath, inodes, flock, receipt, chatState, modelRun,
               lease, epochs, intent>>

Inode == 1..MaxInode
NoLease == [id |-> 0, by |-> "", lapsed |-> FALSE]

Unasked(c) == [at |-> "idle", gpu |-> FALSE, sess |-> c, ino |-> 0, verified |-> FALSE, cut |-> FALSE,
               pre |-> FALSE, claim |-> 0, ok |-> FALSE, errors |-> FALSE]

ModelInit ==
  /\ request = [c \in Caller |-> Unasked(c)]
  /\ lockPath = 0 /\ inodes = 0
  /\ flock = [i \in Inode |-> ""] /\ receipt = [i \in Inode |-> ""]
  /\ chatState = [s \in Caller \cup {HostChat} |-> "none"]
  /\ modelRun = [c \in Caller |-> "none"]
  /\ lease = NoLease /\ epochs = 0 /\ intent = "queued"

CallAt(c, pc) == request[c].at = pc
CallGoes(c, pc) == request' = [request EXCEPT ![c].at = pc]
lockVars == <<lockPath, inodes, flock, receipt>>
boardVars == <<chatState, modelRun, lease, epochs, intent>>

\* What the file locks of a process come to when it closes its descriptor.
Unlocked(c) == [i \in Inode |-> IF flock[i] = c THEN "" ELSE flock[i]]

-----------------------------------------------------------------------------
(* The lock.                                                               *)

\* A request is chosen a model, which may need the GPU, and the session comes
\* from --session-id, the environment or is made up.
Asks(c) ==
  /\ CallAt(c, "idle")
  /\ \E r \in Requests :
       request' = [request EXCEPT ![c].at = IF "gpu" \in r THEN "opens" ELSE "checks",
                                  ![c].gpu = "gpu" \in r, ![c].sess = IF "chat" \in r THEN HostChat ELSE c]
  /\ UNCHANGED <<lockVars, boardVars>>

\* open("a+") takes the file at the path, or makes one.
OpensLock(c) ==
  /\ CallAt(c, "opens")
  /\ \/ lockPath # 0 /\ UNCHANGED <<lockPath, inodes>>
     \/ lockPath = 0 /\ inodes < MaxInode /\ lockPath' = inodes + 1 /\ inodes' = inodes + 1
  /\ request' = [request EXCEPT ![c].at = "flocks", ![c].ino = lockPath']
  /\ UNCHANGED <<flock, receipt, boardVars>>

\* flock without waiting, then the receipt of the holder replaces the text.
TakesLock(c) ==
  /\ CallAt(c, "flocks")
  /\ LET i == request[c].ino
     IN \/ flock[i] # "" /\ CallGoes(c, "refused") /\ UNCHANGED <<flock, receipt>>
        \/ flock[i] = "" /\ CallGoes(c, "checks")
           /\ flock' = [flock EXCEPT ![i] = c] /\ receipt' = [receipt EXCEPT ![i] = c]
  /\ UNCHANGED <<lockPath, inodes, boardVars>>

\* A verification that does not compare the lock held with the file at the path.
HoldsSomeLock(c) == request[c].ino # 0 /\ receipt[request[c].ino] = c
\* verify: the descriptor's file is still the one at the path, with the
\* caller's receipt in it.
LockVerified(c) == request[c].ino # 0 /\ request[c].ino = lockPath /\ receipt[request[c].ino] = c

\* _validate_request may refuse, before anything is written.
ChecksRequest(c) ==
  /\ CallAt(c, "checks")
  /\ CallGoes(c, "refused") \/ CallGoes(c, "verifies")
  /\ UNCHANGED <<lockVars, boardVars>>

\* A GPU model needs the lock verified.
VerifiesLock(c) ==
  /\ CallAt(c, "verifies")
  /\ IF request[c].gpu /\ ~LockVerified(c) THEN CallGoes(c, "refused")
     ELSE request' = [request EXCEPT ![c].at = "policy", ![c].verified = TRUE]
  /\ UNCHANGED <<lockVars, boardVars>>

\* The policy of the boundary may block the run before it starts.
AsksPolicy(c) ==
  /\ CallAt(c, "policy")
  /\ CallGoes(c, "refused") \/ CallGoes(c, "looks")
  /\ UNCHANGED <<lockVars, boardVars>>

\* The file at the path goes: a cleaner of the state directory.  `cut` tells
\* the callers whose verification it undoes.
LockFileRemoved ==
  /\ lockPath # 0 /\ inodes < MaxInode
  /\ lockPath' = 0
  /\ request' = [c \in Caller |-> [request[c] EXCEPT !.cut = @ \/ (request[c].verified /\ request[c].ino = lockPath)]]
  /\ UNCHANGED <<inodes, flock, receipt, boardVars>>

-----------------------------------------------------------------------------
(* MLXRunner.run.                                                          *)

\* A row that is over is refused; whether the session is known is read before
\* it is registered.
LooksAtRow(c) ==
  /\ CallAt(c, "looks")
  /\ \/ intent = "done" /\ CallGoes(c, "refused")
     \/ /\ intent # "done"
        /\ request' = [request EXCEPT ![c].at = "registers", ![c].pre = chatState[request[c].sess] # "none"]
  /\ UNCHANGED <<lockVars, boardVars>>

RegistersSession(c) ==
  /\ CallAt(c, "registers")
  /\ chatState' = [chatState EXCEPT ![request[c].sess] = "active"]
  /\ CallGoes(c, "appears")
  /\ UNCHANGED <<lockVars, modelRun, lease, epochs, intent>>

RunAppears(c) ==
  /\ CallAt(c, "appears")
  /\ modelRun' = [modelRun EXCEPT ![c] = "live"]
  /\ CallGoes(c, "claims")
  /\ UNCHANGED <<lockVars, chatState, lease, epochs, intent>>

\* claim_work gives a session the claim it already runs; another's claim, or
\* a row that is over, refuses it.
RunsAlready(s) == lease.id # 0 /\ ~lease.lapsed /\ lease.by = s
MayClaim == intent # "done" /\ (lease.id = 0 \/ lease.lapsed)
ClaimsRow(c) ==
  /\ CallAt(c, "claims")
  /\ LET s == request[c].sess
     IN \/ /\ RunsAlready(s)
           /\ request' = [request EXCEPT ![c].at = "generates", ![c].claim = lease.id]
           /\ UNCHANGED <<lease, epochs, intent>>
        \/ /\ ~RunsAlready(s) /\ MayClaim /\ epochs < MaxEpoch
           /\ lease' = [id |-> epochs + 1, by |-> s, lapsed |-> FALSE]
           /\ epochs' = epochs + 1 /\ intent' = "running"
           /\ request' = [request EXCEPT ![c].at = "generates", ![c].claim = epochs + 1]
        \/ /\ ~RunsAlready(s) /\ ~MayClaim /\ CallGoes(c, "finalizes")
           /\ UNCHANGED <<lease, epochs, intent>>
  /\ UNCHANGED <<lockVars, chatState, modelRun>>

\* The heartbeat, the model and the events of its result; any may raise.
Generates(c) ==
  /\ CallAt(c, "generates")
  /\ \E ok \in BOOLEAN : request' = [request EXCEPT ![c].at = "finalizes", ![c].ok = ok]
  /\ UNCHANGED <<lockVars, boardVars>>

\* The finally block: each of its three steps may fail and the next is tried
\* all the same.
FinalizesRun(c) ==
  /\ CallAt(c, "finalizes")
  /\ \/ /\ modelRun' = [modelRun EXCEPT ![c] = IF @ # "live" THEN @ ELSE IF request[c].ok THEN "done" ELSE "failed"]
        /\ CallGoes(c, "releases")
     \/ request' = [request EXCEPT ![c].at = "releases", ![c].errors = TRUE] /\ UNCHANGED modelRun
  /\ UNCHANGED <<lockVars, chatState, lease, epochs, intent>>

\* Whether the finally block has a claim to give back.
HasClaim(c) == request[c].claim # 0

\* release_claim refuses a claim that ended or lapsed meanwhile; with
\* allow_complete the claim is completed when the row lets it.
ReleasesClaim(c) ==
  /\ CallAt(c, "releases")
  /\ LET mine == lease.id = request[c].claim /\ ~lease.lapsed
     IN \/ ~HasClaim(c) /\ CallGoes(c, "leaves") /\ UNCHANGED <<lease, intent>>
        \/ /\ HasClaim(c) /\ mine /\ lease' = NoLease
           /\ intent' = IF intent = "done" THEN "done" ELSE "queued"
           /\ CallGoes(c, "leaves")
        \/ /\ HasClaim(c) /\ mine /\ request[c].ok /\ lease' = NoLease /\ intent' = "done"
           /\ CallGoes(c, "leaves")
        \/ /\ HasClaim(c)
           /\ request' = [request EXCEPT ![c].at = "leaves", ![c].errors = TRUE]
           /\ UNCHANGED <<lease, intent>>
  /\ UNCHANGED <<lockVars, chatState, modelRun, epochs>>

\* end_session, for a session that was not known before: it orphans the live
\* runs of the session too.
LeavesSession(c) ==
  /\ CallAt(c, "leaves")
  /\ \/ request[c].pre /\ CallGoes(c, "answers") /\ UNCHANGED <<chatState, modelRun>>
     \/ /\ ~request[c].pre
        /\ chatState' = [chatState EXCEPT ![request[c].sess] = "ended"]
        /\ modelRun' = [d \in Caller |-> IF modelRun[d] = "live" /\ request[d].sess = request[c].sess
                                         THEN "orphaned" ELSE modelRun[d]]
        /\ CallGoes(c, "answers")
     \/ /\ ~request[c].pre
        /\ request' = [request EXCEPT ![c].at = "answers", ![c].errors = TRUE]
        /\ UNCHANGED <<chatState, modelRun>>
  /\ UNCHANGED <<lockVars, lease, epochs, intent>>

\* The caller is through: refused, or after the policy of the output, the
\* measurement and the token record (an error of the finally block or of that
\* policy is raised instead).  The with statement gives the lock back.
Answers(c) ==
  /\ request[c].at \in {"refused", "answers"}
  /\ flock' = Unlocked(c)
  /\ request' = [request EXCEPT ![c] = [Unasked(c) EXCEPT !.at = IF request[c].at = "refused" THEN "gone" ELSE "ended",
                                                          !.sess = request[c].sess,
                                                          !.claim = request[c].claim, !.errors = request[c].errors]]
  /\ UNCHANGED <<lockPath, inodes, receipt, boardVars>>

\* The process dies: the system drops its file locks.
CallerDies(c) ==
  /\ request[c].at \notin {"idle", "gone", "ended", "dead"}
  /\ flock' = Unlocked(c)
  /\ request' = [request EXCEPT ![c] = [Unasked(c) EXCEPT !.at = "dead", !.sess = request[c].sess]]
  /\ UNCHANGED <<lockPath, inodes, receipt, boardVars>>

-----------------------------------------------------------------------------
(* The agent in whose chat a caller may have been started.                 *)

AgentArrives ==
  /\ chatState[HostChat] = "none"
  /\ chatState' = [chatState EXCEPT ![HostChat] = "active"]
  /\ UNCHANGED <<request, lockVars, modelRun, lease, epochs, intent>>

AgentClaims ==
  /\ chatState[HostChat] = "active" /\ MayClaim /\ epochs < MaxEpoch
  /\ lease' = [id |-> epochs + 1, by |-> HostChat, lapsed |-> FALSE]
  /\ epochs' = epochs + 1 /\ intent' = "running"
  /\ UNCHANGED <<request, lockVars, chatState, modelRun>>

AgentCloses ==
  /\ RunsAlready(HostChat)
  /\ lease' = NoLease /\ intent' \in {"queued", "done"}
  /\ UNCHANGED <<request, lockVars, chatState, modelRun, epochs>>

\* Nobody renews the claim while the model runs.
ModelLeaseLapses ==
  /\ lease.id # 0 /\ ~lease.lapsed
  /\ lease' = [lease EXCEPT !.lapsed = TRUE]
  /\ UNCHANGED <<request, lockVars, chatState, modelRun, epochs, intent>>

CallerStep(c) ==
  \/ Asks(c) \/ OpensLock(c) \/ TakesLock(c) \/ ChecksRequest(c)
  \/ VerifiesLock(c) \/ AsksPolicy(c)
  \/ LooksAtRow(c) \/ RegistersSession(c) \/ RunAppears(c) \/ ClaimsRow(c) \/ Generates(c)
  \/ FinalizesRun(c) \/ ReleasesClaim(c) \/ LeavesSession(c) \/ Answers(c) \/ CallerDies(c)

ModelNext ==
  \/ \E c \in Caller : CallerStep(c)
  \/ LockFileRemoved \/ AgentArrives \/ AgentClaims \/ AgentCloses \/ ModelLeaseLapses

ModelSpec == ModelInit /\ [][ModelNext]_modelVars

-----------------------------------------------------------------------------
(* Properties.                                                             *)

UsesGPU(c) == request[c].gpu /\ request[c].verified

(* One machine has one GPU: two callers run GPU models at a time only when *)
(* the lock file was removed under one of them after it had verified it.   *)
(* A caller whose file is gone before that is refused (verify).            *)
OneModelAtATime ==
  \A c, d \in Caller : c # d /\ UsesGPU(c) /\ UsesGPU(d) => request[c].cut \/ request[d].cut

(* A call that returned without an error of its finally block, whether the *)
(* model ran or raised, leaves no live run, no claim it took or joined     *)
(* held, and no session of its own open, whatever the agent, the other     *)
(* caller and the lease did meanwhile (_run_with_conn).                    *)
CleanAfterRun ==
  \A c \in Caller : request[c].at = "ended" /\ ~request[c].errors =>
    /\ modelRun[c] # "live"
    /\ request[c].claim # 0 => lease.id # request[c].claim
    /\ chatState[c] # "active"

\* Local models share one GPU and leave the board as clean as they found it
\* (ResourceLock, MLXRunner).
ModelsBehave == OneModelAtATime /\ CleanAfterRun
=============================================================================
