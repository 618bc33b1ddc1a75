---------------------------- MODULE ServingProofs ----------------------------
(***************************************************************************)
(* What callers are served, for every value of the constants: one local    *)
(* model has the GPU at a time and leaves the board clean, who retries a   *)
(* call that posts is answered about that call, the refresh queue loses no *)
(* request where the file lock is available, the tools of a claim tell the *)
(* truth about overlaps and refusals, and the cockpit transfers only rows  *)
(* as they were offered.                                                   *)
(***************************************************************************)
EXTENDS ModelRuns, PostTools, ClaimTools, CockpitRows, ProjectionQueue, TLAPS

-----------------------------------------------------------------------------
(* The refresh queue.                                                      *)

\* What a flush at work knows of the queue and of the rows it read.
Flushing(f) ==
  /\ pc[f] # "idle" => lock = f /\ gen[f] > 0 /\ gen[f] <= queue
  /\ pc[f] = "read" => /\ shown <= snap[f] /\ snap[f] <= board
                       /\ queue = gen[f] => due <= snap[f]
  /\ pc[f] = "written" => (queue = gen[f] => due <= shown)

\* The inductive invariant of the queue: a generation that has not moved since a
\* flush read it means that no request was filed since, and so that the rows read
\* afterwards contain every change that is due.
QueueInv ==
  /\ TypeOK
  /\ shown <= board /\ due <= board
  /\ RefreshNotLost
  /\ \A f \in Flusher : Flushing(f)

LEMMA QueueInit == Init => QueueInv
  BY QueueAssumption DEF Init, QueueInv, TypeOK, RefreshNotLost, Flushing

\* The steps of a writer: a request moves the generation away from every flush.
LEMMA WriterStep ==
  ASSUME QueueInv, NEW w \in Writer, Write(w) \/ RequestRefresh(w) \/ RequestFails(w)
  PROVE  QueueInv' /\ shown' >= shown
<1>1. TypeOK'
  BY DEF QueueInv, TypeOK, Write, RequestRefresh, RequestFails
<1>2. ASSUME NEW f \in Flusher PROVE Flushing(f)'
  BY DEF QueueInv, TypeOK, Flushing, Write, RequestRefresh, RequestFails
<1> QED
  BY <1>1, <1>2 DEF QueueInv, TypeOK, RefreshNotLost, Write, RequestRefresh, RequestFails

\* The steps of a flush.  The lock makes every other flush idle.
LEMMA FlusherStep ==
  ASSUME Locked, QueueInv, NEW f \in Flusher, FlushStep(f) \/ FlushDies(f)
  PROVE  QueueInv' /\ shown' >= shown
<1>1. \A g \in Flusher : g # f => pc[g] = "idle" /\ pc'[g] = "idle"
  BY QueueAssumption
  DEF QueueInv, TypeOK, Flushing, FlushStep, FlushStart, LockFree, RefreshRead,
      RefreshWrite, FlushClear, FlushDies, Forget
<1>2. \A g \in Flusher : g # f => Flushing(g)'
  BY <1>1 DEF Flushing
<1>3. CASE FlushStart(f)
  BY <1>2, <1>3 DEF QueueInv, TypeOK, RefreshNotLost, Flushing, FlushStart, Pending
<1>4. CASE RefreshRead(f)
  BY <1>2, <1>4 DEF QueueInv, TypeOK, RefreshNotLost, Flushing, RefreshRead
<1>5. CASE RefreshWrite(f)
  <2>1. Flushing(f)' /\ TypeOK'
    BY <1>5 DEF QueueInv, TypeOK, Flushing, RefreshWrite
  <2> QED BY <1>2, <1>5, <2>1 DEF QueueInv, TypeOK, RefreshNotLost, Flushing, RefreshWrite
<1>6. CASE FlushClear(f)
  <2>1. pc'[f] = "idle" /\ TypeOK'
    BY <1>6 DEF QueueInv, TypeOK, FlushClear, Forget, Cleared
  <2>2. RefreshNotLost'
    BY <1>6 DEF QueueInv, TypeOK, RefreshNotLost, Flushing, FlushClear, Cleared
  <2> QED BY <1>2, <1>6, <2>1, <2>2 DEF QueueInv, TypeOK, Flushing, FlushClear
<1>7. CASE FlushDies(f)
  <2>1. pc'[f] = "idle" /\ TypeOK'
    BY <1>7 DEF QueueInv, TypeOK, FlushDies, Forget
  <2> QED BY <1>2, <1>7, <2>1 DEF QueueInv, TypeOK, RefreshNotLost, Flushing, FlushDies
<1> QED BY <1>3, <1>4, <1>5, <1>6, <1>7 DEF FlushStep

LEMMA QueueNext ==
  ASSUME Locked, QueueInv, [Next]_vars
  PROVE  QueueInv' /\ shown' >= shown
<1>1. CASE UNCHANGED vars
  BY <1>1 DEF vars, QueueInv, TypeOK, RefreshNotLost, Flushing
<1>2. CASE Next
  BY <1>2, WriterStep, FlusherStep DEF Next
<1> QED BY <1>1, <1>2

\* With the lock, an empty queue means that the projection shows every change a
\* request of request_refresh was filed after.
THEOREM RefreshNotLostHolds == ASSUME Locked PROVE Spec => []RefreshNotLost
<1>1. QueueInv => RefreshNotLost
  BY DEF QueueInv
<1>2. QueueInv /\ [Next]_vars => QueueInv'
  BY QueueNext
<1> QED BY <1>1, <1>2, QueueInit, PTL DEF Spec

\* With the lock, no flush replaces the projection by an older one.
THEOREM NeverGoesBackHolds == ASSUME Locked PROVE Spec => NeverGoesBack
<1>1. QueueInv /\ [Next]_vars => QueueInv'
  BY QueueNext
<1>2. QueueInv /\ [Next]_vars => [shown' >= shown]_vars
  BY QueueNext
<1> QED BY <1>1, <1>2, QueueInit, PTL DEF Spec, NeverGoesBack

-----------------------------------------------------------------------------
(* Local models: types.                                                    *)

\* The places of a call, the record of one, and the type of each variable; a
\* number is below the bound that made it (PathType, LeaseType).
Where ==
  {"idle", "opens", "flocks", "checks", "verifies", "policy", "looks", "registers", "appears", "claims",
   "generates", "finalizes", "releases", "leaves", "answers", "refused", "gone", "ended", "dead"}
Request ==
  [at : Where, gpu : BOOLEAN, sess : Caller \cup {HostChat}, ino : Int, verified : BOOLEAN, cut : BOOLEAN,
   pre : BOOLEAN, claim : Int, ok : BOOLEAN, errors : BOOLEAN]
CallType == request \in [Caller -> Request]
PathType == lockPath \in Nat /\ inodes \in Nat /\ lockPath <= inodes /\ inodes <= MaxInode
FlockType == flock \in [Inode -> Caller \cup {""}]
ChatsType == chatState \in [Caller \cup {HostChat} -> {"none", "active", "ended"}]
RunsType == modelRun \in [Caller -> {"none", "live", "done", "failed", "orphaned"}]
Holders == Caller \cup {HostChat, ""}
LeaseType == lease \in [id : Nat, by : Holders, lapsed : BOOLEAN] /\ epochs \in Nat /\ lease.id <= epochs

-----------------------------------------------------------------------------
(* The lock.  A GPU caller past flock holds the lock of the file it        *)
(* opened; once verified, and until that file goes, it is the one at the   *)
(* path.                                                                   *)

HoldsFlock(c) == request[c].ino \in Inode /\ flock[request[c].ino] = c
LockHeld(c) ==
  /\ CallAt(c, "flocks") => request[c].ino \in Inode
  /\ request[c].gpu /\ (request[c].at \in {"checks", "verifies"} \/ request[c].verified) => HoldsFlock(c)
  /\ request[c].at \in {"idle", "opens", "flocks", "checks", "verifies"} => ~request[c].verified
  /\ UsesGPU(c) /\ ~request[c].cut => request[c].ino = lockPath
LockInv == \A c \in Caller : LockHeld(c)

-----------------------------------------------------------------------------
(* The board.  Where a caller is tells what it may still have open.        *)

Unregistered == {"idle", "opens", "flocks", "checks", "verifies", "policy", "looks", "registers", "refused", "gone"}
\* Its session is its own or the chat's, and its own is not known before it
\* registers it.
SessionInv(c) ==
  /\ request[c].pre => request[c].sess = HostChat
  /\ request[c].sess \in {c, HostChat}
  /\ request[c].at \in Unregistered => chatState[c] = "none"
  /\ chatState[c] # "none" => request[c].sess = c
  /\ chatState[c] = "active" => request[c].errors \/ request[c].at \notin {"answers", "ended"}
RunInv(c) ==
  request[c].at \in {"releases", "leaves", "answers", "ended"} /\ ~request[c].errors => modelRun[c] # "live"
ClaimInv(c) ==
  /\ request[c].claim <= epochs
  /\ request[c].at \in {"leaves", "answers", "ended"} /\ ~request[c].errors /\ request[c].claim # 0 =>
       lease.id # request[c].claim
BoardInv == \A c \in Caller : SessionInv(c) /\ RunInv(c) /\ ClaimInv(c)

ModelTypeOK == CallType /\ PathType /\ FlockType /\ ChatsType /\ RunsType /\ LeaseType
ModelInv == ModelTypeOK /\ LockInv /\ BoardInv

\* The claim of a row that is not held has its type.
LEMMA NoLeaseTyped == NoLease \in [id : Nat, by : Holders, lapsed : BOOLEAN] /\ NoLease.id = 0
<1>1. "" \in Holders
  BY DEF Holders
<1> QED BY <1>1 DEF NoLease

\* So has a caller that has asked for nothing.
LEMMA UnaskedTyped == \A c \in Caller : Unasked(c) \in Request
<1>1. "idle" \in Where
  BY DEF Where
<1> QED BY <1>1 DEF Unasked, Request

-----------------------------------------------------------------------------
(* Every step keeps the types.                                             *)

\* What a step of a caller leaves alone: the path is for opening it, the locks
\* for flock and the ends of a call, the board for the steps of a run.
LEMMA CallerFrame ==
  ASSUME NEW c \in Caller, CallerStep(c)
  PROVE /\ OpensLock(c) \/ (lockPath' = lockPath /\ inodes' = inodes)
        /\ TakesLock(c) \/ Answers(c) \/ CallerDies(c) \/ flock' = flock
        /\ RegistersSession(c) \/ LeavesSession(c) \/ chatState' = chatState
        /\ RunAppears(c) \/ FinalizesRun(c) \/ LeavesSession(c) \/ modelRun' = modelRun
        /\ ClaimsRow(c) \/ ReleasesClaim(c) \/ (lease' = lease /\ epochs' = epochs)
BY DEF CallerStep, lockVars, boardVars, Asks, OpensLock, TakesLock, ChecksRequest, VerifiesLock, AsksPolicy,
       LooksAtRow, RegistersSession, RunAppears, ClaimsRow, Generates, FinalizesRun, ReleasesClaim,
       LeavesSession, Answers, CallerDies

\* A file is made at the path by the next inode, within the bound (open "a+").
LEMMA PathStep ==
  ASSUME NEW c \in Caller, CallerStep(c), PathType
  PROVE PathType'
<1>1. CASE OpensLock(c)
  <2>1. \/ lockPath' = lockPath /\ inodes' = inodes
        \/ inodes < MaxInode /\ lockPath' = inodes + 1 /\ inodes' = inodes + 1
    BY <1>1 DEF OpensLock
  <2>2. lockPath \in Nat /\ inodes \in Nat /\ lockPath <= inodes /\ inodes <= MaxInode /\ MaxInode \in Nat
    BY ModelAssumption DEF ModelAssumption, PathType
  <2>3. lockPath' \in Nat /\ inodes' \in Nat
    BY <2>1, <2>2
  <2>4. lockPath' <= inodes' /\ inodes' <= MaxInode
    BY <2>1, <2>2
  <2> QED BY <2>3, <2>4 DEF PathType
<1>2. CASE lockPath' = lockPath /\ inodes' = inodes
  BY <1>2 DEF PathType
<1> QED BY <1>1, <1>2, CallerFrame

\* A file is locked by a caller or by nobody.
LEMMA FlockStep ==
  ASSUME NEW c \in Caller, CallerStep(c), FlockType
  PROVE FlockType'
<1>1. CASE TakesLock(c)
  BY <1>1 DEF TakesLock, FlockType
<1>2. CASE Answers(c) \/ CallerDies(c)
  BY <1>2 DEF Answers, CallerDies, Unlocked, FlockType
<1>3. CASE flock' = flock
  BY <1>3 DEF FlockType
<1> QED BY <1>1, <1>2, <1>3, CallerFrame

\* A session is unknown, active or ended.
LEMMA ChatsStep ==
  ASSUME NEW c \in Caller, CallerStep(c), ChatsType
  PROVE ChatsType'
<1>1. CASE RegistersSession(c)
  BY <1>1 DEF RegistersSession, ChatsType
<1>2. CASE LeavesSession(c)
  BY <1>2 DEF LeavesSession, ChatsType
<1>3. CASE chatState' = chatState
  BY <1>3 DEF ChatsType
<1> QED BY <1>1, <1>2, <1>3, CallerFrame

\* A run row is none, live, or over in one of three ways.
LEMMA RunsStep ==
  ASSUME NEW c \in Caller, CallerStep(c), RunsType
  PROVE RunsType'
<1>1. CASE RunAppears(c)
  BY <1>1 DEF RunAppears, RunsType
<1>2. CASE FinalizesRun(c)
  BY <1>2 DEF FinalizesRun, RunsType
<1>3. CASE LeavesSession(c)
  BY <1>3 DEF LeavesSession, RunsType
<1>4. CASE modelRun' = modelRun
  BY <1>4 DEF RunsType
<1> QED BY <1>1, <1>2, <1>3, <1>4, CallerFrame

\* The claim held is one that was made (claim_work counts them up).
LEMMA LeaseStep ==
  ASSUME CallType, NEW c \in Caller, CallerStep(c), LeaseType
  PROVE LeaseType'
<1>1. CASE lease' = lease /\ epochs' = epochs
  BY <1>1 DEF LeaseType
<1>2. CASE ClaimsRow(c)
  <2>1. \/ lease' = lease /\ epochs' = epochs
        \/ lease' = [id |-> epochs + 1, by |-> request[c].sess, lapsed |-> FALSE] /\ epochs' = epochs + 1
    BY <1>2 DEF ClaimsRow
  <2>2. request[c].sess \in Caller \cup {HostChat} /\ epochs \in Nat
    BY DEF CallType, Request, LeaseType
  <2>3. CASE lease' = [id |-> epochs + 1, by |-> request[c].sess, lapsed |-> FALSE] /\ epochs' = epochs + 1
    <3>1. request[c].sess \in Holders
      BY <2>2 DEF Holders
    <3>2. lease' \in [id : Nat, by : Holders, lapsed : BOOLEAN]
      BY <3>1, <2>2, <2>3
    <3>3. epochs' \in Nat /\ lease'.id <= epochs'
      BY <2>2, <2>3
    <3> QED BY <3>2, <3>3 DEF LeaseType
  <2> QED BY <2>1, <2>3, <1>1
<1>3. CASE ReleasesClaim(c)
  <2>1. lease' \in {lease, NoLease} /\ epochs' = epochs
    BY <1>3 DEF ReleasesClaim
  <2> QED BY <2>1, NoLeaseTyped DEF LeaseType
<1> QED BY <1>1, <1>2, <1>3, CallerFrame

\* A request that goes on to another place stays one.
LEMMA GoesTyped ==
  ASSUME CallType, NEW c \in Caller, NEW step \in Where
  PROVE /\ [request[c] EXCEPT !.at = step] \in Request
        /\ [request[c] EXCEPT !.at = step, !.errors = TRUE] \in Request
        /\ [request[c] EXCEPT !.at = step, !.verified = TRUE] \in Request
<1>1. request[c] \in Request
  BY DEF CallType
<1>2. [request[c] EXCEPT !.at = step] \in Request
  BY <1>1 DEF Request
<1>3. [request[c] EXCEPT !.at = step, !.errors = TRUE] \in Request
  BY <1>1 DEF Request
<1>4. [request[c] EXCEPT !.at = step, !.verified = TRUE] \in Request
  BY <1>1 DEF Request
<1> QED BY <1>2, <1>3, <1>4

\* A step of a caller leaves its request one.
LEMMA CallStep ==
  ASSUME CallType, PathType, LeaseType, NEW c \in Caller, CallerStep(c)
  PROVE CallType'
<1>1. request[c] \in Request
  BY DEF CallType
<1>2. /\ {"idle", "opens", "flocks", "checks", "verifies", "policy", "looks", "registers", "appears"} \subseteq Where
      /\ {"claims", "generates", "finalizes", "releases", "leaves", "answers"} \subseteq Where
      /\ {"refused", "gone", "ended", "dead"} \subseteq Where
  BY DEF Where
<1>3. SUFFICES \E r \in Request : request' = [request EXCEPT ![c] = r]
  BY DEF CallType
<1>4. CASE Asks(c)
  <2>1. PICK r \in Requests : request' = [request EXCEPT ![c] = [request[c] EXCEPT
          !.at = IF "gpu" \in r THEN "opens" ELSE "checks", !.gpu = "gpu" \in r,
          !.sess = IF "chat" \in r THEN HostChat ELSE c]]
    BY <1>4, ZenonT(40) DEF Asks
  <2> DEFINE p == IF "gpu" \in r THEN "opens" ELSE "checks"
             b == "gpu" \in r
             s == IF "chat" \in r THEN HostChat ELSE c
  <2>2. request' = [request EXCEPT ![c] = [request[c] EXCEPT !.at = p, !.gpu = b, !.sess = s]]
    BY <2>1
  <2>3. p \in Where /\ b \in BOOLEAN /\ s \in Caller \cup {HostChat}
    BY <1>2
  <2> HIDE DEF p, b, s
  <2>4. [request[c] EXCEPT !.at = p, !.gpu = b, !.sess = s] \in Request
    BY <1>1, <2>3 DEF Request
  <2> QED BY <2>2, <2>4
<1>5. CASE OpensLock(c)
  <2>1. request' = [request EXCEPT ![c] = [request[c] EXCEPT !.at = "flocks", !.ino = lockPath']]
    BY <1>5 DEF OpensLock
  <2>2. lockPath' \in Int
    BY PathStep DEF PathType
  <2>3. [request[c] EXCEPT !.at = "flocks", !.ino = lockPath'] \in Request
    BY <1>1, <1>2, <2>2 DEF Request
  <2> QED BY <2>1, <2>3
<1>6. CASE TakesLock(c) \/ ChecksRequest(c) \/ AsksPolicy(c) \/ RegistersSession(c) \/ RunAppears(c)
  <2>1. \E step \in {"refused", "checks", "verifies", "looks", "appears", "claims"} : CallGoes(c, step)
    BY <1>6 DEF TakesLock, ChecksRequest, AsksPolicy, RegistersSession, RunAppears
  <2> QED BY <1>2, <2>1, GoesTyped DEF CallGoes
<1>7. CASE FinalizesRun(c) \/ ReleasesClaim(c) \/ LeavesSession(c)
  <2> DEFINE fails(step) == request' = [request EXCEPT ![c] = [request[c] EXCEPT !.at = step, !.errors = TRUE]]
  <2>1. CASE FinalizesRun(c)
    <3>1. CallGoes(c, "releases") \/ fails("releases")
      BY <2>1 DEF FinalizesRun
    <3> QED BY <1>2, <3>1, GoesTyped DEF CallGoes
  <2>2. CASE ReleasesClaim(c)
    <3>1. CallGoes(c, "leaves") \/ fails("leaves")
      BY <2>2 DEF ReleasesClaim
    <3> QED BY <1>2, <3>1, GoesTyped DEF CallGoes
  <2>3. CASE LeavesSession(c)
    <3>1. CallGoes(c, "answers") \/ fails("answers")
      BY <2>3 DEF LeavesSession
    <3> QED BY <1>2, <3>1, GoesTyped DEF CallGoes
  <2> QED BY <1>7, <2>1, <2>2, <2>3
<1>8. CASE VerifiesLock(c)
  <2>1. \/ CallGoes(c, "refused")
        \/ request' = [request EXCEPT ![c] = [request[c] EXCEPT !.at = "policy", !.verified = TRUE]]
    BY <1>8 DEF VerifiesLock
  <2> QED BY <1>2, <2>1, GoesTyped DEF CallGoes
<1>9. CASE LooksAtRow(c)
  <2> DEFINE b == chatState[request[c].sess] # "none"
  <2>1. CallGoes(c, "refused")
        \/ request' = [request EXCEPT ![c] = [request[c] EXCEPT !.at = "registers", !.pre = b]]
    BY <1>9 DEF LooksAtRow
  <2>2. b \in BOOLEAN
    OBVIOUS
  <2> HIDE DEF b
  <2>3. [request[c] EXCEPT !.at = "registers", !.pre = b] \in Request
    BY <1>1, <1>2, <2>2 DEF Request
  <2> QED BY <1>2, <2>1, <2>3, GoesTyped DEF CallGoes
<1>10. CASE ClaimsRow(c)
  <2> DEFINE n == lease.id
             m == epochs + 1
  <2>1. \/ request' = [request EXCEPT ![c] = [request[c] EXCEPT !.at = "generates", !.claim = n]]
        \/ request' = [request EXCEPT ![c] = [request[c] EXCEPT !.at = "generates", !.claim = m]]
        \/ CallGoes(c, "finalizes")
    BY <1>10 DEF ClaimsRow
  <2>2. n \in Int /\ m \in Int
    BY DEF LeaseType
  <2> HIDE DEF n, m
  <2>3. [request[c] EXCEPT !.at = "generates", !.claim = n] \in Request
    BY <1>1, <1>2, <2>2 DEF Request
  <2>4. [request[c] EXCEPT !.at = "generates", !.claim = m] \in Request
    BY <1>1, <1>2, <2>2 DEF Request
  <2> QED BY <1>2, <2>1, <2>3, <2>4, GoesTyped DEF CallGoes
<1>11. CASE Generates(c)
  <2>1. PICK ok \in BOOLEAN : request' = [request EXCEPT ![c] = [request[c] EXCEPT !.at = "finalizes", !.ok = ok]]
    BY <1>11 DEF Generates
  <2>2. [request[c] EXCEPT !.at = "finalizes", !.ok = ok] \in Request
    BY <1>1, <1>2 DEF Request
  <2> QED BY <2>1, <2>2
<1>12. CASE Answers(c)
  <2> DEFINE step == IF request[c].at = "refused" THEN "gone" ELSE "ended"
  <2>1. request' = [request EXCEPT ![c] = [Unasked(c) EXCEPT
          !.at = step, !.sess = request[c].sess, !.claim = request[c].claim, !.errors = request[c].errors]]
    BY <1>12 DEF Answers
  <2>2. step \in Where
    BY <1>2
  <2>3. request[c].sess \in Caller \cup {HostChat} /\ request[c].claim \in Int /\ request[c].errors \in BOOLEAN
    BY <1>1 DEF Request
  <2> HIDE DEF step
  <2>4. [Unasked(c) EXCEPT !.at = step, !.sess = request[c].sess, !.claim = request[c].claim,
                           !.errors = request[c].errors] \in Request
    BY <2>2, <2>3, UnaskedTyped DEF Request
  <2> QED BY <2>1, <2>4
<1>13. CASE CallerDies(c)
  <2>1. request' = [request EXCEPT ![c] = [Unasked(c) EXCEPT !.at = "dead", !.sess = request[c].sess]]
    BY <1>13 DEF CallerDies
  <2>2. request[c].sess \in Caller \cup {HostChat}
    BY <1>1 DEF Request
  <2>3. [Unasked(c) EXCEPT !.at = "dead", !.sess = request[c].sess] \in Request
    BY <2>2, <1>2, UnaskedTyped DEF Request
  <2> QED BY <2>1, <2>3
<1> QED BY <1>4, <1>5, <1>6, <1>7, <1>8, <1>9, <1>10, <1>11, <1>12, <1>13 DEF CallerStep

-----------------------------------------------------------------------------
(* Every step keeps the four parts of the invariant.                       *)

\* A step of a caller leaves every caller with the lock its place says: flock
\* gives a file to one caller only, and the path stays while its file is there.
LEMMA LockStep ==
  ASSUME CallType, NEW c \in Caller, CallerStep(c), NEW d \in Caller, PathType, FlockType, LockHeld(c), LockHeld(d)
  PROVE LockHeld(d)'
<1>1. CASE Asks(c)
  BY <1>1 DEF Asks, CallType, Request, CallGoes, LockHeld, lockVars, CallAt, HoldsFlock, UsesGPU
<1>2. CASE OpensLock(c)
  <2>0. /\ flock' = flock /\ (lockPath # 0 => lockPath' = lockPath)
        /\ lockPath' # 0
    BY <1>2 DEF OpensLock, PathType
  <2>a. PathType' /\ MaxInode \in Nat
    BY PathStep, ModelAssumption DEF ModelAssumption
  <2>1. flock' = flock /\ (lockPath # 0 => lockPath' = lockPath) /\ lockPath' \in Inode /\ 0 \notin Inode
    BY <2>0, <2>a DEF PathType, Inode
  <2>2. request'[c] = [request[c] EXCEPT !.at = "flocks", !.ino = lockPath'] /\ request[c].at = "opens"
    BY <1>2 DEF OpensLock, CallType, CallAt
  <2>3. d # c => request'[d] = request[d]
    BY <1>2 DEF OpensLock, CallType
  <2>4. request[c] \in Request /\ request[d] \in Request
    BY DEF CallType
  <2>5. CASE d = c
    BY <2>1, <2>2, <2>4, <2>5 DEF Request, LockHeld, CallAt, HoldsFlock, UsesGPU
  <2>6. CASE d # c
    BY <2>1, <2>3, <2>4, <2>6 DEF LockHeld, CallAt, HoldsFlock, UsesGPU
  <2> QED BY <2>5, <2>6
<1>3. CASE TakesLock(c)
  <2>1. lockPath' = lockPath /\ request[c].at = "flocks" /\ request[c].ino \in Inode
    BY <1>3 DEF TakesLock, LockHeld, CallAt
  <2>2. \/ flock' = flock /\ request'[c] = [request[c] EXCEPT !.at = "refused"]
        \/ /\ flock[request[c].ino] = "" /\ flock' = [flock EXCEPT ![request[c].ino] = c]
           /\ request'[c] = [request[c] EXCEPT !.at = "checks"]
    BY <1>3 DEF TakesLock, CallType, CallGoes
  <2>3. d # c => request'[d] = request[d]
    BY <1>3 DEF TakesLock, CallType, CallGoes
  <2>4. request[c] \in Request /\ request[d] \in Request /\ d # ""
    BY ModelAssumption DEF CallType, ModelAssumption
  <2>5. CASE d = c
    <3>1. ~request[c].verified
      BY <2>1 DEF LockHeld
    <3>2. CASE request'[c] = [request[c] EXCEPT !.at = "refused"]
      BY <2>4, <2>5, <3>1, <3>2 DEF Request, LockHeld, CallAt, HoldsFlock, UsesGPU
    <3>3. CASE flock' = [flock EXCEPT ![request[c].ino] = c] /\ request'[c] = [request[c] EXCEPT !.at = "checks"]
      <4>1. flock'[request[c].ino] = c
        BY <2>1, <3>3 DEF FlockType
      <4> QED BY <2>1, <2>4, <2>5, <3>1, <3>3, <4>1 DEF Request, LockHeld, CallAt, HoldsFlock, UsesGPU
    <3> QED BY <2>2, <3>2, <3>3
  <2>6. CASE d # c
    BY <2>1, <2>2, <2>3, <2>4, <2>6 DEF FlockType, LockHeld, CallAt, HoldsFlock, UsesGPU
  <2> QED BY <2>5, <2>6
<1>4. CASE ChecksRequest(c)
  BY <1>4 DEF ChecksRequest, CallType, Request, CallGoes, LockHeld, lockVars, CallAt, HoldsFlock, UsesGPU
<1>5. CASE VerifiesLock(c)
  BY <1>5 DEF VerifiesLock, LockVerified, CallType, Request, CallGoes, LockHeld, lockVars, CallAt, HoldsFlock, UsesGPU
<1>6. CASE AsksPolicy(c)
  BY <1>6 DEF AsksPolicy, CallType, Request, CallGoes, LockHeld, lockVars, CallAt, HoldsFlock, UsesGPU
<1>7. CASE LooksAtRow(c)
  BY <1>7 DEF LooksAtRow, CallType, Request, CallGoes, LockHeld, lockVars, CallAt, HoldsFlock, UsesGPU
<1>8. CASE RegistersSession(c)
  BY <1>8 DEF RegistersSession, CallType, Request, CallGoes, LockHeld, lockVars, CallAt, HoldsFlock, UsesGPU
<1>9. CASE RunAppears(c)
  BY <1>9 DEF RunAppears, CallType, Request, CallGoes, LockHeld, lockVars, CallAt, HoldsFlock, UsesGPU
<1>10. CASE ClaimsRow(c)
  BY <1>10 DEF ClaimsRow, RunsAlready, MayClaim, CallType, Request, CallGoes, LockHeld, lockVars, CallAt, HoldsFlock, UsesGPU
<1>11. CASE Generates(c)
  BY <1>11 DEF Generates, CallType, Request, CallGoes, LockHeld, lockVars, CallAt, HoldsFlock, UsesGPU
<1>12. CASE FinalizesRun(c)
  BY <1>12 DEF FinalizesRun, CallType, Request, CallGoes, LockHeld, lockVars, CallAt, HoldsFlock, UsesGPU
<1>13. CASE ReleasesClaim(c)
  <2>1. flock' = flock /\ lockPath' = lockPath
    BY <1>13 DEF ReleasesClaim, lockVars
  <2>2. \/ request' = [request EXCEPT ![c].at = "leaves"]
        \/ request' = [request EXCEPT ![c].at = "leaves", ![c].errors = TRUE]
    BY <1>13 DEF ReleasesClaim, CallGoes
  <2> QED BY <2>1, <2>2, <1>13 DEF CallType, Request, LockHeld, CallAt, HoldsFlock, UsesGPU
<1>14. CASE LeavesSession(c)
  BY <1>14 DEF LeavesSession, CallType, Request, CallGoes, LockHeld, lockVars, CallAt, HoldsFlock, UsesGPU
<1>15. CASE Answers(c)
  BY <1>15 DEF Answers, Unlocked, Unasked, CallType, Request, CallGoes, LockHeld, lockVars, CallAt, HoldsFlock, UsesGPU
<1>16. CASE CallerDies(c)
  BY <1>16 DEF CallerDies, Unlocked, Unasked, CallType, Request, CallGoes, LockHeld, lockVars, CallAt, HoldsFlock, UsesGPU
<1> QED BY <1>1, <1>2, <1>3, <1>4, <1>5, <1>6, <1>7, <1>8, <1>9, <1>10, <1>11, <1>12, <1>13, <1>14, <1>15, <1>16 DEF CallerStep

\* Nor does it give a caller another's session: end_session ends the one the
\* caller registered, which is the chat's or carries the caller's name.
LEMMA SessionStep ==
  ASSUME CallType, NEW c \in Caller, CallerStep(c), NEW d \in Caller, ChatsType, SessionInv(c), SessionInv(d)
  PROVE SessionInv(d)'
<1>1. CASE Asks(c)
  BY <1>1 DEF Asks, CallType, Request, CallGoes, SessionInv, boardVars, CallAt, Unregistered
<1>2. CASE OpensLock(c)
  BY <1>2 DEF OpensLock, CallType, Request, CallGoes, SessionInv, boardVars, CallAt, Unregistered
<1>3. CASE TakesLock(c)
  <2>1. chatState' = chatState /\ request[c].at = "flocks"
    BY <1>3 DEF TakesLock, boardVars, CallAt
  <2>2. \/ request' = [request EXCEPT ![c].at = "refused"]
        \/ request' = [request EXCEPT ![c].at = "checks"]
    BY <1>3 DEF TakesLock, CallGoes
  <2> QED BY <2>1, <2>2 DEF CallType, Request, SessionInv, Unregistered
<1>4. CASE ChecksRequest(c)
  BY <1>4 DEF ChecksRequest, CallType, Request, CallGoes, SessionInv, boardVars, CallAt, Unregistered
<1>5. CASE VerifiesLock(c)
  BY <1>5 DEF VerifiesLock, LockVerified, CallType, Request, CallGoes, SessionInv, boardVars, CallAt, Unregistered
<1>6. CASE AsksPolicy(c)
  BY <1>6 DEF AsksPolicy, CallType, Request, CallGoes, SessionInv, boardVars, CallAt, Unregistered
<1>7. CASE LooksAtRow(c)
  BY <1>7 DEF LooksAtRow, CallType, Request, CallGoes, SessionInv, boardVars, CallAt, Unregistered
<1>8. CASE RegistersSession(c)
  <2>1. /\ request[c].at = "registers" /\ request'[c] = [request[c] EXCEPT !.at = "appears"]
        /\ d # c => request'[d] = request[d]
    BY <1>8 DEF RegistersSession, CallGoes, CallAt, CallType
  <2>2. chatState' = [chatState EXCEPT ![request[c].sess] = "active"] 
    BY <1>8 DEF RegistersSession
  <2>3. request[c].sess \in {c, HostChat} /\ d # HostChat
    BY ModelAssumption DEF SessionInv, ModelAssumption
  <2>4. request[c] \in Request /\ request[d] \in Request
    BY DEF CallType
  <2>5. CASE d = c
    BY <2>1, <2>2, <2>3, <2>4, <2>5 DEF Request, SessionInv, ChatsType, Unregistered
  <2>6. CASE d # c
    <3>1. chatState'[d] = chatState[d]
      BY <2>2, <2>3, <2>6 DEF ChatsType
    <3> QED BY <2>1, <2>6, <3>1 DEF SessionInv
  <2> QED BY <2>5, <2>6
<1>9. CASE RunAppears(c)
  BY <1>9 DEF RunAppears, CallType, Request, CallGoes, SessionInv, boardVars, CallAt, Unregistered
<1>10. CASE ClaimsRow(c)
  BY <1>10 DEF ClaimsRow, RunsAlready, MayClaim, CallType, Request, CallGoes, SessionInv, boardVars, CallAt, Unregistered
<1>11. CASE Generates(c)
  BY <1>11 DEF Generates, CallType, Request, CallGoes, SessionInv, boardVars, CallAt, Unregistered
<1>12. CASE FinalizesRun(c)
  BY <1>12 DEF FinalizesRun, CallType, Request, CallGoes, SessionInv, boardVars, CallAt, Unregistered
<1>13. CASE ReleasesClaim(c)
  <2>2. \/ request' = [request EXCEPT ![c].at = "leaves"]
        \/ request' = [request EXCEPT ![c].at = "leaves", ![c].errors = TRUE]
    BY <1>13 DEF ReleasesClaim, CallGoes
  <2>3. request[c].at = "releases" /\ chatState' = chatState
    BY <1>13 DEF ReleasesClaim, CallAt
  <2> QED BY <2>2, <2>3 DEF CallType, Request, SessionInv, Unregistered
<1>14. CASE LeavesSession(c)
  <2>1. request[c].at = "leaves" /\ (d # c => request'[d] = request[d])
    BY <1>14 DEF LeavesSession, CallGoes, CallAt, CallType
  <2>2. \/ /\ request[c].pre /\ chatState' = chatState /\ request'[c] = [request[c] EXCEPT !.at = "answers"]
        \/ /\ ~request[c].pre /\ chatState' = [chatState EXCEPT ![request[c].sess] = "ended"]
           /\ request'[c] = [request[c] EXCEPT !.at = "answers"]
        \/ /\ ~request[c].pre /\ chatState' = chatState
           /\ request'[c] = [request[c] EXCEPT !.at = "answers", !.errors = TRUE]
    BY <1>14 DEF LeavesSession, CallGoes, CallType
  <2>3. request[c].sess \in {c, HostChat} /\ d # HostChat /\ c # HostChat
    BY ModelAssumption DEF SessionInv, ModelAssumption
  <2>4. request[c] \in Request /\ request[d] \in Request
    BY DEF CallType
  <2>5. CASE d = c
    BY <2>1, <2>2, <2>3, <2>4, <2>5, ZenonT(40) DEF Request, SessionInv, ChatsType, Unregistered
  <2>6. CASE d # c
    <3>0. chatState' = chatState \/ chatState' = [chatState EXCEPT ![request[c].sess] = "ended"]
      BY <2>2
    <3>1. CASE chatState' = [chatState EXCEPT ![request[c].sess] = "ended"]
      <4>0. d # request[c].sess
        BY <2>3, <2>6
      <4>1. chatState'[d] = chatState[d]
        BY <3>1, <4>0 DEF ChatsType
      <4> QED BY <2>1, <2>6, <4>1 DEF SessionInv
    <3>2. CASE chatState' = chatState
      BY <2>1, <2>6, <3>2 DEF SessionInv
    <3> QED BY <3>0, <3>1, <3>2
  <2> QED BY <2>5, <2>6
<1>15. CASE Answers(c)
  BY <1>15 DEF Answers, Unlocked, Unasked, CallType, Request, CallGoes, SessionInv, boardVars, CallAt, Unregistered
<1>16. CASE CallerDies(c)
  BY <1>16 DEF CallerDies, Unlocked, Unasked, CallType, Request, CallGoes, SessionInv, boardVars, CallAt, Unregistered
<1> QED BY <1>1, <1>2, <1>3, <1>4, <1>5, <1>6, <1>7, <1>8, <1>9, <1>10, <1>11, <1>12, <1>13, <1>14, <1>15, <1>16 DEF CallerStep

\* A run row that was finalized, or orphaned by end_session, is not live again.
LEMMA RunInvStep ==
  ASSUME CallType, NEW c \in Caller, CallerStep(c), NEW d \in Caller, RunsType, RunInv(d)
  PROVE RunInv(d)'
<1>1. CASE Asks(c)
  BY <1>1 DEF Asks, CallType, Request, CallGoes, RunInv, boardVars, CallAt, RunsType
<1>2. CASE OpensLock(c)
  BY <1>2 DEF OpensLock, CallType, Request, CallGoes, RunInv, boardVars, CallAt, RunsType
<1>3. CASE TakesLock(c)
  <2>1. modelRun' = modelRun /\ request[c].at = "flocks"
    BY <1>3 DEF TakesLock, boardVars, CallAt
  <2>2. \/ request' = [request EXCEPT ![c].at = "refused"]
        \/ request' = [request EXCEPT ![c].at = "checks"]
    BY <1>3 DEF TakesLock, CallGoes
  <2> QED BY <2>1, <2>2 DEF CallType, Request, RunInv
<1>4. CASE ChecksRequest(c)
  BY <1>4 DEF ChecksRequest, CallType, Request, CallGoes, RunInv, boardVars, CallAt, RunsType
<1>5. CASE VerifiesLock(c)
  BY <1>5 DEF VerifiesLock, LockVerified, CallType, Request, CallGoes, RunInv, boardVars, CallAt, RunsType
<1>6. CASE AsksPolicy(c)
  BY <1>6 DEF AsksPolicy, CallType, Request, CallGoes, RunInv, boardVars, CallAt, RunsType
<1>7. CASE LooksAtRow(c)
  BY <1>7 DEF LooksAtRow, CallType, Request, CallGoes, RunInv, boardVars, CallAt, RunsType
<1>8. CASE RegistersSession(c)
  BY <1>8 DEF RegistersSession, CallType, Request, CallGoes, RunInv, boardVars, CallAt, RunsType
<1>9. CASE RunAppears(c)
  BY <1>9 DEF RunAppears, CallType, Request, CallGoes, RunInv, boardVars, CallAt, RunsType
<1>10. CASE ClaimsRow(c)
  BY <1>10 DEF ClaimsRow, RunsAlready, MayClaim, CallType, Request, CallGoes, RunInv, boardVars, CallAt, RunsType
<1>11. CASE Generates(c)
  BY <1>11 DEF Generates, CallType, Request, CallGoes, RunInv, boardVars, CallAt, RunsType
<1>12. CASE FinalizesRun(c)
  BY <1>12 DEF FinalizesRun, CallType, Request, CallGoes, RunInv, boardVars, CallAt, RunsType
<1>13. CASE ReleasesClaim(c)
  BY <1>13 DEF ReleasesClaim, HasClaim, NoLease, CallType, Request, CallGoes, RunInv, boardVars, CallAt, RunsType
<1>14. CASE LeavesSession(c)
  BY <1>14 DEF LeavesSession, CallType, Request, CallGoes, RunInv, boardVars, CallAt, RunsType
<1>15. CASE Answers(c)
  BY <1>15 DEF Answers, Unlocked, Unasked, CallType, Request, CallGoes, RunInv, boardVars, CallAt, RunsType
<1>16. CASE CallerDies(c)
  BY <1>16 DEF CallerDies, Unlocked, Unasked, CallType, Request, CallGoes, RunInv, boardVars, CallAt, RunsType
<1> QED BY <1>1, <1>2, <1>3, <1>4, <1>5, <1>6, <1>7, <1>8, <1>9, <1>10, <1>11, <1>12, <1>13, <1>14, <1>15, <1>16 DEF CallerStep

\* Once release_claim let go of a claim no later step holds it: a claim made
\* later has a later number.
LEMMA ClaimInvStep ==
  ASSUME CallType, NEW c \in Caller, CallerStep(c), NEW d \in Caller, lease.id \in Nat, epochs \in Nat, lease.id <= epochs, ClaimInv(d)
  PROVE ClaimInv(d)'
<1>1. CASE Asks(c)
  BY <1>1 DEF Asks, CallType, Request, CallGoes, ClaimInv, boardVars, CallAt
<1>2. CASE OpensLock(c)
  BY <1>2 DEF OpensLock, CallType, Request, CallGoes, ClaimInv, boardVars, CallAt
<1>3. CASE TakesLock(c)
  <2>1. epochs' = epochs /\ lease' = lease /\ request[c].at = "flocks"
    BY <1>3 DEF TakesLock, boardVars, CallAt
  <2>2. \/ request' = [request EXCEPT ![c].at = "refused"]
        \/ request' = [request EXCEPT ![c].at = "checks"]
    BY <1>3 DEF TakesLock, CallGoes
  <2> QED BY <2>1, <2>2 DEF CallType, Request, ClaimInv
<1>4. CASE ChecksRequest(c)
  BY <1>4 DEF ChecksRequest, CallType, Request, CallGoes, ClaimInv, boardVars, CallAt
<1>5. CASE VerifiesLock(c)
  BY <1>5 DEF VerifiesLock, LockVerified, CallType, Request, CallGoes, ClaimInv, boardVars, CallAt
<1>6. CASE AsksPolicy(c)
  BY <1>6 DEF AsksPolicy, CallType, Request, CallGoes, ClaimInv, boardVars, CallAt
<1>7. CASE LooksAtRow(c)
  BY <1>7 DEF LooksAtRow, CallType, Request, CallGoes, ClaimInv, boardVars, CallAt
<1>8. CASE RegistersSession(c)
  BY <1>8 DEF RegistersSession, CallType, Request, CallGoes, ClaimInv, boardVars, CallAt
<1>9. CASE RunAppears(c)
  BY <1>9 DEF RunAppears, CallType, Request, CallGoes, ClaimInv, boardVars, CallAt
<1>10. CASE ClaimsRow(c)
  BY <1>10 DEF ClaimsRow, RunsAlready, MayClaim, CallType, Request, CallGoes, ClaimInv, boardVars, CallAt
<1>11. CASE Generates(c)
  BY <1>11 DEF Generates, CallType, Request, CallGoes, ClaimInv, boardVars, CallAt
<1>12. CASE FinalizesRun(c)
  BY <1>12 DEF FinalizesRun, CallType, Request, CallGoes, ClaimInv, boardVars, CallAt
<1>13. CASE ReleasesClaim(c)
  <2>2. \/ request' = [request EXCEPT ![c].at = "leaves"]
        \/ request' = [request EXCEPT ![c].at = "leaves", ![c].errors = TRUE]
    BY <1>13 DEF ReleasesClaim, CallGoes
  <2>3. request[c].at = "releases" /\ epochs' = epochs /\ lease' \in {lease, NoLease} /\ NoLease.id = 0
    BY <1>13 DEF ReleasesClaim, CallAt, NoLease
  <2>a. request[c].claim = 0 \/ lease' = NoLease \/ request' = [request EXCEPT ![c].at = "leaves", ![c].errors = TRUE]
    BY <1>13 DEF ReleasesClaim, HasClaim
  <2>4. request[c].claim # 0 /\ ~request'[c].errors => lease'.id # request[c].claim
    BY <2>3, <2>a DEF CallType, Request
  <2> QED BY <2>2, <2>3, <2>4 DEF CallType, Request, ClaimInv
<1>14. CASE LeavesSession(c)
  BY <1>14 DEF LeavesSession, CallType, Request, CallGoes, ClaimInv, boardVars, CallAt
<1>15. CASE Answers(c)
  BY <1>15 DEF Answers, Unlocked, Unasked, CallType, Request, CallGoes, ClaimInv, boardVars, CallAt
<1>16. CASE CallerDies(c)
  <2>1. request'[c] = [Unasked(c) EXCEPT !.at = "dead", !.sess = request[c].sess] /\ (d # c => request'[d] = request[d])
    BY <1>16 DEF CallerDies, CallType
  <2>2. request'[c].claim = 0 /\ request'[c].at = "dead"
    BY <2>1 DEF Unasked
  <2>3. epochs' = epochs /\ lease' = lease
    BY <1>16 DEF CallerDies, boardVars
  <2>4. CASE d = c
    BY <2>2, <2>3, <2>4 DEF ClaimInv
  <2>5. CASE d # c
    BY <2>1, <2>3, <2>5 DEF ClaimInv
  <2> QED BY <2>4, <2>5
<1> QED BY <1>1, <1>2, <1>3, <1>4, <1>5, <1>6, <1>7, <1>8, <1>9, <1>10, <1>11, <1>12, <1>13, <1>14, <1>15, <1>16 DEF CallerStep


-----------------------------------------------------------------------------
(* The other steps and the theorem.                                        *)

\* When the lock file goes, the callers that had it verified are cut; nothing
\* else of theirs changes.
LEMMA RemovedStep ==
  ASSUME CallType, PathType, LockFileRemoved
  PROVE /\ CallType' /\ PathType'
        /\ \A d \in Caller : LockHeld(d) => LockHeld(d)'
        /\ \A d \in Caller : SessionInv(d) /\ RunInv(d) /\ ClaimInv(d) => (SessionInv(d) /\ RunInv(d) /\ ClaimInv(d))'
<1> DEFINE hit(c) == request[c].cut \/ (request[c].verified /\ request[c].ino = lockPath)
<1>1. request' = [c \in Caller |-> [request[c] EXCEPT !.cut = hit(c)]] /\ lockPath' = 0
  BY DEF LockFileRemoved
<1>2. /\ inodes' = inodes /\ flock' = flock /\ chatState' = chatState /\ modelRun' = modelRun
      /\ lease' = lease /\ epochs' = epochs
  BY DEF LockFileRemoved, boardVars
<1>3. \A c \in Caller : hit(c) \in BOOLEAN
  BY DEF CallType, Request
<1>4. \A c \in Caller : request'[c] = [request[c] EXCEPT !.cut = hit(c)] /\ request[c] \in Request
  BY <1>1 DEF CallType
<1>5. PathType'
  BY <1>1, <1>2 DEF PathType
<1>6. ASSUME NEW d \in Caller, LockHeld(d) PROVE LockHeld(d)'
  <2>1. /\ request'[d].at = request[d].at /\ request'[d].gpu = request[d].gpu /\ request'[d].ino = request[d].ino
        /\ request'[d].verified = request[d].verified
        /\ ~request'[d].cut => ~request[d].cut /\ ~(request[d].verified /\ request[d].ino = lockPath)
    BY <1>4 DEF Request
  <2> QED BY <1>2, <1>6, <2>1 DEF LockHeld, HoldsFlock, UsesGPU, CallAt
<1> HIDE DEF hit
<1>7. \A c \in Caller : [request[c] EXCEPT !.cut = hit(c)] \in Request
  BY <1>3, <1>4 DEF Request
<1>8. CallType'
  BY <1>1, <1>7 DEF CallType
<1>9. ASSUME NEW d \in Caller, SessionInv(d) /\ RunInv(d) /\ ClaimInv(d)
      PROVE (SessionInv(d) /\ RunInv(d) /\ ClaimInv(d))'
  <2>1. /\ request'[d].at = request[d].at /\ request'[d].sess = request[d].sess /\ request'[d].pre = request[d].pre
        /\ request'[d].claim = request[d].claim /\ request'[d].errors = request[d].errors
    BY <1>4 DEF Request
  <2> QED BY <1>2, <1>9, <2>1 DEF SessionInv, RunInv, ClaimInv
<1> QED BY <1>5, <1>6, <1>8, <1>9

\* The agent and the clock leave the callers alone, and a claim the agent makes
\* now is newer than any of theirs.
LEMMA AgentStep ==
  ASSUME ModelInv, AgentArrives \/ AgentClaims \/ AgentCloses \/ ModelLeaseLapses
  PROVE ModelInv'
<1>1. request' = request /\ lockPath' = lockPath /\ inodes' = inodes /\ flock' = flock /\ modelRun' = modelRun
  BY DEF AgentArrives, AgentClaims, AgentCloses, ModelLeaseLapses, lockVars
<1>2. CallType' /\ PathType' /\ FlockType' /\ RunsType' /\ LockInv'
  BY <1>1 DEF ModelInv, ModelTypeOK, CallType, PathType, FlockType, RunsType, LockInv, LockHeld, HoldsFlock, UsesGPU, CallAt
<1>3. ChatsType' /\ \A c \in Caller : chatState'[c] = chatState[c]
  <2>1. chatState' = [chatState EXCEPT ![HostChat] = "active"] \/ chatState' = chatState
    BY DEF AgentArrives, AgentClaims, AgentCloses, ModelLeaseLapses
  <2> QED BY <2>1, ModelAssumption DEF ModelAssumption, ModelInv, ModelTypeOK, ChatsType
<1>4. LeaseType' /\ epochs <= epochs' /\ (lease'.id \in {0, lease.id} \/ lease'.id > epochs)
  <2>0. lease \in [id : Nat, by : Holders, lapsed : BOOLEAN] /\ epochs \in Nat /\ lease.id <= epochs
    BY DEF ModelInv, ModelTypeOK, LeaseType
  <2>1. HostChat \in Holders
    BY DEF Holders
  <2>2. CASE AgentArrives
    BY <2>0, <2>2 DEF AgentArrives, LeaseType
  <2>3. CASE AgentClaims
    <3>1. lease' = [id |-> epochs + 1, by |-> HostChat, lapsed |-> FALSE] /\ epochs' = epochs + 1
      BY <2>3 DEF AgentClaims
    <3>2. epochs + 1 \in Nat
      BY <2>0
    <3>3. lease' \in [id : Nat, by : Holders, lapsed : BOOLEAN]
      BY <2>1, <3>1, <3>2
    <3>4. lease'.id = epochs + 1
      BY <3>1
    <3>5. epochs' \in Nat /\ epochs <= epochs' /\ lease'.id <= epochs' /\ lease'.id > epochs
      BY <2>0, <3>1, <3>4
    <3> QED BY <3>3, <3>5 DEF LeaseType
  <2>4. CASE AgentCloses
    <3>1. lease' = NoLease /\ epochs' = epochs
      BY <2>4 DEF AgentCloses
    <3>2. NoLease \in [id : Nat, by : Holders, lapsed : BOOLEAN] /\ NoLease.id = 0
      BY NoLeaseTyped
    <3> QED BY <2>0, <3>1, <3>2 DEF LeaseType
  <2>5. CASE ModelLeaseLapses
    <3>1. lease' = [lease EXCEPT !.lapsed = TRUE] /\ epochs' = epochs
      BY <2>5 DEF ModelLeaseLapses
    <3>2. lease' \in [id : Nat, by : Holders, lapsed : BOOLEAN] /\ lease'.id = lease.id
      BY <2>0, <3>1
    <3> QED BY <2>0, <3>1, <3>2 DEF LeaseType
  <2> QED BY <2>2, <2>3, <2>4, <2>5
<1>5. ASSUME NEW d \in Caller PROVE SessionInv(d)' /\ RunInv(d)' /\ ClaimInv(d)'
  <2>1. SessionInv(d) /\ RunInv(d) /\ ClaimInv(d)
    BY DEF ModelInv, BoardInv
  <2>2. request[d].claim \in Int /\ epochs \in Nat /\ epochs' \in Nat
    BY <1>4 DEF ModelInv, ModelTypeOK, CallType, Request, LeaseType
  <2>3. SessionInv(d)' /\ RunInv(d)'
    BY <1>1, <1>3, <2>1 DEF SessionInv, RunInv
  <2>4. ClaimInv(d)'
    BY <1>1, <1>4, <2>1, <2>2 DEF ClaimInv
  <2> QED BY <2>3, <2>4
<1> QED BY <1>2, <1>3, <1>4, <1>5 DEF ModelInv, ModelTypeOK, BoardInv

\* The lemmas above, for a step of a caller.
LEMMA CallerKeeps ==
  ASSUME ModelInv, NEW c \in Caller, CallerStep(c)
  PROVE ModelInv'
<1>1. CallType /\ PathType /\ FlockType /\ ChatsType /\ RunsType /\ LeaseType
  BY DEF ModelInv, ModelTypeOK
<1>2. (CallType /\ PathType /\ FlockType /\ ChatsType /\ RunsType /\ LeaseType)'
  BY <1>1, CallStep, PathStep, FlockStep, ChatsStep, RunsStep, LeaseStep
<1>3. ASSUME NEW d \in Caller PROVE LockHeld(d)' /\ SessionInv(d)' /\ RunInv(d)' /\ ClaimInv(d)'
  <2>1. /\ LockHeld(c) /\ LockHeld(d) /\ SessionInv(c) /\ SessionInv(d) /\ RunInv(d) /\ ClaimInv(d)
    BY DEF ModelInv, LockInv, BoardInv
  <2>2. lease.id \in Nat /\ epochs \in Nat /\ lease.id <= epochs
    BY <1>1 DEF LeaseType
  <2> QED BY <1>1, <2>1, <2>2, LockStep, SessionStep, RunInvStep, ClaimInvStep
<1> QED BY <1>2, <1>3 DEF ModelInv, ModelTypeOK, LockInv, BoardInv

\* Nobody has asked for anything yet.
LEMMA ModelStart == ModelInit => ModelInv
<1> SUFFICES ASSUME ModelInit PROVE ModelInv
  OBVIOUS
<1>1. \A c \in Caller : request[c] = Unasked(c)
  BY DEF ModelInit
<1>2. CallType /\ FlockType /\ ChatsType /\ RunsType
  BY UnaskedTyped DEF ModelInit, CallType, FlockType, ChatsType, RunsType
<1>3. PathType
  <2>1. lockPath = 0 /\ inodes = 0
    BY DEF ModelInit
  <2>2. MaxInode \in Nat
    BY ModelAssumption DEF ModelAssumption
  <2> QED BY <2>1, <2>2 DEF PathType
<1>4. LeaseType
  <2>1. lease = NoLease /\ epochs = 0
    BY DEF ModelInit
  <2> QED BY <2>1, NoLeaseTyped DEF LeaseType
<1>5. ASSUME NEW c \in Caller PROVE LockHeld(c) /\ SessionInv(c) /\ RunInv(c) /\ ClaimInv(c)
  <2>1. request[c] = Unasked(c)
    BY <1>1
  <2>2. /\ request[c].at = "idle" /\ ~request[c].verified /\ ~request[c].pre /\ request[c].sess = c
        /\ request[c].claim = 0 /\ ~request[c].errors
    BY <2>1 DEF Unasked
  <2>3. chatState[c] = "none" /\ epochs = 0
    BY DEF ModelInit
  <2> QED BY <2>2, <2>3 DEF LockHeld, SessionInv, RunInv, ClaimInv, CallAt, UsesGPU, Unregistered
<1> QED BY <1>2, <1>3, <1>4, <1>5 DEF ModelInv, ModelTypeOK, LockInv, BoardInv

\* The inductive invariant gives the property: two locks of one file are one.
LEMMA ModelSound == ModelInv => ModelsBehave
<1> SUFFICES ASSUME ModelInv PROVE ModelsBehave
  OBVIOUS
<1>1. OneModelAtATime
  <2>1. SUFFICES ASSUME NEW c \in Caller, NEW d \in Caller, c # d, UsesGPU(c), UsesGPU(d),
                        ~request[c].cut, ~request[d].cut
                 PROVE FALSE
    BY DEF OneModelAtATime
  <2>2. LockHeld(c) /\ LockHeld(d)
    BY DEF ModelInv, LockInv
  <2> QED BY <2>1, <2>2 DEF LockHeld, UsesGPU, HoldsFlock
<1>2. CleanAfterRun
  <2>1. SUFFICES ASSUME NEW c \in Caller, request[c].at = "ended", ~request[c].errors
                 PROVE /\ modelRun[c] # "live" /\ chatState[c] # "active"
                       /\ request[c].claim # 0 => lease.id # request[c].claim
    BY DEF CleanAfterRun
  <2>2. SessionInv(c) /\ RunInv(c) /\ ClaimInv(c)
    BY DEF ModelInv, BoardInv
  <2> QED BY <2>1, <2>2 DEF SessionInv, RunInv, ClaimInv
<1> QED BY <1>1, <1>2 DEF ModelsBehave

\* The invariant is inductive.
LEMMA ModelKeeps == ModelInv /\ [ModelNext]_modelVars => ModelInv'
<1> SUFFICES ASSUME ModelInv, [ModelNext]_modelVars PROVE ModelInv'
  OBVIOUS
<1>1. ASSUME NEW c \in Caller, CallerStep(c) PROVE ModelInv'
  BY <1>1, CallerKeeps
<1>2. CASE LockFileRemoved
  <2>1. CallType /\ PathType /\ FlockType /\ ChatsType /\ RunsType /\ LeaseType
    BY DEF ModelInv, ModelTypeOK
  <2>2. FlockType' /\ ChatsType' /\ RunsType' /\ LeaseType'
    BY <1>2, <2>1 DEF LockFileRemoved, boardVars, FlockType, ChatsType, RunsType, LeaseType
  <2> QED BY <1>2, <2>1, <2>2, RemovedStep DEF ModelInv, ModelTypeOK, LockInv, BoardInv
<1>3. CASE AgentArrives \/ AgentClaims \/ AgentCloses \/ ModelLeaseLapses
  BY <1>3, AgentStep
<1>4. CASE UNCHANGED modelVars
  <2>1. /\ request' = request /\ lockPath' = lockPath /\ inodes' = inodes /\ flock' = flock /\ chatState' = chatState
        /\ modelRun' = modelRun /\ lease' = lease /\ epochs' = epochs
    BY <1>4 DEF modelVars
  <2> QED BY <2>1 DEF ModelInv, ModelTypeOK, CallType, PathType, FlockType, ChatsType, RunsType, LeaseType,
              LockInv, LockHeld, HoldsFlock, UsesGPU, CallAt, BoardInv, SessionInv, RunInv, ClaimInv
<1> QED BY <1>1, <1>2, <1>3, <1>4 DEF ModelNext

\* For any callers and requests, one GPU model runs at a time and a run that
\* answers without an error leaves the board clean (ResourceLock, MLXRunner).
THEOREM ModelsBehaveHolds == ModelSpec => []ModelsBehave
<1>1. ModelSpec => []ModelInv
  BY ModelStart, ModelKeeps, PTL DEF ModelSpec
<1> QED BY <1>1, ModelSound, PTL

-----------------------------------------------------------------------------
(* The tools that post.  An event carries the key and the hash of the      *)
(* request it came from and no key is used twice; a handoff past its first *)
(* lookup is not on record.                                                *)

Places == {"idle", "entry", "policy", "post", "answer"}
Event == [key : {Key(w) : w \in Wishes}, sha : Wishes \X Int, wish : Wishes]
PostTypeOK ==
  /\ posted \in Seq(Event) /\ rowVersion \in Int
  /\ call \in [Client -> [pc : Places, wish : Wishes \cup {<< >>}, version : Int]]
  /\ pending \in [Client -> (Wishes \X Int) \cup {<< >>}]

TrueEvents == \A e \in DOMAIN posted : posted[e].key = Key(posted[e].wish) /\ posted[e].sha[1] = posted[e].wish
OneEventAKey == \A e, f \in DOMAIN posted : posted[e].key = posted[f].key /\ posted[e].key # << >> => e = f
TrueAnswers == \A a \in answers : a[2] \in DOMAIN posted /\ posted[a[2]].wish = a[1]
AsksAs(c) ==
  /\ call[c].pc # "idle" => call[c].wish \in Wishes /\ call[c].wish.by = c
  /\ pending[c] # << >> => pending[c][1].by = c
OffRecord(c) ==
  call[c].pc \in {"policy", "post"} /\ call[c].wish.tool = "handoff" => ~OnRecord(call[c].wish, call[c].version)
CallsInv == \A c \in Client : AsksAs(c) /\ OffRecord(c)
PostInv == PostTypeOK /\ TrueEvents /\ OneEventAKey /\ TrueAnswers /\ CallsInv /\ MadeIsNotRefused

\* A note's key tells its whole request (the hash _tool_note takes).
LEMMA NoteKeyTellsAll ==
  ASSUME NEW w \in Wishes, NEW v \in Wishes, w.tool = "note", Key(v) = Key(w)
  PROVE v = w
<1>1. Key(w) = <<"mcp-note", w.by, w.op, w.text, w.to>>
  BY DEF Key
<1>2. v.tool = "note"
  <2>1. CASE v.tool \in {"handoff", "verdict"}
    <3>1. Key(v) = <<v.tool, PostLane[v.by], v.op>>
      BY <2>1 DEF Key
    <3> QED BY <1>1, <2>1, <3>1
  <2>2. CASE v.tool \notin {"note", "handoff", "verdict"}
    <3>1. Key(v) = << >>
      BY <2>2 DEF Key
    <3> QED BY <1>1, <3>1
  <2> QED BY <2>1, <2>2
<1>3. Key(v) = <<"mcp-note", v.by, v.op, v.text, v.to>>
  BY <1>2 DEF Key
<1>4. v.by = w.by /\ v.op = w.op /\ v.text = w.text /\ v.to = w.to
  BY <1>1, <1>3
<1> QED BY <1>2, <1>4, PostAssumption DEF PostAssumption

\* A handoff on record is the one event of its key.
LEMMA OnRecordIsPrior ==
  ASSUME NEW w, NEW v, w.tool = "handoff", OnRecord(w, v)
  PROVE \E e \in Prior(w) : posted[e].sha = Sha(w, v)
<1>1. Key(w) # << >>
  BY DEF Key
<1> QED BY <1>1 DEF OnRecord, Prior

\* What is refused to c is not on record, unless the server it reached is one
\* it does not know yet.
LEMMA RefuseKeeps ==
  ASSUME PostInv, NEW c \in Client, NEW why, Refuse(c, why),
         call[c].wish.tool = "handoff" /\ OnRecord(call[c].wish, call[c].version) => why = "fence"
  PROVE PostInv'
<1>1. /\ posted' = posted /\ answers' = answers /\ rowVersion' = rowVersion
      /\ call' = [call EXCEPT ![c] = Waiting] /\ pending' = [pending EXCEPT ![c] = << >>]
  BY DEF Refuse
<1>2. Waiting \in [pc : Places, wish : Wishes \cup {<< >>}, version : Int] /\ Waiting.pc = "idle"
  <2>1. "idle" \in Places
    BY DEF Places
  <2> QED BY <2>1 DEF Waiting
<1>3. PostTypeOK'
  BY <1>1, <1>2 DEF PostInv, PostTypeOK
<1>4. TrueEvents' /\ OneEventAKey' /\ TrueAnswers'
  BY <1>1 DEF PostInv, TrueEvents, OneEventAKey, TrueAnswers
<1>5. ASSUME NEW d \in Client PROVE AsksAs(d)' /\ OffRecord(d)'
  <2>1. AsksAs(d) /\ OffRecord(d)
    BY DEF PostInv, CallsInv
  <2>2. CASE d = c
    BY <1>1, <1>2, <2>2 DEF PostInv, PostTypeOK, AsksAs, OffRecord
  <2>3. CASE d # c
    <3>1. call'[d] = call[d] /\ pending'[d] = pending[d]
      BY <1>1, <2>3 DEF PostInv, PostTypeOK
    <3> QED BY <1>1, <2>1, <3>1 DEF AsksAs, OffRecord, OnRecord
  <2> QED BY <2>2, <2>3
<1>6. MadeIsNotRefused'
  BY DEF PostInv, MadeIsNotRefused, Refuse
<1> QED BY <1>3, <1>4, <1>5, <1>6 DEF PostInv, CallsInv

\* A call of c that goes on is still c's; past the first lookup it is not on record.
LEMMA GotoKeeps ==
  ASSUME PostInv, NEW c \in Client, NEW step \in {"policy", "post"}, call[c].pc # "idle", Goto(c, step), Same,
         answers' = answers,
         call[c].wish.tool = "handoff" => ~OnRecord(call[c].wish, call[c].version)
  PROVE PostInv'
<1>1. /\ posted' = posted /\ rowVersion' = rowVersion /\ pending' = pending /\ turned' = turned
      /\ call' = [call EXCEPT ![c] = [call[c] EXCEPT !.pc = step]]
  BY DEF Goto, Same
<1>2. call[c] \in [pc : Places, wish : Wishes \cup {<< >>}, version : Int] /\ step \in Places
  BY DEF PostInv, PostTypeOK, Places
<1>3. PostTypeOK'
  BY <1>1, <1>2 DEF PostInv, PostTypeOK
<1>4. TrueEvents' /\ OneEventAKey' /\ TrueAnswers' /\ MadeIsNotRefused'
  BY <1>1 DEF PostInv, TrueEvents, OneEventAKey, TrueAnswers, MadeIsNotRefused
<1>5. ASSUME NEW d \in Client PROVE AsksAs(d)' /\ OffRecord(d)'
  <2>1. AsksAs(d) /\ OffRecord(d)
    BY DEF PostInv, CallsInv
  <2>2. CASE d = c
    <3>1. call'[c].pc = step /\ call'[c].wish = call[c].wish /\ call'[c].version = call[c].version
      BY <1>1, <1>2 DEF PostInv, PostTypeOK
    <3> QED BY <1>1, <2>1, <2>2, <3>1 DEF AsksAs, OffRecord, OnRecord
  <2>3. CASE d # c
    <3>1. call'[d] = call[d]
      BY <1>1, <2>3 DEF PostInv, PostTypeOK
    <3> QED BY <1>1, <2>1, <3>1 DEF AsksAs, OffRecord, OnRecord
  <2> QED BY <2>2, <2>3
<1> QED BY <1>3, <1>4, <1>5 DEF PostInv, CallsInv

\* c is answered the event of its own request.
LEMMA AnswerKeeps ==
  ASSUME PostInv, NEW c \in Client, NEW e \in DOMAIN posted, call[c].pc # "idle", Answer(c, e), Same,
         posted[e].wish = call[c].wish
  PROVE PostInv'
<1>1. /\ posted' = posted /\ rowVersion' = rowVersion /\ pending' = pending /\ turned' = turned
      /\ call' = [call EXCEPT ![c] = [call[c] EXCEPT !.pc = "answer"]]
      /\ answers' = answers \cup {<<call[c].wish, e>>}
  BY DEF Answer, Same
<1>2. call[c] \in [pc : Places, wish : Wishes \cup {<< >>}, version : Int] /\ "answer" \in Places
  BY DEF PostInv, PostTypeOK, Places
<1>3. PostTypeOK'
  BY <1>1, <1>2 DEF PostInv, PostTypeOK
<1>4. TrueEvents' /\ OneEventAKey' /\ TrueAnswers' /\ MadeIsNotRefused'
  BY <1>1 DEF PostInv, TrueEvents, OneEventAKey, TrueAnswers, MadeIsNotRefused
<1>5. ASSUME NEW d \in Client PROVE AsksAs(d)' /\ OffRecord(d)'
  <2>1. AsksAs(d) /\ OffRecord(d)
    BY DEF PostInv, CallsInv
  <2>2. CASE d = c
    <3>1. call'[c].pc = "answer" /\ call'[c].wish = call[c].wish
      BY <1>1, <1>2 DEF PostInv, PostTypeOK
    <3> QED BY <1>1, <2>1, <2>2, <3>1 DEF AsksAs, OffRecord
  <2>3. CASE d # c
    <3>1. call'[d] = call[d]
      BY <1>1, <2>3 DEF PostInv, PostTypeOK
    <3> QED BY <1>1, <2>1, <3>1 DEF AsksAs, OffRecord, OnRecord
  <2> QED BY <2>2, <2>3
<1> QED BY <1>3, <1>4, <1>5 DEF PostInv, CallsInv

\* A post makes a new event, under a key nobody used.
LEMMA PostsKeeps ==
  ASSUME PostInv, NEW c \in Client, NEW bumps \in Int, call[c].pc # "idle", Posts(c, bumps), Prior(call[c].wish) = {}
  PROVE PostInv'
<1> DEFINE w == call[c].wish
           n == Len(posted) + 1
           ev == [key |-> Key(w), sha |-> Sha(w, call[c].version), wish |-> w]
<1>1. /\ posted' = Append(posted, ev) /\ rowVersion' = rowVersion + bumps
      /\ pending' = pending /\ turned' = turned
      /\ call' = [call EXCEPT ![c] = [call[c] EXCEPT !.pc = "answer"]]
      /\ answers' = answers \cup {<<w, n>>}
  BY DEF Posts, Answer
<1>2. call[c] \in [pc : Places, wish : Wishes \cup {<< >>}, version : Int] /\ "answer" \in Places
  BY DEF PostInv, PostTypeOK, Places
<1>3. w \in Wishes /\ w.by = c /\ call[c].version \in Int
  BY <1>2 DEF PostInv, CallsInv, AsksAs
<1>4. ev \in Event /\ ev.key = Key(w) /\ ev.sha[1] = w /\ ev.wish = w
  BY <1>3 DEF Event, Sha
<1>5. posted \in Seq(Event) /\ Len(posted) \in Nat
  BY DEF PostInv, PostTypeOK
<1> HIDE DEF ev
<1>6. /\ DOMAIN posted' = DOMAIN posted \cup {n} /\ n \notin DOMAIN posted /\ posted'[n] = ev
      /\ \A e \in DOMAIN posted : posted'[e] = posted[e]
  BY <1>1, <1>4, <1>5
<1> HIDE DEF n
<1>7. PostTypeOK'
  <2>1. posted' \in Seq(Event)
    BY <1>1, <1>4, <1>5
  <2>2. rowVersion' \in Int
    BY <1>1 DEF PostInv, PostTypeOK
  <2> QED BY <1>1, <1>2, <2>1, <2>2 DEF PostInv, PostTypeOK
<1>8. TrueEvents'
  BY <1>4, <1>6 DEF PostInv, TrueEvents
<1>9. OneEventAKey'
  <2>1. ASSUME NEW e \in DOMAIN posted, posted[e].key = Key(w) PROVE Key(w) = << >>
    BY <2>1 DEF Prior
  <2> QED BY <1>4, <1>6, <2>1 DEF PostInv, OneEventAKey
<1>10. TrueAnswers'
  BY <1>1, <1>4, <1>6 DEF PostInv, TrueAnswers
<1>11. ASSUME NEW d \in Client PROVE AsksAs(d)' /\ OffRecord(d)'
  <2>1. AsksAs(d) /\ OffRecord(d)
    BY DEF PostInv, CallsInv
  <2>2. CASE d = c
    <3>1. call'[c].pc = "answer" /\ call'[c].wish = w
      BY <1>1, <1>2 DEF PostInv, PostTypeOK
    <3> QED BY <1>1, <1>3, <2>1, <2>2, <3>1 DEF AsksAs, OffRecord
  <2>3. CASE d # c
    <3>1. call'[d] = call[d]
      BY <1>1, <2>3 DEF PostInv, PostTypeOK
    <3>2. AsksAs(d)'
      BY <1>1, <2>1, <3>1 DEF AsksAs
    <3>3. SUFFICES ASSUME call[d].pc \in {"policy", "post"}, call[d].wish.tool = "handoff",
                          OnRecord(call[d].wish, call[d].version)'
                   PROVE FALSE
      BY <3>1, <3>2 DEF OffRecord
    <3>4. PICK e \in DOMAIN posted' : posted'[e].key = Key(call[d].wish)
                                      /\ posted'[e].sha = Sha(call[d].wish, call[d].version)
      BY <3>1, <3>3 DEF OnRecord
    <3>5. e \notin DOMAIN posted
      BY <1>6, <2>1, <3>3, <3>4 DEF OffRecord, OnRecord
    <3>6. call[d].wish = w
      BY <1>4, <1>6, <3>4, <3>5 DEF Sha
    <3>7. call[d].wish.by = d
      BY <2>1, <3>3 DEF AsksAs
    <3> QED BY <1>3, <2>3, <3>6, <3>7
  <2> QED BY <2>2, <2>3
<1>12. MadeIsNotRefused'
  BY <1>1 DEF PostInv, MadeIsNotRefused
<1> QED BY <1>7, <1>8, <1>9, <1>10, <1>11, <1>12 DEF PostInv, CallsInv

\* A replay of a key gives the event of the request or refuses another one;
\* what it refuses is not on record.
LEMMA ReplayKeeps ==
  ASSUME PostInv, NEW c \in Client, call[c].pc # "idle", NEW e \in Prior(call[c].wish),
         IF SameRequest(e, call[c].wish, call[c].version) THEN Answer(c, e) /\ Same ELSE Refuse(c, "reused")
  PROVE PostInv'
<1> DEFINE w == call[c].wish
<1>1. e \in DOMAIN posted /\ posted[e].key = Key(w) /\ Key(w) # << >>
  BY DEF Prior
<1>2. posted[e].sha[1] = posted[e].wish
  BY <1>1 DEF PostInv, TrueEvents
<1>3. CASE SameRequest(e, w, call[c].version)
  <2>1. posted[e].wish = w
    BY <1>2, <1>3 DEF SameRequest, Sha
  <2> QED BY <1>1, <1>3, <2>1, AnswerKeeps
<1>4. CASE ~SameRequest(e, w, call[c].version)
  <2>1. ASSUME w.tool = "handoff", OnRecord(w, call[c].version) PROVE FALSE
    <3>1. PICK f \in Prior(w) : posted[f].sha = Sha(w, call[c].version)
      BY <2>1, OnRecordIsPrior
    <3>2. f = e
      BY <1>1, <3>1 DEF PostInv, OneEventAKey, Prior
    <3> QED BY <1>4, <2>1, <3>1, <3>2 DEF SameRequest
  <2> QED BY <1>4, <2>1, RefuseKeeps
<1> QED BY <1>3, <1>4

\* Whatever a tool does for c.
LEMMA ToolKeeps ==
  ASSUME PostInv, NEW c \in Client,
         \/ HandoffEnters(c) \/ VerdictEnters(c) \/ PolicyRuns(c) \/ KeyedPost(c)
         \/ NotePosts(c) \/ AuditRequestPosts(c) \/ DecisionPosts(c)
  PROVE PostInv'
<1> DEFINE w == call[c].wish
           v == call[c].version
<1>1. call[c].pc # "idle"
  BY DEF HandoffEnters, VerdictEnters, PolicyRuns, KeyedPost, NotePosts, AuditRequestPosts, DecisionPosts, Step
<1>2. w \in Wishes
  BY <1>1 DEF PostInv, CallsInv, AsksAs
<1>3. ASSUME w.tool = "handoff", OnRecord(w, v) PROVE Prior(w) # {}
  BY <1>3, OnRecordIsPrior
<1>4. ASSUME call[c].pc \in {"policy", "post"}, w.tool = "handoff" PROVE ~OnRecord(w, v)
  BY <1>4 DEF PostInv, CallsInv, OffRecord
<1>5. CASE HandoffEnters(c)
  <2>1. CASE Refuse(c, "fence")
    BY <2>1, RefuseKeeps
  <2>2. CASE Prior(w) = {} /\ Goto(c, "policy") /\ Same /\ UNCHANGED answers
    BY <1>1, <1>3, <2>2, GotoKeeps
  <2>3. CASE \E e \in Prior(w) : IF SameRequest(e, w, v) THEN Answer(c, e) /\ Same ELSE Refuse(c, "reused")
    BY <1>1, <2>3, ReplayKeeps
  <2> QED BY <1>5, <2>1, <2>2, <2>3 DEF HandoffEnters, EarlyReplay
<1>6. CASE VerdictEnters(c)
  <2>1. w.tool = "verdict" /\ Goto(c, "policy") /\ Same /\ answers' = answers
    BY <1>6 DEF VerdictEnters, Step
  <2> QED BY <1>1, <2>1, GotoKeeps
<1>7. CASE PolicyRuns(c)
  <2>1. call[c].pc = "policy"
    BY <1>7 DEF PolicyRuns, Step
  <2>2. CASE Refuse(c, "policy")
    BY <1>4, <2>1, <2>2, RefuseKeeps
  <2>3. CASE Goto(c, "post") /\ Same /\ UNCHANGED answers
    BY <1>1, <1>4, <2>1, <2>3, GotoKeeps
  <2> QED BY <1>7, <2>2, <2>3 DEF PolicyRuns
<1>8. CASE KeyedPost(c)
  <2>1. CASE \E e \in Prior(w) : IF SameRequest(e, w, v) THEN Answer(c, e) /\ Same ELSE Refuse(c, "reused")
    BY <1>1, <2>1, ReplayKeeps
  <2>2. CASE Prior(w) = {} /\ Refuse(c, "version")
    BY <1>3, <2>2, RefuseKeeps
  <2>3. CASE Prior(w) = {} /\ \E b \in {0, 1} : Posts(c, b)
    BY <1>1, <2>3, PostsKeeps
  <2> QED BY <1>8, <2>1, <2>2, <2>3 DEF KeyedPost
<1>9. CASE NotePosts(c)
  <2>1. w.tool = "note"
    BY <1>9 DEF NotePosts, Step
  <2>2. CASE Refuse(c, "target")
    BY <2>1, <2>2, RefuseKeeps
  <2>3. CASE Prior(w) = {} /\ Posts(c, 0)
    BY <1>1, <2>3, PostsKeeps
  <2>4. ASSUME NEW e \in Prior(w), Answer(c, e), Same PROVE PostInv'
    <3>1. e \in DOMAIN posted /\ posted[e].key = Key(w)
      BY DEF Prior
    <3>2. Key(posted[e].wish) = Key(w)
      BY <3>1 DEF PostInv, TrueEvents
    <3>3. posted[e] \in Event
      BY <3>1 DEF PostInv, PostTypeOK
    <3>4. posted[e].wish \in Wishes
      BY <3>3 DEF Event
    <3>5. posted[e].wish = w
      BY <1>2, <2>1, <3>2, <3>4, NoteKeyTellsAll
    <3> QED BY <1>1, <2>4, <3>1, <3>5, AnswerKeeps
  <2> QED BY <1>9, <2>2, <2>3, <2>4 DEF NotePosts
<1>10. CASE AuditRequestPosts(c) \/ DecisionPosts(c)
  <2>1. w.tool \in {"audit_request", "decision"} /\ Posts(c, 0)
    BY <1>10 DEF AuditRequestPosts, DecisionPosts, Step
  <2>2. Prior(w) = {}
    BY <2>1 DEF Prior, Key
  <2> QED BY <1>1, <2>1, <2>2, PostsKeeps
<1> QED BY <1>5, <1>6, <1>7, <1>8, <1>9, <1>10

\* Asking, an answer that came or got lost, a restart and what others do.
LEMMA ClientKeeps ==
  ASSUME PostInv, NEW c \in Client,
         (\E w \in Wishes : Ask(c, w)) \/ Retry(c) \/ Answered(c) \/ ServerRestarts(c) \/ Orient(c)
  PROVE PostInv'
<1> DEFINE Calls == [pc : Places, wish : Wishes \cup {<< >>}, version : Int]
<1>1. /\ posted' = posted /\ answers' = answers /\ turned' = turned /\ rowVersion' = rowVersion
      /\ \A d \in Client : d # c => call'[d] = call[d] /\ pending'[d] = pending[d]
  BY DEF Ask, Retry, Answered, ServerRestarts, Orient, PostInv, PostTypeOK
<1>2. {"idle", "entry"} \subseteq Places /\ Waiting.pc = "idle" /\ Waiting \in Calls
  <2>1. {"idle", "entry"} \subseteq Places
    BY DEF Places
  <2> QED BY <2>1 DEF Waiting
<1>3. rowVersion \in Int /\ call \in [Client -> Calls] /\ pending \in [Client -> (Wishes \X Int) \cup {<< >>}]
  BY DEF PostInv, PostTypeOK
<1>4. AsksAs(c)
  BY DEF PostInv, CallsInv
<1>5. /\ call' \in [Client -> Calls] /\ pending' \in [Client -> (Wishes \X Int) \cup {<< >>}]
      /\ AsksAs(c)' /\ (call'[c] = call[c] \/ call'[c].pc \in {"idle", "entry"})
  <2>1. ASSUME NEW w \in Wishes, Ask(c, w)
        PROVE /\ call' \in [Client -> Calls] /\ pending' \in [Client -> (Wishes \X Int) \cup {<< >>}]
              /\ AsksAs(c)' /\ call'[c].pc = "entry"
    <3>1. /\ call' = [call EXCEPT ![c] = [pc |-> "entry", wish |-> w, version |-> rowVersion]]
          /\ pending' = [pending EXCEPT ![c] = <<w, rowVersion>>] /\ w.by = c
      BY <2>1 DEF Ask
    <3>2. [pc |-> "entry", wish |-> w, version |-> rowVersion] \in Calls
      BY <1>2, <1>3
    <3>3. call'[c].pc = "entry" /\ call'[c].wish = w /\ pending'[c][1] = w
      BY <1>3, <3>1
    <3> QED BY <1>3, <3>1, <3>2, <3>3 DEF AsksAs
  <2>2. CASE Retry(c)
    <3>1. /\ pending[c] # << >> /\ pending' = pending
          /\ call' = [call EXCEPT ![c] = [pc |-> "entry", wish |-> pending[c][1], version |-> pending[c][2]]]
      BY <2>2 DEF Retry
    <3>2. pending[c][1] \in Wishes /\ pending[c][2] \in Int /\ pending[c][1].by = c
      BY <1>3, <1>4, <3>1 DEF AsksAs
    <3>3. [pc |-> "entry", wish |-> pending[c][1], version |-> pending[c][2]] \in Calls
      BY <1>2, <3>2
    <3>4. call'[c].pc = "entry" /\ call'[c].wish = pending[c][1]
      BY <1>3, <3>1
    <3> QED BY <1>3, <3>1, <3>2, <3>3, <3>4 DEF AsksAs
  <2>3. CASE Answered(c) \/ ServerRestarts(c)
    <3>1. call' = [call EXCEPT ![c] = Waiting] /\ pending' \in {pending, [pending EXCEPT ![c] = << >>]}
      BY <2>3 DEF Answered, ServerRestarts
    <3>2. call'[c].pc = "idle" /\ pending'[c] \in {pending[c], << >>}
      BY <1>2, <1>3, <3>1
    <3> QED BY <1>2, <1>3, <1>4, <3>1, <3>2 DEF AsksAs
  <2>4. CASE Orient(c)
    <3>1. call' = call /\ pending' = pending
      BY <2>4 DEF Orient
    <3> QED BY <1>3, <1>4, <3>1 DEF AsksAs
  <2> QED BY <2>1, <2>2, <2>3, <2>4
<1>6. PostTypeOK'
  BY <1>1, <1>5 DEF PostInv, PostTypeOK
<1>7. TrueEvents' /\ OneEventAKey' /\ TrueAnswers' /\ MadeIsNotRefused'
  BY <1>1 DEF PostInv, TrueEvents, OneEventAKey, TrueAnswers, MadeIsNotRefused
<1>8. ASSUME NEW d \in Client PROVE AsksAs(d)' /\ OffRecord(d)'
  <2>1. AsksAs(d) /\ OffRecord(d)
    BY DEF PostInv, CallsInv
  <2>2. CASE d = c
    BY <1>1, <1>5, <2>1, <2>2 DEF OffRecord, OnRecord
  <2>3. CASE d # c
    BY <1>1, <2>1, <2>3 DEF AsksAs, OffRecord, OnRecord
  <2> QED BY <2>2, <2>3
<1> QED BY <1>6, <1>7, <1>8 DEF PostInv, CallsInv

\* Nothing was asked yet.
LEMMA PostStart == PostInit => PostInv
<1> SUFFICES ASSUME PostInit PROVE PostInv
  OBVIOUS
<1>1. Waiting \in [pc : Places, wish : Wishes \cup {<< >>}, version : Int] /\ Waiting.pc = "idle"
  <2>1. "idle" \in Places
    BY DEF Places
  <2> QED BY <2>1 DEF Waiting
<1>2. posted = << >> /\ answers = {} /\ turned = {} /\ rowVersion = 0 /\ call = [c \in Client |-> Waiting]
      /\ pending = [c \in Client |-> << >>]
  BY DEF PostInit
<1>3. PostTypeOK
  BY <1>1, <1>2 DEF PostTypeOK
<1>4. TrueEvents /\ OneEventAKey /\ TrueAnswers /\ MadeIsNotRefused
  BY <1>2 DEF TrueEvents, OneEventAKey, TrueAnswers, MadeIsNotRefused
<1>5. CallsInv
  BY <1>1, <1>2 DEF CallsInv, AsksAs, OffRecord
<1> QED BY <1>3, <1>4, <1>5 DEF PostInv

\* The invariant is inductive.
LEMMA PostKeeps == PostInv /\ [PostNext]_postVars => PostInv'
<1> SUFFICES ASSUME PostInv, [PostNext]_postVars PROVE PostInv'
  OBVIOUS
<1>1. ASSUME NEW c \in Client, \E w \in Wishes : Ask(c, w) PROVE PostInv'
  BY <1>1, ClientKeeps
<1>2. ASSUME NEW c \in Client, Retry(c) \/ Answered(c) \/ ServerRestarts(c) \/ Orient(c) PROVE PostInv'
  BY <1>2, ClientKeeps
<1>3. ASSUME NEW c \in Client,
             \/ HandoffEnters(c) \/ VerdictEnters(c) \/ PolicyRuns(c) \/ KeyedPost(c)
             \/ NotePosts(c) \/ AuditRequestPosts(c) \/ DecisionPosts(c)
      PROVE PostInv'
  BY <1>3, ToolKeeps
<1>4. CASE PolicyFlips \/ (\E s \in MayDie : TargetEnds(s)) \/ UNCHANGED postVars
  <2>1. /\ posted' = posted /\ answers' = answers /\ turned' = turned /\ rowVersion' = rowVersion
        /\ call' = call /\ pending' = pending
    BY <1>4 DEF PolicyFlips, TargetEnds, postVars
  <2> QED BY <2>1 DEF PostInv, PostTypeOK, TrueEvents, OneEventAKey, TrueAnswers, MadeIsNotRefused,
                      CallsInv, AsksAs, OffRecord, OnRecord
<1> QED BY <1>1, <1>2, <1>3, <1>4 DEF PostNext

\* For any clients, lanes and requests: whoever retries a call is answered the
\* event of that very request, and a handoff on record is turned away only by a
\* server the client has not met (_typed_handoff_replay_unlocked,
\* post_audit_verdict, _tool_note, lookup_existing_work_handoff_replay).
THEOREM RetryFindsItsOwnHolds == PostSpec => []RetryFindsItsOwn
<1>1. PostInv => RetryFindsItsOwn
  BY DEF PostInv, RetryFindsItsOwn, TrueAnswers, AnswerIsOwn
<1>2. PostSpec => []PostInv
  BY PostStart, PostKeeps, PTL DEF PostSpec
<1> QED BY <1>1, <1>2, PTL

-----------------------------------------------------------------------------
(* The tools of a claim: overlaps.                                         *)

Scopes == UNION {WriteScope[s] : s \in Session}
ClaimRecord == [row : Row, by : Session, status : Held \cup {"released"}, lapsed : BOOLEAN, excused : BOOLEAN,
                scopes : SUBSET Scopes]
ToolCalls == [pc : {"idle", "claim", "declare", "active", "sets", "act"},
              tool : {"none", "heartbeat", "released", "paused", "blocked"},
              row : Row \cup {"none"}, claim : Nat, seed : BOOLEAN, scopes : SUBSET Scopes, active : SUBSET Nat]
ToolsType == claimed \in Seq(ClaimRecord) /\ toolCall \in [Session -> ToolCalls]

\* A call is about a claim of its session.
CallsOwn ==
  \A s \in Session :
    /\ toolCall[s].claim # 0 => toolCall[s].claim \in Claim /\ claimed[toolCall[s].claim].by = s
    /\ toolCall[s].pc \in {"declare", "active", "sets", "act"} => toolCall[s].claim # 0
    /\ toolCall[s].pc = "claim" => toolCall[s].row \in Row
\* A lease that lapsed is excused ever after.
LapseExcuses == \A c \in Claim : claimed[c].lapsed => claimed[c].excused

Counted(c) == claimed[c].status \in Held /\ ~claimed[c].excused
\* The holder of c is about to look at the set of d, having declared that of c.
WillLook(c, d) ==
  LET t == toolCall[claimed[c].by] IN
  /\ t.claim = c /\ t.scopes # {}
  /\ t.pc = "active" \/ (t.pc = "sets" /\ c \in t.active /\ d \in t.active)
ToldOrWill ==
  \A c, d \in Claim :
    Overlap(c, d) /\ Counted(c) /\ Counted(d) => {c, d} \in told \/ WillLook(c, d) \/ WillLook(d, c)
ToolsInv == ToolsType /\ CallsOwn /\ LapseExcuses /\ ToldOrWill

LEMMA ToolsInvTells == ToolsInv => OverlapIsTold
<1> SUFFICES ASSUME ToolsInv, NEW c \in Claim, NEW d \in Claim, Overlap(c, d),
                    claimed[c].status \in Held, claimed[d].status \in Held,
                    ~claimed[c].excused, ~claimed[d].excused,
                    toolCall[claimed[c].by] = NoCall, toolCall[claimed[d].by] = NoCall
             PROVE  {c, d} \in told
  BY DEF OverlapIsTold
<1>1. ~WillLook(c, d) /\ ~WillLook(d, c)
  BY DEF WillLook, NoCall
<1> QED BY <1>1 DEF ToolsInv, ToldOrWill, Counted

LEMMA NoCallTyped == NoCall \in ToolCalls /\ NoCall.claim = 0 /\ NoCall.pc = "idle"
BY DEF NoCall, ToolCalls

LEMMA ClaimTyped ==
  ASSUME ToolsType, NEW c \in Claim
  PROVE  /\ claimed[c] \in ClaimRecord /\ claimed[c].by \in Session /\ c \in Nat
         /\ Claim = 1 .. Len(claimed) /\ Len(claimed) \in Nat
<1>1. claimed \in Seq(ClaimRecord) /\ c \in DOMAIN claimed
  BY DEF ToolsType, Claim
<1>2. claimed[c] \in ClaimRecord /\ c \in Nat
  BY <1>1
<1>3. Claim = 1 .. Len(claimed) /\ Len(claimed) \in Nat
  BY <1>1 DEF Claim
<1> QED BY <1>2, <1>3 DEF ClaimRecord

LEMMA ToolsInvInit == ToolInit => ToolsInv
BY NoCallTyped DEF ToolInit, ToolsInv, ToolsType, CallsOwn, LapseExcuses, ToldOrWill, Claim

\* A step in which sessions do not look, and no claim declares more or counts again.
LEMMA NothingDeclared ==
  ASSUME ToolsInv, ToolsType', CallsOwn', LapseExcuses', told' = told,
         Claim \subseteq Claim',
         \A c \in Claim : /\ claimed'[c].by = claimed[c].by /\ claimed'[c].scopes = claimed[c].scopes
                          /\ Counted(c)' => Counted(c),
         \A c \in Claim' \ Claim : claimed'[c].scopes = {},
         \A s \in Session : toolCall[s].pc \in {"active", "sets"} => toolCall'[s] = toolCall[s]
  PROVE  ToolsInv'
<1>1. ASSUME NEW c \in Claim', NEW d \in Claim', Overlap(c, d)', Counted(c)', Counted(d)'
      PROVE  ({c, d} \in told \/ WillLook(c, d) \/ WillLook(d, c))'
  <2>1. c \in Claim /\ d \in Claim
    BY <1>1 DEF Overlap
  <2>2. Overlap(c, d)
    BY <1>1, <2>1 DEF Overlap
  <2>3. claimed[c].by \in Session /\ claimed[d].by \in Session
    BY <2>1, ClaimTyped DEF ToolsInv
  <2>4. CASE {c, d} \in told
    BY <2>4
  <2>5. CASE WillLook(c, d)
    BY <2>1, <2>3, <2>5 DEF WillLook
  <2>6. CASE WillLook(d, c)
    BY <2>1, <2>3, <2>6 DEF WillLook
  <2> QED BY <1>1, <2>1, <2>2, <2>4, <2>5, <2>6 DEF ToolsInv, ToldOrWill
<1> QED BY <1>1 DEF ToolsInv, ToldOrWill

\* A call moves on, about a claim of its session or none, and claims stand.
LEMMA CallMoves ==
  ASSUME ToolsInv, NEW s \in Session, NEW t \in ToolCalls, toolCall' = [toolCall EXCEPT ![s] = t],
         UNCHANGED <<claimed, told>>, toolCall[s].pc \notin {"active", "sets"},
         t.claim # 0 => t.claim \in Claim /\ claimed[t.claim].by = s,
         t.pc \in {"declare", "active", "sets", "act"} => t.claim # 0,
         t.pc = "claim" => t.row \in Row
  PROVE  ToolsInv'
<1>1. Claim' = Claim
  BY DEF Claim
<1>2. toolCall'[s] = t /\ \A o \in Session \ {s} : toolCall'[o] = toolCall[o]
  BY DEF ToolsInv, ToolsType
<1>3. ToolsType' /\ LapseExcuses'
  BY <1>1 DEF ToolsInv, ToolsType, LapseExcuses
<1>4. CallsOwn'
  BY <1>1, <1>2 DEF ToolsInv, CallsOwn
<1>5. \A c : Counted(c)' <=> Counted(c)
  BY DEF Counted
<1> QED BY <1>1, <1>2, <1>3, <1>4, <1>5, NothingDeclared

\* A session's call ends or stands while it changes claims.
LEMMA ClaimsMove ==
  ASSUME ToolsInv, claimed' \in Seq(ClaimRecord), NEW s \in Session,
         toolCall' \in {toolCall, [toolCall EXCEPT ![s] = NoCall]}, told' = told,
         toolCall[s].pc \notin {"active", "sets"}, Claim' = Claim,
         \A c \in Claim : /\ claimed'[c].by = claimed[c].by /\ claimed'[c].scopes = claimed[c].scopes
                          /\ Counted(c)' => Counted(c)
                          /\ claimed'[c].lapsed => claimed'[c].excused
  PROVE  ToolsInv'
<1>1. \A o \in Session : toolCall'[o] = toolCall[o] \/ (o = s /\ toolCall'[o] = NoCall)
  BY DEF ToolsInv, ToolsType
<1>2. ToolsType' /\ LapseExcuses'
  BY NoCallTyped DEF ToolsInv, ToolsType, LapseExcuses
<1>3. CallsOwn'
  BY <1>1, NoCallTyped DEF ToolsInv, CallsOwn
<1> QED BY <1>1, <1>2, <1>3, NothingDeclared

LEMMA ReadKeeps ==
  ASSUME ToolsInv, NEW s \in Session,
         \/ \E w \in Row, seed, scoped \in BOOLEAN : ClaimReads(s, w, seed, IF scoped THEN WriteScope[s] ELSE {})
         \/ \E c \in 1 .. MaxClaimed : DeclareReads(s, c, WriteScope[s])
         \/ \E c \in 1 .. MaxClaimed, tool \in {"heartbeat", "released", "paused", "blocked"} : ResolveClaim(s, c, tool)
         \/ ClaimRefused(s)
  PROVE  ToolsInv'
<1>1. WriteScope[s] \in SUBSET Scopes /\ {} \in SUBSET Scopes
  BY DEF Scopes
<1>2. \A x \in Claim : x \in Nat /\ x # 0
  BY DEF ToolsInv, ToolsType, Claim
<1>3. ASSUME NEW w \in Row, NEW seed \in BOOLEAN, NEW scopes \in SUBSET Scopes, ClaimReads(s, w, seed, scopes)
      PROVE  ToolsInv'
  <2> DEFINE t == [NoCall EXCEPT !.pc = "claim", !.row = w, !.seed = FillsEmpty(w, seed), !.scopes = scopes]
  <2>1. FillsEmpty(w, seed) \in BOOLEAN
    BY DEF FillsEmpty
  <2>2. t \in ToolCalls /\ t.claim = 0 /\ t.pc = "claim" /\ t.row = w
    BY <2>1 DEF NoCall, ToolCalls
  <2> HIDE DEF t
  <2> QED BY <1>3, <2>2, CallMoves, NoCallTyped DEF ClaimReads, t
<1>4. ASSUME NEW c, DeclareReads(s, c, WriteScope[s]) PROVE ToolsInv'
  <2> DEFINE t == [NoCall EXCEPT !.pc = "declare", !.claim = c, !.scopes = WriteScope[s]]
  <2>1. c \in Claim /\ claimed[c].by = s /\ c \in Nat /\ c # 0
    BY <1>2, <1>4 DEF DeclareReads
  <2>2. t \in ToolCalls /\ t.claim = c /\ t.pc = "declare"
    BY <1>1, <2>1 DEF NoCall, ToolCalls
  <2>3. toolCall' = [toolCall EXCEPT ![s] = t] /\ UNCHANGED <<claimed, told>> /\ toolCall[s] = NoCall
    BY <1>4 DEF DeclareReads, StepAfter
  <2> HIDE DEF t
  <2> QED BY <2>1, <2>2, <2>3, CallMoves, NoCallTyped
<1>5. ASSUME NEW c, NEW tool \in {"heartbeat", "released", "paused", "blocked"}, ResolveClaim(s, c, tool)
      PROVE  ToolsInv'
  <2> DEFINE t == [NoCall EXCEPT !.pc = "act", !.tool = tool, !.claim = c]
  <2>1. c \in Claim /\ claimed[c].by = s /\ c \in Nat /\ c # 0
    BY <1>2, <1>5 DEF ResolveClaim
  <2>2. t \in ToolCalls /\ t.claim = c /\ t.pc = "act"
    BY <2>1 DEF NoCall, ToolCalls
  <2>3. toolCall' = [toolCall EXCEPT ![s] = t] /\ UNCHANGED <<claimed, told>> /\ toolCall[s] = NoCall
    BY <1>5 DEF ResolveClaim
  <2> HIDE DEF t
  <2> QED BY <2>1, <2>2, <2>3, CallMoves, NoCallTyped
<1>6. CASE ClaimRefused(s)
  BY <1>6, CallMoves, NoCallTyped DEF ClaimRefused, Ended
<1>7. ASSUME NEW scoped \in BOOLEAN PROVE (IF scoped THEN WriteScope[s] ELSE {}) \in SUBSET Scopes
  BY <1>1
<1> QED BY <1>3, <1>4, <1>5, <1>6, <1>7

\* The fields of claims change that say nothing of its holder and its set.
LEMMA SweptIs ==
  ASSUME ToolsInv, NEW w
  PROVE  /\ Swept(w) \in Seq(ClaimRecord) /\ DOMAIN Swept(w) = Claim /\ Len(Swept(w)) = Len(claimed)
         /\ \A c \in Claim : /\ Swept(w)[c].by = claimed[c].by /\ Swept(w)[c].scopes = claimed[c].scopes
                             /\ Swept(w)[c].lapsed = claimed[c].lapsed /\ Swept(w)[c].excused = claimed[c].excused
                             /\ Swept(w)[c].status \in Held => claimed[c].status \in Held
<1>1. \A c \in Claim : claimed[c] \in ClaimRecord
  BY ClaimTyped DEF ToolsInv
<1>2. \A r \in ClaimRecord : LET q == [r EXCEPT !.status = "released"] IN
        /\ q \in ClaimRecord /\ q.by = r.by /\ q.scopes = r.scopes /\ q.lapsed = r.lapsed /\ q.excused = r.excused
        /\ q.status \notin Held
  BY DEF ClaimRecord, Held
<1>3. \A c \in Claim : Swept(w)[c] \in {claimed[c], [claimed[c] EXCEPT !.status = "released"]}
  BY DEF Swept
<1>4. Swept(w) \in [Claim -> ClaimRecord]
  BY <1>1, <1>2, <1>3 DEF Swept
<1>5. Claim = 1 .. Len(claimed) /\ Len(claimed) \in Nat
  BY DEF ToolsInv, ToolsType, Claim
<1>6. Swept(w) \in Seq(ClaimRecord) /\ DOMAIN Swept(w) = Claim /\ Len(Swept(w)) = Len(claimed)
  BY <1>4, <1>5
<1> QED BY <1>1, <1>2, <1>3, <1>6

\* One claim is changed.
LEMMA OneClaimIs ==
  ASSUME ToolsInv, NEW c \in Claim, NEW r \in ClaimRecord, claimed' = [claimed EXCEPT ![c] = r]
  PROVE  /\ claimed' \in Seq(ClaimRecord) /\ Claim' = Claim /\ claimed'[c] = r
         /\ \A d \in Claim \ {c} : claimed'[d] = claimed[d]
<1>1. claimed \in Seq(ClaimRecord) /\ Claim = DOMAIN claimed
  BY DEF ToolsInv, ToolsType, Claim
<1> QED BY <1>1 DEF Claim

LEMMA CommitKeeps ==
  ASSUME ToolsInv, NEW s \in Session, ClaimCommits(s)
  PROVE  ToolsInv'
<1> DEFINE w == toolCall[s].row
<1>1. w \in Row /\ toolCall[s].pc = "claim" /\ toolCall[s].scopes \in SUBSET Scopes /\ told' = told
  BY DEF ClaimCommits, ToolsInv, CallsOwn, ToolsType, ToolCalls
<1>2. ASSUME NEW c \in Nat \ {0}, AfterClaim(s, c), Claim \subseteq Claim', c \in Claim', claimed'[c].by = s,
             \A d \in Claim : claimed'[d].by = claimed[d].by
      PROVE  toolCall' \in [Session -> ToolCalls] /\ CallsOwn' /\ \A o \in Session \ {s} : toolCall'[o] = toolCall[o]
  <2>1. PICK t : /\ t = IF toolCall[s].scopes = {} THEN NoCall
                        ELSE [NoCall EXCEPT !.pc = "declare", !.claim = c, !.scopes = toolCall[s].scopes]
    OBVIOUS
  <2>2. toolCall' = [toolCall EXCEPT ![s] = t]
    BY <1>2, <2>1 DEF AfterClaim, StepAfter
  <2>3. t \in ToolCalls /\ (t.claim = c \/ t.claim = 0) /\ t.pc \in {"idle", "declare"} /\ (t.pc = "declare" => t.claim = c)
    BY <1>1, <2>1, NoCallTyped DEF NoCall, ToolCalls
  <2>4. /\ toolCall' \in [Session -> ToolCalls] /\ toolCall'[s] = t
        /\ \A o \in Session \ {s} : toolCall'[o] = toolCall[o]
    BY <2>2, <2>3 DEF ToolsInv, ToolsType
  <2>5. CallsOwn'
    <3> SUFFICES ASSUME NEW o \in Session
                 PROVE  /\ toolCall'[o].claim # 0 => toolCall'[o].claim \in Claim' /\ claimed'[toolCall'[o].claim].by = o
                        /\ toolCall'[o].pc \in {"declare", "active", "sets", "act"} => toolCall'[o].claim # 0
                        /\ toolCall'[o].pc = "claim" => toolCall'[o].row \in Row
      BY DEF CallsOwn
    <3>1. CASE o = s
      BY <1>2, <2>3, <2>4, <3>1
    <3>2. CASE o # s
      <4>1. toolCall'[o] = toolCall[o]
        BY <2>4, <3>2
      <4>2. toolCall[o].claim # 0 => toolCall[o].claim \in Claim /\ claimed[toolCall[o].claim].by = o
        BY DEF ToolsInv, CallsOwn
      <4>3. /\ toolCall[o].pc \in {"declare", "active", "sets", "act"} => toolCall[o].claim # 0
            /\ toolCall[o].pc = "claim" => toolCall[o].row \in Row
        BY DEF ToolsInv, CallsOwn
      <4> QED BY <1>2, <4>1, <4>2, <4>3
    <3> QED BY <3>1, <3>2
  <2> QED BY <2>4, <2>5
<1>3. CASE /\ claimed' = Append(Swept(w), [row |-> w, by |-> s, status |-> "running", lapsed |-> FALSE,
                                           excused |-> FALSE, scopes |-> {}])
           /\ AfterClaim(s, Len(claimed) + 1)
  <2> DEFINE new == [row |-> w, by |-> s, status |-> "running", lapsed |-> FALSE, excused |-> FALSE, scopes |-> {}]
             n == Len(claimed)
  <2>1. new \in ClaimRecord /\ new.by = s /\ new.scopes = {} /\ ~new.lapsed
    BY <1>1 DEF ClaimRecord, Held
  <2> HIDE DEF new
  <2>2. n \in Nat /\ Claim = 1 .. n /\ Swept(w) \in Seq(ClaimRecord) /\ Len(Swept(w)) = n
    BY SweptIs DEF ToolsInv, ToolsType, Claim
  <2>3. claimed' = Append(Swept(w), new)
    BY <1>3 DEF new
  <2>4. /\ claimed' \in Seq(ClaimRecord) /\ DOMAIN claimed' = 1 .. n + 1 /\ claimed'[n + 1] = new
        /\ \A c \in 1 .. n : claimed'[c] = Swept(w)[c]
    BY <2>1, <2>2, <2>3
  <2>5. Claim' = 1 .. n + 1 /\ Claim \subseteq Claim' /\ \A c \in Claim' : c \in Claim \/ c = n + 1
    BY <2>2, <2>4 DEF Claim
  <2>6. \A c \in Claim : /\ claimed'[c].by = claimed[c].by /\ claimed'[c].scopes = claimed[c].scopes
                         /\ Counted(c)' => Counted(c)
                         /\ claimed'[c].lapsed => claimed'[c].excused
    BY <2>2, <2>4, SweptIs DEF Counted, ToolsInv, LapseExcuses
  <2>7. LapseExcuses'
    BY <2>1, <2>4, <2>5, <2>6 DEF LapseExcuses
  <2>8. n + 1 \in Nat \ {0} /\ n + 1 \in Claim'
    BY <2>2, <2>5
  <2>9. ToolsType' /\ CallsOwn' /\ \A o \in Session \ {s} : toolCall'[o] = toolCall[o]
    BY <1>2, <1>3, <2>1, <2>4, <2>5, <2>6, <2>8 DEF ToolsType
  <2> QED BY <1>1, <2>1, <2>4, <2>5, <2>6, <2>7, <2>9, NothingDeclared
<1>4. ASSUME NEW c \in Holding(w), claimed[c].by = s, claimed' = [claimed EXCEPT ![c].status = "running"], AfterClaim(s, c)
      PROVE  ToolsInv'
  <2>1. c \in Claim /\ claimed[c].status \in Held /\ claimed[c] \in ClaimRecord /\ c \in Nat \ {0}
    <3>1. c \in Claim /\ claimed[c].status \in Held
      BY <1>4 DEF Holding
    <3> QED BY <3>1, ClaimTyped DEF ToolsInv
  <2> DEFINE r == [claimed[c] EXCEPT !.status = "running"]
  <2>2. /\ r \in ClaimRecord /\ r.by = claimed[c].by /\ r.scopes = claimed[c].scopes /\ r.lapsed = claimed[c].lapsed
        /\ r.excused = claimed[c].excused
    BY <2>1 DEF ClaimRecord, Held
  <2>3. claimed' = [claimed EXCEPT ![c] = r]
    BY <1>4
  <2> HIDE DEF r
  <2>4. /\ claimed' \in Seq(ClaimRecord) /\ Claim' = Claim /\ claimed'[c] = r
        /\ \A d \in Claim \ {c} : claimed'[d] = claimed[d]
    BY <2>1, <2>2, <2>3, OneClaimIs
  <2>5. \A d \in Claim : /\ claimed'[d].by = claimed[d].by /\ claimed'[d].scopes = claimed[d].scopes
                         /\ Counted(d)' => Counted(d)
                         /\ claimed'[d].lapsed => claimed'[d].excused
    BY <2>1, <2>2, <2>4 DEF Counted, ToolsInv, LapseExcuses
  <2>6. LapseExcuses'
    BY <2>4, <2>5 DEF LapseExcuses
  <2>7. ToolsType' /\ CallsOwn' /\ \A o \in Session \ {s} : toolCall'[o] = toolCall[o]
    BY <1>2, <1>4, <2>1, <2>4, <2>5 DEF ToolsType
  <2> QED BY <1>1, <2>4, <2>5, <2>6, <2>7, NothingDeclared
<1> QED BY <1>3, <1>4 DEF ClaimCommits

LEMMA ActKeeps ==
  ASSUME ToolsInv, NEW s \in Session, HeartbeatActs(s) \/ ReleaseActs(s)
  PROVE  ToolsInv'
<1> DEFINE c == toolCall[s].claim
<1>1. /\ toolCall[s].pc = "act" /\ told' = told /\ toolCall' = [toolCall EXCEPT ![s] = NoCall]
      /\ c \in Claim /\ claimed[c] \in ClaimRecord
  <2>1. toolCall[s].pc = "act" /\ told' = told /\ toolCall' = [toolCall EXCEPT ![s] = NoCall]
    BY DEF HeartbeatActs, ReleaseActs, Ended
  <2>2. c \in Claim
    BY <2>1 DEF ToolsInv, CallsOwn
  <2> QED BY <2>1, <2>2, ClaimTyped DEF ToolsInv
<1>2. CASE claimed' = claimed
  <2>1. claimed' \in Seq(ClaimRecord) /\ Claim' = Claim
    BY <1>2 DEF ToolsInv, ToolsType, Claim
  <2>2. \A d \in Claim : Counted(d)' => Counted(d)
    BY <1>2 DEF Counted
  <2> QED BY <1>1, <1>2, <2>1, <2>2, ClaimsMove DEF ToolsInv, LapseExcuses
<1>3. ASSUME NEW r \in ClaimRecord, claimed' = [claimed EXCEPT ![c] = r], r.by = claimed[c].by,
             r.scopes = claimed[c].scopes, r.excused = claimed[c].excused, r.lapsed => claimed[c].lapsed,
             r.status \in Held => claimed[c].status \in Held
      PROVE  ToolsInv'
  <2>1. /\ claimed' \in Seq(ClaimRecord) /\ Claim' = Claim /\ claimed'[c] = r
        /\ \A d \in Claim \ {c} : claimed'[d] = claimed[d]
    BY <1>1, <1>3, OneClaimIs
  <2>2. \A d \in Claim : /\ claimed'[d].by = claimed[d].by /\ claimed'[d].scopes = claimed[d].scopes
                         /\ Counted(d)' => Counted(d)
                         /\ claimed'[d].lapsed => claimed'[d].excused
    BY <1>1, <1>3, <2>1 DEF Counted, ToolsInv, LapseExcuses
  <2> QED BY <1>1, <2>1, <2>2, ClaimsMove
<1>4. CASE HeartbeatActs(s)
  <2>1. CASE claimed[c].status = "running"
    <3> DEFINE r == [claimed[c] EXCEPT !.lapsed = FALSE]
    <3>1. /\ r \in ClaimRecord /\ r.by = claimed[c].by /\ r.scopes = claimed[c].scopes /\ ~r.lapsed
          /\ r.excused = claimed[c].excused /\ r.status = claimed[c].status
      BY <1>1 DEF ClaimRecord
    <3>2. claimed' = [claimed EXCEPT ![c] = r]
      BY <1>4, <2>1 DEF HeartbeatActs
    <3> HIDE DEF r
    <3> QED BY <1>3, <3>1, <3>2
  <2>2. CASE claimed[c].status # "running"
    BY <1>2, <1>4, <2>2 DEF HeartbeatActs
  <2> QED BY <2>1, <2>2
<1>5. CASE ReleaseActs(s)
  <2>1. CASE claimed[c].status \in Held
    <3> DEFINE r == [claimed[c] EXCEPT !.status = toolCall[s].tool]
    <3>1. toolCall[s].tool \in {"released", "paused", "blocked"}
      BY <1>5 DEF ReleaseActs
    <3>2. /\ r \in ClaimRecord /\ r.by = claimed[c].by /\ r.scopes = claimed[c].scopes /\ r.lapsed = claimed[c].lapsed
          /\ r.excused = claimed[c].excused
      BY <1>1, <3>1 DEF ClaimRecord, Held
    <3>3. claimed' = [claimed EXCEPT ![c] = r]
      BY <1>5, <2>1 DEF ReleaseActs
    <3> HIDE DEF r
    <3> QED BY <1>3, <2>1, <3>2, <3>3
  <2>2. CASE claimed[c].status \notin Held
    BY <1>2, <1>5, <2>2 DEF ReleaseActs
  <2> QED BY <2>1, <2>2
<1> QED BY <1>4, <1>5

LEMMA OthersKeep ==
  ASSUME ToolsInv,
         \/ \E s \in Session, w \in Row : RecoverBlocked(s, w)
         \/ \E c \in Claim : LeaseLapses(c) \/ ReaperSweeps(c)
  PROVE  ToolsInv'
<1>1. told' = told /\ toolCall' = toolCall
  BY DEF RecoverBlocked, LeaseLapses, ReaperSweeps
<1>2. \A o \in Session : toolCall[o].pc \in {"active", "sets"} => toolCall'[o] = toolCall[o]
  BY <1>1
<1>3. ASSUME claimed' \in Seq(ClaimRecord), Claim' = Claim,
             \A d \in Claim : /\ claimed'[d].by = claimed[d].by /\ claimed'[d].scopes = claimed[d].scopes
                              /\ Counted(d)' => Counted(d)
                              /\ claimed'[d].lapsed => claimed'[d].excused
      PROVE  ToolsInv'
  <2>1. ToolsType' /\ LapseExcuses' /\ CallsOwn'
    BY <1>1, <1>3 DEF ToolsInv, ToolsType, LapseExcuses, CallsOwn
  <2> QED BY <1>1, <1>2, <1>3, <2>1, NothingDeclared
<1>4. ASSUME NEW s \in Session, NEW w \in Row, RecoverBlocked(s, w) PROVE ToolsInv'
  <2>1. claimed' = Swept(w)
    BY <1>4 DEF RecoverBlocked
  <2> QED BY <1>3, <2>1, SweptIs DEF Claim, Counted, ToolsInv, LapseExcuses
<1>5. ASSUME NEW c \in Claim, LeaseLapses(c) \/ ReaperSweeps(c) PROVE ToolsInv'
  <2>1. claimed[c] \in ClaimRecord
    BY <1>5, ClaimTyped DEF ToolsInv
  <2>2. PICK r \in {[claimed[c] EXCEPT !.lapsed = TRUE, !.excused = TRUE], [claimed[c] EXCEPT !.status = "released"]} :
          claimed' = [claimed EXCEPT ![c] = r]
    BY <1>5 DEF LeaseLapses, ReaperSweeps
  <2>3. /\ r \in ClaimRecord /\ r.by = claimed[c].by /\ r.scopes = claimed[c].scopes
        /\ r.excused \/ (r.excused = claimed[c].excused /\ r.lapsed = claimed[c].lapsed)
        /\ ~(r.status \in Held /\ ~r.excused)
    BY <2>1, <2>2 DEF ClaimRecord, Held
  <2>4. /\ claimed' \in Seq(ClaimRecord) /\ Claim' = Claim /\ claimed'[c] = r
        /\ \A d \in Claim \ {c} : claimed'[d] = claimed[d]
    BY <2>2, <2>3, OneClaimIs
  <2>5. \A d \in Claim : /\ claimed'[d].by = claimed[d].by /\ claimed'[d].scopes = claimed[d].scopes
                         /\ Counted(d)' => Counted(d)
                         /\ claimed'[d].lapsed => claimed'[d].excused
    BY <2>3, <2>4 DEF Counted, ToolsInv, LapseExcuses
  <2> QED BY <1>3, <2>4, <2>5
<1> QED BY <1>4, <1>5

LEMMA DeclareKeeps ==
  ASSUME ToolsInv, NEW s \in Session, Declares(s)
  PROVE  ToolsInv'
<1> DEFINE c == toolCall[s].claim
           r == [claimed[c] EXCEPT !.scopes = claimed[c].scopes \cup toolCall[s].scopes]
           t == [toolCall[s] EXCEPT !.pc = "active"]
<1>1. toolCall[s].pc = "declare" /\ told' = told /\ toolCall[s] \in ToolCalls /\ c \in Claim /\ claimed[c].by = s
  BY DEF Declares, ToolsInv, CallsOwn, ToolsType
<1>2. claimed[c] \in ClaimRecord
  BY <1>1, ClaimTyped DEF ToolsInv
<1>3. /\ r \in ClaimRecord /\ r.by = claimed[c].by /\ r.lapsed = claimed[c].lapsed /\ r.excused = claimed[c].excused
      /\ r.status = claimed[c].status /\ r.scopes = claimed[c].scopes \cup toolCall[s].scopes
  <2>1. claimed[c].scopes \cup toolCall[s].scopes \in SUBSET Scopes
    BY <1>1, <1>2 DEF ClaimRecord, ToolCalls
  <2> QED BY <1>2, <2>1 DEF ClaimRecord
<1>4. claimed' = [claimed EXCEPT ![c] = r] /\ toolCall' = [toolCall EXCEPT ![s] = t]
  <2>1. claimed' = [claimed EXCEPT ![c] = r]
    BY DEF Declares
  <2>2. toolCall' = [toolCall EXCEPT ![s] = [toolCall[s] EXCEPT !.pc = "active", !.active = toolCall[s].active]]
    BY DEF Declares, Goes, StepAfter
  <2>3. [toolCall[s] EXCEPT !.pc = "active", !.active = toolCall[s].active] = t
    BY <1>1 DEF ToolCalls
  <2> QED BY <2>1, <2>2, <2>3
<1>5. /\ t \in ToolCalls /\ t.pc = "active" /\ t.claim = c /\ t.scopes = toolCall[s].scopes
  BY <1>1 DEF ToolCalls
<1> HIDE DEF r, t
<1>6. /\ claimed' \in Seq(ClaimRecord) /\ Claim' = Claim /\ claimed'[c] = r
      /\ \A d \in Claim \ {c} : claimed'[d] = claimed[d]
  BY <1>1, <1>3, <1>4, OneClaimIs
<1>7. toolCall' \in [Session -> ToolCalls] /\ toolCall'[s] = t /\ \A o \in Session \ {s} : toolCall'[o] = toolCall[o]
  BY <1>4, <1>5 DEF ToolsInv, ToolsType
<1>8. \A d \in Claim : claimed'[d].by = claimed[d].by /\ (Counted(d)' <=> Counted(d)) /\ claimed'[d].lapsed = claimed[d].lapsed
                       /\ claimed'[d].excused = claimed[d].excused
  BY <1>3, <1>6 DEF Counted
<1>9. ToolsType' /\ LapseExcuses'
  BY <1>6, <1>7, <1>8 DEF ToolsInv, ToolsType, LapseExcuses
<1>10. CallsOwn'
  <2> SUFFICES ASSUME NEW o \in Session
               PROVE  /\ toolCall'[o].claim # 0 => toolCall'[o].claim \in Claim' /\ claimed'[toolCall'[o].claim].by = o
                      /\ toolCall'[o].pc \in {"declare", "active", "sets", "act"} => toolCall'[o].claim # 0
                      /\ toolCall'[o].pc = "claim" => toolCall'[o].row \in Row
    BY DEF CallsOwn
  <2>1. CASE o = s
    BY <1>1, <1>5, <1>6, <1>7, <1>8, <2>1 DEF ToolsInv, CallsOwn
  <2>2. CASE o # s
    BY <1>6, <1>7, <1>8, <2>2 DEF ToolsInv, CallsOwn
  <2> QED BY <2>1, <2>2
<1>11. \A d \in Claim : claimed[d].by \in Session
  BY ClaimTyped DEF ToolsInv
\* Who will look still will: before, the caller was not at looking.
<1>12. ASSUME NEW d \in Claim, NEW e \in Claim, WillLook(d, e) PROVE WillLook(d, e)'
  <2>1. claimed[d].by # s
    BY <1>1, <1>12 DEF WillLook
  <2> QED BY <1>7, <1>8, <1>11, <1>12, <2>1 DEF WillLook
<1>13. ASSUME NEW d \in Claim', NEW e \in Claim', Overlap(d, e)', Counted(d)', Counted(e)'
       PROVE  ({d, e} \in told \/ WillLook(d, e) \/ WillLook(e, d))'
  <2>1. d \in Claim /\ e \in Claim /\ Counted(d) /\ Counted(e)
    BY <1>6, <1>8, <1>13
  <2>2. CASE toolCall[s].scopes # {} /\ (d = c \/ e = c)
    <3>1. ASSUME NEW x \in Claim, NEW y \in Claim, x = c PROVE WillLook(x, y)'
      <4>1. toolCall'[claimed'[x].by].claim = x /\ toolCall'[claimed'[x].by].scopes # {}
            /\ toolCall'[claimed'[x].by].pc = "active"
        BY <1>1, <1>5, <1>7, <1>8, <2>2, <3>1
      <4> QED BY <4>1 DEF WillLook
    <3> QED BY <2>1, <2>2, <3>1
  <2>3. CASE ~(toolCall[s].scopes # {} /\ (d = c \/ e = c))
    <3>1. Overlap(d, e)
      <4>1. CASE d = c \/ e = c
        <5>1. claimed'[c].scopes = claimed[c].scopes
          BY <1>3, <1>6, <2>3, <4>1
        <5>2. claimed'[d].scopes = claimed[d].scopes /\ claimed'[e].scopes = claimed[e].scopes
          BY <1>6, <2>1, <5>1
        <5> QED BY <1>8, <1>13, <2>1, <5>2 DEF Overlap
      <4>2. CASE d # c /\ e # c
        BY <1>6, <1>13, <2>1, <4>2 DEF Overlap
      <4> QED BY <4>1, <4>2
    <3> QED BY <1>1, <1>12, <2>1, <3>1 DEF ToolsInv, ToldOrWill
  <2> QED BY <2>2, <2>3
<1> QED BY <1>9, <1>10, <1>13 DEF ToolsInv, ToldOrWill

LEMMA LookActiveKeeps ==
  ASSUME ToolsInv, NEW s \in Session, LooksForActive(s)
  PROVE  ToolsInv'
<1> DEFINE live == {x \in Claim : claimed[x].status \in Held /\ ~claimed[x].lapsed}
           t == [toolCall[s] EXCEPT !.pc = "sets", !.active = live]
<1>1. toolCall[s].pc = "active" /\ UNCHANGED <<claimed, told>> /\ toolCall[s] \in ToolCalls /\ Claim \subseteq Nat
  BY DEF LooksForActive, ToolsInv, ToolsType, Claim
<1>2. toolCall' = [toolCall EXCEPT ![s] = t]
  BY DEF LooksForActive, Goes, StepAfter
<1>3. t \in ToolCalls /\ t.pc = "sets" /\ t.active = live /\ t.claim = toolCall[s].claim /\ t.scopes = toolCall[s].scopes
  BY <1>1 DEF ToolCalls
<1> HIDE DEF t
<1>4. toolCall' \in [Session -> ToolCalls] /\ toolCall'[s] = t /\ \A o \in Session \ {s} : toolCall'[o] = toolCall[o]
  BY <1>2, <1>3 DEF ToolsInv, ToolsType
<1>5. Claim' = Claim /\ claimed' = claimed
  BY <1>1 DEF Claim
<1>6. ToolsType' /\ LapseExcuses'
  BY <1>4, <1>5 DEF ToolsInv, ToolsType, LapseExcuses
<1>7. CallsOwn'
  BY <1>1, <1>3, <1>4, <1>5 DEF ToolsInv, CallsOwn
<1>8. ASSUME NEW c \in Claim, NEW d \in Claim, Counted(c), Counted(d), WillLook(c, d) PROVE WillLook(c, d)'
  <2>1. c \in live /\ d \in live /\ claimed[c].by \in Session
    BY <1>8, ClaimTyped DEF Counted, ToolsInv, LapseExcuses
  <2>2. CASE claimed[c].by = s
    BY <1>1, <1>3, <1>4, <1>5, <1>8, <2>1, <2>2 DEF WillLook
  <2>3. CASE claimed[c].by # s
    BY <1>4, <1>5, <1>8, <2>1, <2>3 DEF WillLook
  <2> QED BY <2>2, <2>3
<1>9. \A c, d \in Claim : (Counted(c)' <=> Counted(c)) /\ (Overlap(c, d)' <=> Overlap(c, d))
  BY <1>5 DEF Counted, Overlap
<1>10. ToldOrWill'
  BY <1>1, <1>5, <1>8, <1>9 DEF ToolsInv, ToldOrWill
<1> QED BY <1>6, <1>7, <1>10 DEF ToolsInv

LEMMA LookSetsKeeps ==
  ASSUME ToolsInv, NEW s \in Session, LooksAtSets(s)
  PROVE  ToolsInv'
<1> DEFINE own == toolCall[s].claim
<1>1. toolCall[s].pc = "sets" /\ claimed' = claimed
  BY DEF LooksAtSets
<1>2. toolCall' = [toolCall EXCEPT ![s] = NoCall]
  BY DEF LooksAtSets, Goes, StepAfter
<1>3. toolCall' \in [Session -> ToolCalls] /\ toolCall'[s] = NoCall /\ \A o \in Session \ {s} : toolCall'[o] = toolCall[o]
  BY <1>2, NoCallTyped DEF ToolsInv, ToolsType
<1>4. Claim' = Claim
  BY <1>1 DEF Claim
<1>5. ToolsType' /\ LapseExcuses'
  BY <1>1, <1>3, <1>4 DEF ToolsInv, ToolsType, LapseExcuses
<1>6. CallsOwn'
  BY <1>1, <1>3, <1>4, NoCallTyped DEF ToolsInv, CallsOwn
<1>7. /\ told \subseteq told'
      /\ \A d \in toolCall[s].active : own \in toolCall[s].active /\ d # own /\ Overlap(own, d) => {own, d} \in told'
  BY DEF LooksAtSets
<1>8. ASSUME NEW c \in Claim, NEW d \in Claim, Overlap(c, d), WillLook(c, d) PROVE {c, d} \in told' \/ WillLook(c, d)'
  <2>1. claimed[c].by \in Session /\ c # d
    BY <1>8, ClaimTyped DEF ToolsInv, Overlap
  <2>2. CASE claimed[c].by = s
    <3>1. own = c /\ c \in toolCall[s].active /\ d \in toolCall[s].active
      BY <1>1, <1>8, <2>2 DEF WillLook
    <3> QED BY <1>7, <1>8, <2>1, <3>1
  <2>3. CASE claimed[c].by # s
    BY <1>1, <1>3, <1>8, <2>1, <2>3 DEF WillLook
  <2> QED BY <2>2, <2>3
<1>9. \A c, d \in Claim : /\ Counted(c)' <=> Counted(c)
                          /\ Overlap(c, d)' <=> Overlap(c, d)
                          /\ Overlap(c, d) => Overlap(d, c)
                          /\ {c, d} = {d, c}
  BY <1>1 DEF Counted, Overlap
<1>10. ASSUME NEW c \in Claim', NEW d \in Claim', Overlap(c, d)', Counted(c)', Counted(d)'
       PROVE  ({c, d} \in told \/ WillLook(c, d) \/ WillLook(d, c))'
  <2>1. c \in Claim /\ d \in Claim /\ Overlap(c, d) /\ Overlap(d, c) /\ Counted(c) /\ Counted(d) /\ {c, d} = {d, c}
    BY <1>4, <1>9, <1>10
  <2>2. {c, d} \in told \/ WillLook(c, d) \/ WillLook(d, c)
    BY <2>1 DEF ToolsInv, ToldOrWill
  <2>3. WillLook(c, d) => {c, d} \in told' \/ WillLook(c, d)'
    BY <1>8, <2>1
  <2>4. WillLook(d, c) => {d, c} \in told' \/ WillLook(d, c)'
    BY <1>8, <2>1
  <2> QED BY <1>7, <2>1, <2>2, <2>3, <2>4
<1> QED BY <1>5, <1>6, <1>10 DEF ToolsInv, ToldOrWill

\* A call that dies while it owes a look leaves its claim excused.
LEMMA DeathKeeps ==
  ASSUME ToolsInv, NEW s \in Session, ServerDies(s)
  PROVE  ToolsInv'
<1> DEFINE own == toolCall[s].claim
           owes == toolCall[s].scopes # {} /\ own # 0
<1>1. toolCall' = [toolCall EXCEPT ![s] = NoCall] /\ told' = told
  BY DEF ServerDies, Ended
<1>2. toolCall' \in [Session -> ToolCalls] /\ toolCall'[s] = NoCall /\ \A o \in Session \ {s} : toolCall'[o] = toolCall[o]
  BY <1>1, NoCallTyped DEF ToolsInv, ToolsType
<1>3. /\ claimed' \in Seq(ClaimRecord) /\ Claim' = Claim
      /\ \A c \in Claim : /\ claimed'[c].by = claimed[c].by /\ claimed'[c].scopes = claimed[c].scopes
                          /\ claimed'[c].status = claimed[c].status /\ claimed'[c].lapsed = claimed[c].lapsed
                          /\ claimed'[c].excused = (claimed[c].excused \/ (owes /\ c = own))
  <2>1. CASE owes
    <3> DEFINE r == [claimed[own] EXCEPT !.excused = TRUE]
    <3>1. own \in Claim /\ claimed[own] \in ClaimRecord
      <4>1. own \in Claim
        BY <2>1 DEF ToolsInv, CallsOwn
      <4> QED BY <4>1, ClaimTyped DEF ToolsInv
    <3>2. /\ r \in ClaimRecord /\ r.by = claimed[own].by /\ r.scopes = claimed[own].scopes /\ r.excused
          /\ r.status = claimed[own].status /\ r.lapsed = claimed[own].lapsed
      BY <3>1 DEF ClaimRecord
    <3>3. claimed' = [claimed EXCEPT ![own] = r]
      BY <2>1 DEF ServerDies
    <3> HIDE DEF r
    <3>4. /\ claimed' \in Seq(ClaimRecord) /\ Claim' = Claim /\ claimed'[own] = r
          /\ \A d \in Claim \ {own} : claimed'[d] = claimed[d]
      BY <3>1, <3>2, <3>3, OneClaimIs
    <3>5. \A c \in Claim : claimed[c].excused \in BOOLEAN
      BY ClaimTyped DEF ToolsInv, ClaimRecord
    <3> QED BY <2>1, <3>2, <3>4, <3>5
  <2>2. CASE ~owes
    <3>1. claimed' = claimed
      BY <2>2 DEF ServerDies
    <3>2. \A c \in Claim : claimed[c].excused \in BOOLEAN
      BY ClaimTyped DEF ToolsInv, ClaimRecord
    <3> QED BY <2>2, <3>1, <3>2 DEF Claim, ToolsInv, ToolsType
  <2> QED BY <2>1, <2>2
<1>4. ToolsType' /\ LapseExcuses'
  BY <1>2, <1>3 DEF ToolsInv, ToolsType, LapseExcuses
<1>5. CallsOwn'
  BY <1>2, <1>3, NoCallTyped DEF ToolsInv, CallsOwn
<1>6. ASSUME NEW c \in Claim, NEW d \in Claim, WillLook(c, d), Counted(c)' PROVE WillLook(c, d)'
  <2>1. claimed[c].by \in Session /\ c # 0
    BY ClaimTyped DEF ToolsInv, ToolsType, Claim
  <2>2. ~(owes /\ c = own)
    BY <1>3, <1>6 DEF Counted
  <2>3. claimed[c].by # s
    BY <1>6, <2>1, <2>2 DEF WillLook
  <2> QED BY <1>2, <1>3, <1>6, <2>1, <2>3 DEF WillLook
<1>7. ASSUME NEW c \in Claim', NEW d \in Claim', Overlap(c, d)', Counted(c)', Counted(d)'
      PROVE  ({c, d} \in told \/ WillLook(c, d) \/ WillLook(d, c))'
  <2>1. c \in Claim /\ d \in Claim /\ Overlap(c, d) /\ Counted(c) /\ Counted(d)
    BY <1>3, <1>7 DEF Overlap, Counted
  <2> QED BY <1>1, <1>6, <1>7, <2>1 DEF ToolsInv, ToldOrWill
<1> QED BY <1>4, <1>5, <1>7 DEF ToolsInv, ToldOrWill

LEMMA ToolsInvKept == ToolsInv /\ [ToolNext]_toolVars => ToolsInv'
<1> SUFFICES ASSUME ToolsInv, [ToolNext]_toolVars PROVE ToolsInv'
  OBVIOUS
<1>1. CASE UNCHANGED toolVars
  BY <1>1 DEF toolVars, ToolsInv, ToolsType, CallsOwn, LapseExcuses, ToldOrWill, Claim, Counted, Overlap, WillLook
<1>2. CASE ToolNext
  <2>1. CASE \E s \in Session : LooksForActive(s) \/ LooksAtSets(s) \/ ServerDies(s) \/ Declares(s)
    BY <2>1, LookActiveKeeps, LookSetsKeeps, DeathKeeps, DeclareKeeps
  <2>2. CASE \E s \in Session : ClaimCommits(s) \/ HeartbeatActs(s) \/ ReleaseActs(s)
    BY <2>2, CommitKeeps, ActKeeps
  <2>3. CASE \/ \E s \in Session, w \in Row : RecoverBlocked(s, w)
             \/ \E c \in Claim : LeaseLapses(c) \/ ReaperSweeps(c)
    BY <2>3, OthersKeep
  <2>4. CASE \/ \E s \in Session, w \in Row, seed, scoped \in BOOLEAN :
                  ClaimReads(s, w, seed, IF scoped THEN WriteScope[s] ELSE {})
             \/ \E s \in Session, c \in 1 .. MaxClaimed : DeclareReads(s, c, WriteScope[s])
             \/ \E s \in Session, c \in 1 .. MaxClaimed, tool \in {"heartbeat", "released", "paused", "blocked"} :
                  ResolveClaim(s, c, tool)
             \/ \E s \in Session : ClaimRefused(s)
    BY <2>4, ReadKeeps
  <2> QED BY <1>2, <2>1, <2>2, <2>3, <2>4 DEF ToolNext
<1> QED BY <1>1, <1>2

-----------------------------------------------------------------------------
(* The tools of a claim: refusals.                                         *)

\* A candidate does not count now.
Short(c) == ~(ValidForm(form[c]) /\ (RequiresTracking(c) => c \in carried))
Asking == [pc : {"idle", "examine", "token", "list", "refresh"}, attempt : 0 .. 2, valid : SUBSET Cand, token : Nat]
ProofType == asked \in Asking /\ token \in Nat /\ failed \subseteq Cand /\ outcome \in {"none", "refused", "completed"}
\* Whatever falls short during a call is remembered, and so is what it found short.
ShortIsSeen ==
  /\ asked.pc # "idle" => outcome = "none" /\ \A c \in Cand : Short(c) => c \in failed
  /\ asked.pc \in {"token", "list", "refresh"} => \A c \in Cand : c \notin asked.valid => c \in failed
\* After the refresh what is kept was listed during the call.
ListedAnew ==
  asked.pc # "idle" /\ asked.attempt = 2 =>
    \A x \in DOMAIN kept, c \in Cand : RequiresTracking(c) /\ c \notin kept[x] => c \in failed
ProofInv == ProofType /\ ShortIsSeen /\ ListedAnew /\ NotRefusedInVain

\* A completion refused for want of git is tried once more: the kind of the
\* signal as a whole decides (_complete_claim_with_proof_index_refresh).
RetryIsTried == RequiresTracking(Named) \/ \A c \in Cand : ~RequiresTracking(c)

LEMMA ProofInvInit == ProofInit => ProofInv
BY DEF ProofInit, Idle, ProofInv, ProofType, Asking, ShortIsSeen, ListedAnew, NotRefusedInVain

LEMMA ProofInvKept ==
  ASSUME RetryIsTried, ProofInv, [ProofNext]_proofVars
  PROVE  ProofInv'
<1>1. CASE UNCHANGED proofVars
  BY <1>1 DEF proofVars, ProofInv, ProofType, ShortIsSeen, ListedAnew, NotRefusedInVain, Short
\* The files and the index change under a call, or under none.
<1>2. ASSUME UNCHANGED <<kept, asked, outcome>>, token' \in Nat, Watch PROVE ProofInv'
  <2>1. failed \subseteq failed' /\ failed' \subseteq Cand
    BY <1>2 DEF Watch, ProofInv, ProofType
  <2>2. asked'.pc # "idle" => \A c \in Cand : Short(c)' => c \in failed'
    BY <1>2 DEF Watch, Counts, Short
  <2>3. asked.pc = "idle" => failed' = failed
    BY <1>2 DEF Watch
  <2> QED BY <1>2, <2>1, <2>2, <2>3 DEF ProofInv, ProofType, ShortIsSeen, ListedAnew, NotRefusedInVain
<1>3. ASSUME NEW c \in Cand, \E f \in Form : FileChanges(c, f) PROVE ProofInv'
  BY <1>2, <1>3 DEF FileChanges, ProofInv, ProofType
<1>4. ASSUME NEW c \in Cand, \E moves \in BOOLEAN : IndexChanges(c, moves) PROVE ProofInv'
  BY <1>2, <1>4 DEF IndexChanges, ProofInv, ProofType
<1>5. CASE CompleteBegins
  <2>1. asked' = [pc |-> "examine", attempt |-> 1, valid |-> {}, token |-> 0]
    BY <1>5 DEF CompleteBegins, Idle
  <2>3. asked' \in Asking /\ asked'.pc = "examine" /\ asked'.attempt = 1
    BY <2>1 DEF Asking
  <2>2. failed' \subseteq Cand /\ \A c \in Cand : Short(c)' => c \in failed'
    BY <1>5 DEF CompleteBegins, Short
  <2> QED BY <1>5, <2>2, <2>3 DEF CompleteBegins, ProofInv, ProofType, ShortIsSeen, ListedAnew, NotRefusedInVain
\* A step of a call that goes on: what was seen short stays so.
<1>6. ASSUME asked.pc # "idle", asked'.pc # "idle", UNCHANGED <<form, carried, outcome>>, Watch
      PROVE  /\ failed \subseteq failed' /\ failed' \subseteq Cand /\ \A c \in Cand : Short(c)' => c \in failed'
             /\ \A c \in Cand : Short(c)' <=> Short(c)
  BY <1>6 DEF Watch, Counts, Short, ProofInv, ProofType
<1>7. CASE Examine
  <2>1. asked' \in Asking /\ asked'.pc = "token" /\ asked'.attempt = asked.attempt /\ asked'.valid = {c \in Cand : ValidForm(form[c])}
    BY <1>7 DEF Examine, Asking, ProofInv, ProofType
  <2>2. \A c \in Cand : c \notin asked'.valid => Short(c)
    BY <2>1 DEF Short
  <2>3. /\ failed \subseteq failed' /\ failed' \subseteq Cand /\ \A c \in Cand : Short(c)' => c \in failed'
        /\ \A c \in Cand : Short(c)' <=> Short(c)
    BY <1>6, <1>7, <2>1 DEF Examine
  <2> QED BY <1>7, <2>1, <2>2, <2>3 DEF Examine, ProofInv, ProofType, ShortIsSeen, ListedAnew, NotRefusedInVain
<1>8. CASE ReadToken
  <2>1. asked' \in Asking /\ asked'.pc = "list" /\ asked'.attempt = asked.attempt /\ asked'.valid = asked.valid
    BY <1>8 DEF ReadToken, Asking, ProofInv, ProofType
  <2>2. failed \subseteq failed' /\ failed' \subseteq Cand /\ \A c \in Cand : Short(c)' => c \in failed'
    BY <1>6, <1>8, <2>1 DEF ReadToken
  <2> QED BY <1>8, <2>1, <2>2 DEF ReadToken, ProofInv, ProofType, ShortIsSeen, ListedAnew, NotRefusedInVain
<1>9. CASE RefreshIndex
  <2>1. asked' \in Asking /\ asked'.pc = "examine"
    <3> DEFINE a == [asked EXCEPT !.pc = "examine"]
    <3>1. asked \in Asking
      BY DEF ProofInv, ProofType
    <3>2. a \in Asking /\ a.pc = "examine"
      BY <3>1 DEF Asking
    <3>3. asked' = [a EXCEPT !.attempt = 2]
      BY <1>9 DEF RefreshIndex
    <3> HIDE DEF a
    <3> QED BY <3>2, <3>3 DEF Asking
  <2>2. /\ failed \subseteq failed' /\ failed' \subseteq Cand /\ \A c \in Cand : Short(c)' => c \in failed'
        /\ \A c \in Cand : Short(c)' <=> Short(c)
    BY <1>6, <1>9, <2>1 DEF RefreshIndex
  <2>3. \A x \in DOMAIN kept' : kept'[x] = carried
    BY <1>9 DEF RefreshIndex, Refreshed
  <2>4. \A c \in Cand : RequiresTracking(c) /\ c \notin carried => Short(c)
    BY DEF Short
  <2>5. ListedAnew'
    BY <2>2, <2>3, <2>4 DEF ListedAnew
  <2> QED BY <1>9, <2>1, <2>2, <2>5 DEF RefreshIndex, ProofInv, ProofType, ShortIsSeen, NotRefusedInVain
<1>10. CASE ListAndDecide
  <2> DEFINE x == asked.token  listing == Listing(x)
  <2>1. asked.pc = "list" /\ asked.attempt \in 0 .. 2 /\ UNCHANGED <<form, carried, token>>
    BY <1>10 DEF ListAndDecide, ProofInv, ProofType, Asking
  <2>2. DOMAIN kept' = DOMAIN kept \cup {x} /\ \A y \in DOMAIN kept' : kept'[y] = IF y = x THEN listing ELSE kept[y]
    BY <1>10 DEF ListAndDecide, Keeps
  <2>3. \A c \in Cand : RequiresTracking(c) /\ c \notin carried => Short(c)
    BY DEF Short
  <2>4. asked.attempt = 2 => \A c \in Cand : RequiresTracking(c) /\ c \notin listing => c \in failed
    BY <2>1, <2>3 DEF ProofInv, ShortIsSeen, ListedAnew, Listing
  <2>5. CASE Custodied(asked.valid, listing)
    <3>1. outcome' = "completed" /\ asked' = Idle /\ failed' = failed
      BY <1>10, <2>5 DEF ListAndDecide, Watch, Idle
    <3> QED BY <2>1, <3>1 DEF Idle, Asking, ProofInv, ProofType, ShortIsSeen, ListedAnew, NotRefusedInVain
  <2>6. CASE ~Custodied(asked.valid, listing) /\ (Final(asked.attempt) \/ ~RequiresTracking(Named))
    <3>1. outcome' = "refused" /\ asked' = Idle /\ failed' = failed
      BY <1>10, <2>6 DEF ListAndDecide, Watch, Idle
    <3>2. \A c \in Cand : c \in failed
      <4> SUFFICES ASSUME NEW c \in Cand, c \notin failed PROVE FALSE
        OBVIOUS
      <4>1. c \in asked.valid
        BY <2>1 DEF ProofInv, ShortIsSeen
      <4>2. RequiresTracking(c) /\ c \notin listing
        BY <2>6, <4>1 DEF Custodied
      <4>3. asked.attempt = 2
        BY <2>6, <4>2 DEF Final, RetryIsTried
      <4> QED BY <2>4, <4>2, <4>3
    <3>3. failed' = Cand
      BY <3>1, <3>2 DEF ProofInv, ProofType
    <3> QED BY <2>1, <3>1, <3>3 DEF Idle, Asking, ProofInv, ProofType, ShortIsSeen, ListedAnew, NotRefusedInVain
  <2>7. CASE ~Custodied(asked.valid, listing) /\ ~(Final(asked.attempt) \/ ~RequiresTracking(Named))
    <3>1. asked' = [asked EXCEPT !.pc = "refresh"] /\ UNCHANGED outcome /\ Watch
      BY <1>10, <2>7 DEF ListAndDecide
    <3>2. asked' \in Asking /\ asked'.pc = "refresh" /\ asked'.attempt # 2 /\ asked'.valid = asked.valid
      BY <2>7, <3>1 DEF Final, Asking, ProofInv, ProofType
    <3>3. failed \subseteq failed' /\ failed' \subseteq Cand /\ \A c \in Cand : Short(c)' => c \in failed'
      BY <1>6, <2>1, <3>1, <3>2
    <3> QED BY <2>1, <3>1, <3>2, <3>3 DEF ProofInv, ProofType, ShortIsSeen, ListedAnew, NotRefusedInVain
  <2> QED BY <2>5, <2>6, <2>7
<1> QED BY <1>1, <1>3, <1>4, <1>5, <1>7, <1>8, <1>9, <1>10 DEF ProofNext

\* The tools of a claim tell an agent the truth: one of two whose live claims
\* declare overlapping writes was told (declare_write_set, write_set_overlaps),
\* and a refused completion is owed to its proof, which at some moment of the
\* call did not count (refresh_completion_proof_index).  RetryIsTried sets aside
\* the signal whose own kind is exempt while another of its candidates is not:
\* the call is not tried again then.
THEOREM ToolsTellTruthHolds == ASSUME RetryIsTried PROVE ToolSpec /\ ProofSpec => []ToolsTellTruth
<1>1. ToolSpec => []OverlapIsTold
  <2> SUFFICES ASSUME TRUE PROVE ToolSpec => []OverlapIsTold
    OBVIOUS
  <2> QED BY ToolsInvInit, ToolsInvKept, ToolsInvTells, PTL DEF ToolSpec
<1>2. ProofSpec => []NotRefusedInVain
  <2>1. ProofInv /\ [ProofNext]_proofVars => ProofInv'
    BY ProofInvKept
  <2>2. ProofInv => NotRefusedInVain
    BY DEF ProofInv
  <2> QED BY ProofInvInit, <2>1, <2>2, PTL DEF ProofSpec
<1> QED BY <1>1, <1>2, PTL DEF ToolsTellTruth

-----------------------------------------------------------------------------
(* The cockpit's transfer.  A copy that the row has not moved on from since *)
(* it was read equals the row, in everything that decides on a transfer.    *)

CrowSet ==
  [ver : Nat, lane : TransferLane \cup {"claude"}, head : Nat, over : {"no", "done", "failed"},
   claim : BOOLEAN, run : BOOLEAN, artifact : BOOLEAN]
\* What a refresh has read is the row.
ReadFresh(b) ==
  /\ b.stage \in {"row", "state"} => b.at = crow
  /\ b.stage = "state" => b.head = crow.head /\ b.claim = crow.claim /\ b.run = crow.run
\* A transfer offered for the row as it is finds no reason against it.
OfferFresh(f) ==
  f.offered =>
    /\ crow.over # "done" /\ ~crow.artifact /\ ~crow.claim /\ ~crow.run
    /\ f.ver = crow.ver /\ f.lane = crow.lane /\ f.head = crow.head
CopiesFresh ==
  /\ "building" \notin outdated => ReadFresh(building)
  /\ "face" \notin outdated => OfferFresh(face)
  /\ \A a \in ActionId : a \in DOMAIN clicks =>
       clicks[a].face.offered /\ clicks[a].to \in TransferLane /\ (a \notin outdated => OfferFresh(clicks[a].face))
CockpitInv == crow \in CrowSet /\ CopiesFresh

LEMMA CockpitStart == CockpitInit => CockpitInv
<1> SUFFICES ASSUME CockpitInit PROVE CockpitInv
  OBVIOUS
<1>1. crow \in CrowSet
  BY DEF CockpitInit, CrowSet
<1>2. ReadFresh(building)
  BY DEF CockpitInit, ReadFresh, NotBuilding
<1>3. OfferFresh(face)
  BY DEF CockpitInit, OfferFresh, NoFace
<1>4. DOMAIN clicks = {}
  BY DEF CockpitInit
<1> QED BY <1>1, <1>2, <1>3, <1>4 DEF CockpitInv, CopiesFresh

\* When the row moves, every copy of it is outdated.
LEMMA MovedOn ==
  ASSUME CockpitInv, crow' \in CrowSet, UNCHANGED clicks, outdated' = Copies
  PROVE  CockpitInv'
<1>1. "building" \in outdated' /\ "face" \in outdated' /\ \A a \in ActionId : a \in outdated'
  BY DEF Copies
<1> QED BY <1>1 DEF CockpitInv, CopiesFresh

\* The row moves without the operator.
RowMoves ==
  \/ ClaimTaken \/ ClaimGone \/ RunFlips \/ ProofAppears
  \/ \E l \in TransferLane : AgentHandsOff(l)
  \/ \E how \in {"done", "failed"} : RowEnds(how)
LEMMA RowMovesStep ==
  ASSUME CockpitInv, RowMoves
  PROVE  CockpitInv'
<1>1. crow \in CrowSet
  BY DEF CockpitInv
<1>2. crow.ver + 1 \in Nat /\ crow.head + 1 \in Nat
  BY <1>1 DEF CrowSet
<1> SUFFICES crow' \in CrowSet
  BY MovedOn
  DEF RowMoves, ClaimTaken, ClaimGone, RunFlips, ProofAppears, AgentHandsOff, RowEnds, Moves
<1>3. CASE ClaimTaken
  <2>1. crow' = [crow EXCEPT !.claim = TRUE, !.ver = crow.ver + 1]
    BY <1>3 DEF ClaimTaken, Moves
  <2> QED BY <1>1, <1>2, <2>1 DEF CrowSet
<1>4. CASE ClaimGone
  <2>1. PICK n \in {0, 1} : crow' = [crow EXCEPT !.claim = FALSE, !.ver = crow.ver + n]
    BY <1>4 DEF ClaimGone, Moves
  <2>2. crow.ver + n \in Nat
    BY <1>1 DEF CrowSet
  <2> QED BY <1>1, <2>1, <2>2 DEF CrowSet
<1>5. CASE RunFlips
  BY <1>1, <1>5 DEF RunFlips, Moves, CrowSet
<1>6. CASE ProofAppears
  BY <1>1, <1>6 DEF ProofAppears, Moves, CrowSet
<1>7. ASSUME NEW l \in TransferLane, AgentHandsOff(l) PROVE crow' \in CrowSet
  <2>1. crow' = [crow EXCEPT !.lane = l, !.claim = FALSE, !.head = crow.head + 1, !.ver = crow.ver + 1]
    BY <1>7 DEF AgentHandsOff, Moves
  <2>2. PICK half : half = [crow EXCEPT !.lane = l, !.claim = FALSE]
    OBVIOUS
  <2>3. half \in CrowSet
    BY <1>1, <2>2 DEF CrowSet
  <2>4. crow' = [half EXCEPT !.head = crow.head + 1, !.ver = crow.ver + 1]
    BY <1>1, <2>1, <2>2 DEF CrowSet
  <2> QED BY <1>2, <2>3, <2>4 DEF CrowSet
<1>8. ASSUME NEW how \in {"done", "failed"}, RowEnds(how) PROVE crow' \in CrowSet
  <2>1. crow' = [crow EXCEPT !.over = how, !.claim = FALSE, !.ver = crow.ver + 1]
    BY <1>8 DEF RowEnds, Moves
  <2> QED BY <1>1, <1>2, <2>1 DEF CrowSet
<1> QED BY <1>3, <1>4, <1>5, <1>6, <1>7, <1>8 DEF RowMoves

\* The projection reads the row and, later, what is beside it.
LEMMA ReadsStep ==
  ASSUME CockpitInv, ReadsRow \/ ReadsAssignment
  PROVE  CockpitInv'
<1>1. UNCHANGED <<crow, face, clicks>>
  BY DEF ReadsRow, ReadsAssignment
<1>2. \A c : c # "building" => (c \in outdated' <=> c \in outdated)
  BY DEF ReadsRow, ReadsAssignment
<1>3. "building" \notin outdated' => ReadFresh(building)'
  <2>1. CASE ReadsRow
    <3>1. building'.stage = "row" /\ building'.at = crow
      BY <2>1 DEF ReadsRow
    <3> QED BY <1>1, <3>1 DEF ReadFresh
  <2>2. CASE ReadsAssignment
    <3>1. /\ building'.at = building.at /\ building'.head = crow.head
          /\ building'.claim = crow.claim /\ building'.run = crow.run
          /\ building.stage = "row" /\ outdated' = outdated
      BY <2>2 DEF ReadsAssignment
    <3> QED BY <1>1, <3>1 DEF CockpitInv, CopiesFresh, ReadFresh
  <2> QED BY <2>1, <2>2
<1>4. "face" \notin outdated' => OfferFresh(face)'
  BY <1>1, <1>2 DEF CockpitInv, CopiesFresh, OfferFresh
<1>5. ASSUME NEW a \in ActionId, a \in DOMAIN clicks'
      PROVE  /\ clicks'[a].face.offered /\ clicks'[a].to \in TransferLane
             /\ a \notin outdated' => OfferFresh(clicks[a].face)'
  <2>1. a # "building"
    BY CockpitAssumption DEF CockpitAssumption
  <2> QED BY <1>1, <1>2, <1>5, <2>1 DEF CockpitInv, CopiesFresh, OfferFresh
<1> QED BY <1>1, <1>3, <1>4, <1>5 DEF CockpitInv, CopiesFresh

\* The row payload is published: it offers nothing the row has a reason against.
LEMMA PublishesStep ==
  ASSUME CockpitInv, PublishesRow
  PROVE  CockpitInv'
<1>1. UNCHANGED <<crow, clicks>>
  BY DEF PublishesRow
<1>2. ReadFresh(building)'
  BY DEF PublishesRow, NotBuilding, ReadFresh
<1>3. \A c : c # "face" => (c \in outdated' <=> c \in outdated)
  BY DEF PublishesRow, CopiedFrom
<1>4. "face" \notin outdated' => OfferFresh(face)'
  <2> SUFFICES ASSUME "face" \notin outdated' PROVE OfferFresh(face)'
    OBVIOUS
  <2>1. "building" \notin outdated /\ building.stage = "state"
    BY DEF PublishesRow, CopiedFrom
  <2>2. /\ building.at = crow /\ building.head = crow.head
        /\ building.claim = crow.claim /\ building.run = crow.run
    BY <2>1 DEF CockpitInv, CopiesFresh, ReadFresh
  <2>3. /\ face'.offered = Transferable(building) /\ face'.ver = building.at.ver
        /\ face'.lane = building.at.lane /\ face'.head = building.head
    BY DEF PublishesRow
  <2> QED BY <1>1, <2>2, <2>3 DEF OfferFresh, Transferable
<1>5. ASSUME NEW a \in ActionId, a \in DOMAIN clicks'
      PROVE  /\ clicks'[a].face.offered /\ clicks'[a].to \in TransferLane
             /\ a \notin outdated' => OfferFresh(clicks[a].face)'
  <2>1. a # "face"
    BY CockpitAssumption DEF CockpitAssumption
  <2> QED BY <1>1, <1>3, <1>5, <2>1 DEF CockpitInv, CopiesFresh, OfferFresh
<1> QED BY <1>1, <1>2, <1>4, <1>5 DEF CockpitInv, CopiesFresh

\* The operator clicks on what is shown.
LEMMA ClicksStep ==
  ASSUME CockpitInv, NEW a \in ActionId, NEW l \in TransferLane, Clicks(a, l)
  PROVE  CockpitInv'
<1>1. UNCHANGED <<crow, building, face>>
  BY DEF Clicks
<1>2. \A c : c # a => (c \in outdated' <=> c \in outdated)
  BY DEF Clicks, CopiedFrom
<1>3. a # "building" /\ a # "face"
  BY CockpitAssumption DEF CockpitAssumption
<1>4. "building" \notin outdated' => ReadFresh(building)'
  BY <1>1, <1>2, <1>3 DEF CockpitInv, CopiesFresh, ReadFresh
<1>5. "face" \notin outdated' => OfferFresh(face)'
  BY <1>1, <1>2, <1>3 DEF CockpitInv, CopiesFresh, OfferFresh
<1>6. ASSUME NEW b \in ActionId, b \in DOMAIN clicks'
      PROVE  /\ clicks'[b].face.offered /\ clicks'[b].to \in TransferLane
             /\ b \notin outdated' => OfferFresh(clicks[b].face)'
  <2>1. CASE b = a
    <3>1. clicks'[b].face = face /\ clicks'[b].to = l /\ face.offered
      BY <1>6, <2>1 DEF Clicks
    <3>2. b \notin outdated' => "face" \notin outdated
      BY <2>1 DEF Clicks, CopiedFrom
    <3> QED BY <1>1, <3>1, <3>2 DEF CockpitInv, CopiesFresh, OfferFresh
  <2>2. CASE b # a
    <3>1. b \in DOMAIN clicks /\ clicks'[b] = clicks[b]
      BY <1>6, <2>2 DEF Clicks
    <3> QED BY <1>1, <1>2, <2>2, <3>1 DEF CockpitInv, CopiesFresh, OfferFresh
  <2> QED BY <2>1, <2>2
<1> QED BY <1>1, <1>4, <1>5, <1>6 DEF CockpitInv, CopiesFresh

\* The server acts on a click, or turns it away.
LEMMA ServerStep ==
  ASSUME CockpitInv, NEW a \in ActionId, ServerActs(a)
  PROVE  CockpitInv'
<1>1. UNCHANGED <<building, face, clicks>> /\ a \in DOMAIN clicks
  BY DEF ServerActs
<1>2. CASE UNCHANGED <<crow, outdated>>
  BY <1>1, <1>2 DEF CockpitInv, CopiesFresh, ReadFresh, OfferFresh
<1>3. CASE ~UNCHANGED <<crow, outdated>>
  <2>1. crow' = [crow EXCEPT !.lane = clicks[a].to, !.head = crow.head + 1, !.ver = crow.ver + 1]
        /\ outdated' = Copies
    BY <1>3 DEF ServerActs
  <2>2. crow \in CrowSet /\ clicks[a].to \in TransferLane
    BY <1>1 DEF CockpitInv, CopiesFresh
  <2>3. crow.ver + 1 \in Nat /\ crow.head + 1 \in Nat
    BY <2>2 DEF CrowSet
  <2>4. crow' \in CrowSet
    BY <2>1, <2>2, <2>3 DEF CrowSet
  <2> QED BY <1>1, <2>1, <2>4, MovedOn
<1> QED BY <1>2, <1>3

LEMMA CockpitKeeps ==
  ASSUME CockpitInv, [CockpitNext]_cockpitVars
  PROVE  CockpitInv'
<1>1. CASE CockpitNext
  BY <1>1, RowMovesStep, ReadsStep, PublishesStep, ClicksStep, ServerStep DEF CockpitNext, RowMoves
<1>2. CASE UNCHANGED cockpitVars
  BY <1>2 DEF cockpitVars, CockpitInv, CopiesFresh, ReadFresh, OfferFresh
<1> QED BY <1>1, <1>2

\* A click on an offer the row has not moved on from meets no refusal.
LEMMA Honoured ==
  ASSUME CockpitInv, NEW a \in ActionId, ServerActs(a), answer'.said = "refused"
  PROVE  a \notin applied /\ (a \in outdated \/ crow.over = "failed")
<1>1. a \in DOMAIN clicks /\ ~(ServerTakesWrites /\ ~Replayed(a) /\ Acceptable(clicks[a]))
  BY DEF ServerActs
<1>2. ServerTakesWrites /\ ~Replayed(a)
  BY <1>1 DEF ServerActs
<1>3. ~Acceptable(clicks[a])
  BY <1>1, <1>2
<1>4. ASSUME a \notin outdated PROVE crow.over = "failed"
  <2>1. OfferFresh(clicks[a].face) /\ clicks[a].face.offered /\ crow \in CrowSet
    BY <1>1, <1>4 DEF CockpitInv, CopiesFresh
  <2> QED BY <1>3, <2>1 DEF OfferFresh, Acceptable, CrowSet
<1> QED BY <1>2, <1>4 DEF Replayed

-----------------------------------------------------------------------------
(* The cockpit's groups.  Families are what no set closed under the links   *)
(* separates.  A family in the strong links, with the worktrees registered  *)
(* in it, is closed under all links: so a worktree joins nothing to it.     *)

InFamily(nodes, links, n, m) == \A S \in SUBSET nodes : LinkClosed(S, links) /\ n \in S => m \in S

LEMMA FamilyIs ==
  ASSUME NEW nodes, NEW links, NEW n \in nodes
  PROVE  /\ Families(nodes, links)[n] = {m \in nodes : InFamily(nodes, links, n, m)}
         /\ n \in Families(nodes, links)[n]
  BY DEF Families, InFamily

\* A family is closed, and whoever is in it is of the same family.
LEMMA FamilyClosed ==
  ASSUME NEW nodes, NEW links, \A l \in links : l[1] \in nodes /\ l[2] \in nodes, NEW n \in nodes
  PROVE  LinkClosed(Families(nodes, links)[n], links)
<1> SUFFICES ASSUME NEW l \in links
             PROVE  InFamily(nodes, links, n, l[1]) <=> InFamily(nodes, links, n, l[2])
  BY FamilyIs DEF LinkClosed
<1> QED BY DEF InFamily, LinkClosed

LEMMA FamilySame ==
  ASSUME NEW nodes, NEW links, \A l \in links : l[1] \in nodes /\ l[2] \in nodes,
         NEW n \in nodes, NEW m \in Families(nodes, links)[n]
  PROVE  Families(nodes, links)[m] = Families(nodes, links)[n]
<1>1. m \in nodes /\ InFamily(nodes, links, n, m)
  BY FamilyIs
<1>2. ASSUME NEW x \in nodes, InFamily(nodes, links, m, x) PROVE InFamily(nodes, links, n, x)
  BY <1>1, <1>2 DEF InFamily
<1>3. ASSUME NEW x \in nodes, InFamily(nodes, links, n, x) PROVE InFamily(nodes, links, m, x)
  <2> SUFFICES ASSUME NEW S \in SUBSET nodes, LinkClosed(S, links), m \in S, x \notin S PROVE FALSE
    BY DEF InFamily
  <2>1. n \notin S
    BY <1>3 DEF InFamily
  <2>2. LinkClosed(nodes \ S, links)
    BY DEF LinkClosed
  <2> QED BY <1>1, <2>1, <2>2 DEF InFamily
<1>4. /\ Families(nodes, links)[m] = {x \in nodes : InFamily(nodes, links, m, x)}
      /\ Families(nodes, links)[n] = {x \in nodes : InFamily(nodes, links, n, x)}
  BY <1>1, FamilyIs
<1> QED BY <1>2, <1>3, <1>4

GroupTypeOK ==
  /\ Registered \subseteq Chat /\ owners \subseteq Chat
  /\ \A c \in Registered : /\ registry[c].parent \in Chat \cup {NoOne}
                           /\ registry[c].thread \in Thread \cup {NoOne}
                           /\ registry[c].tree \in Worktree \cup {NoOne}
StrongOf == Families(Strong, StrongLinks)
AllLinks == StrongLinks \cup TreeLinks(StrongOf) \cup RowLinks
JoinedOf == Families(Strong \cup Worktree, AllLinks)
Joins(nodes, links) == \A l \in links : l[1] \in nodes /\ l[2] \in nodes

LEMMA StrongLink ==
  ASSUME NEW l
  PROVE  l \in StrongLinks <=>
           \E c \in Registered : \E i \in {registry[c].parent, registry[c].thread} \ {NoOne} : l = <<c, i>>
  BY DEF StrongLinks
LEMMA TreeLink ==
  ASSUME NEW l, NEW strong
  PROVE  l \in TreeLinks(strong) <=> \E t \in Worktree : \E c \in Residents(t, strong) : l = <<t, c>>
  BY DEF TreeLinks
LEMMA RowLink ==
  ASSUME NEW l
  PROVE  l \in RowLinks <=>
           \E o \in owners \cap Registered : registry[o].thread # NoOne /\ l = <<o, registry[o].thread>>
  BY DEF RowLinks

\* The thread a row carries is one its session has anyway.
LEMMA RowLinksStrong == RowLinks \subseteq StrongLinks
<1> SUFFICES ASSUME NEW l \in RowLinks PROVE l \in StrongLinks
  OBVIOUS
<1> QED BY RowLink, StrongLink

LEMMA StrongJoins == ASSUME GroupTypeOK PROVE Joins(Strong, StrongLinks)
<1> SUFFICES ASSUME NEW l \in StrongLinks PROVE l[1] \in Strong /\ l[2] \in Strong
  BY DEF Joins
<1>1. PICK c \in Registered : \E i \in {registry[c].parent, registry[c].thread} \ {NoOne} : l = <<c, i>>
  BY StrongLink
<1> QED BY <1>1 DEF GroupTypeOK, Strong

LEMMA AllJoins == ASSUME GroupTypeOK PROVE Joins(Strong \cup Worktree, AllLinks)
<1> SUFFICES ASSUME NEW l \in TreeLinks(StrongOf) PROVE l[1] \in Worktree /\ l[2] \in Strong
  BY StrongJoins, RowLinksStrong DEF Joins, AllLinks
<1>1. PICK t \in Worktree : \E c \in Residents(t, StrongOf) : l = <<t, c>>
  BY TreeLink
<1>2. PICK c \in Residents(t, StrongOf) : l = <<t, c>>
  BY <1>1
<1>3. c \in Registered
  BY DEF Residents
<1> QED BY <1>2, <1>3 DEF GroupTypeOK, Strong

\* A strong family with its worktrees is closed under every link.
LEMMA TreesStayOut ==
  ASSUME GroupTypeOK, NEW o \in Strong
  PROVE  JoinedOf[o] \cap Strong \subseteq StrongOf[o]
<1> DEFINE F == StrongOf[o]
           Trees == {t \in Worktree : \E c \in Residents(t, StrongOf) : c \in F}
           S == F \cup Trees
<1>1. F \subseteq Strong /\ o \in F /\ LinkClosed(F, StrongLinks)
  BY FamilyIs, FamilyClosed, StrongJoins DEF StrongOf, Joins
<1>2. Worktree \cap Strong = {}
  BY GroupAssumption DEF GroupAssumption, Strong
<1>3. LinkClosed(S, StrongLinks)
  BY <1>1, <1>2, StrongJoins DEF LinkClosed, Joins
<1>4. LinkClosed(S, TreeLinks(StrongOf))
  <2> SUFFICES ASSUME NEW l \in TreeLinks(StrongOf) PROVE l[1] \in S <=> l[2] \in S
    BY DEF LinkClosed
  <2>1. PICK t \in Worktree : \E c \in Residents(t, StrongOf) : l = <<t, c>>
    BY TreeLink
  <2>2. PICK c \in Residents(t, StrongOf) : l = <<t, c>>
    BY <2>1
  <2>3. c \in Strong /\ \A d \in Residents(t, StrongOf) : d \in Strong /\ StrongOf[c] = StrongOf[d]
    BY DEF Residents, SameFamily, GroupTypeOK, Strong
  <2>4. ASSUME NEW d \in Residents(t, StrongOf), d \in F PROVE c \in F
    <3>1. StrongOf[d] = F
      BY <1>1, <2>4, FamilySame, StrongJoins DEF StrongOf, Joins
    <3> QED BY <2>3, <3>1, FamilyIs DEF StrongOf
  <2>5. l[1] \in S <=> c \in F
    BY <1>1, <1>2, <2>2, <2>4
  <2>6. l[2] \in S <=> c \in F
    BY <1>2, <2>2, <2>3
  <2> QED BY <2>5, <2>6
<1>5. LinkClosed(S, AllLinks)
  BY <1>3, <1>4, RowLinksStrong DEF LinkClosed, AllLinks
<1>6. S \in SUBSET (Strong \cup Worktree) /\ o \in S /\ S \cap Strong \subseteq F
  BY <1>1, <1>2
<1> HIDE DEF S, F
<1>7. JoinedOf[o] \subseteq S
  BY <1>5, <1>6, FamilyIs DEF JoinedOf, InFamily
<1> QED BY <1>6, <1>7 DEF F

\* Nothing in a strong family is left out when more is linked.
LEMMA FamilyGrows ==
  ASSUME GroupTypeOK, NEW o \in Strong
  PROVE  StrongOf[o] \subseteq JoinedOf[o]
<1> SUFFICES ASSUME NEW m \in StrongOf[o] PROVE m \in JoinedOf[o]
  OBVIOUS
<1>1. m \in Strong /\ InFamily(Strong, StrongLinks, o, m)
  BY FamilyIs DEF StrongOf
<1>2. JoinedOf[o] = {x \in Strong \cup Worktree : InFamily(Strong \cup Worktree, AllLinks, o, x)}
  BY FamilyIs DEF JoinedOf
<1> SUFFICES ASSUME NEW S \in SUBSET (Strong \cup Worktree), LinkClosed(S, AllLinks), o \in S
             PROVE  m \in S
  BY <1>1, <1>2 DEF InFamily
<1>3. LinkClosed(S \cap Strong, StrongLinks)
  BY StrongJoins DEF LinkClosed, Joins, AllLinks
<1> QED BY <1>1, <1>3 DEF InFamily

LEMMA CanonicalIs ==
  ASSUME NEW family, NEW x \in family
  PROVE  /\ CanonicalOf(family) \in family
         /\ family \cap Roots # {} => CanonicalOf(family) \in Roots
  BY DEF CanonicalOf

Grouped == [o \in owners |-> CanonicalOf(JoinedOf[o])]

LEMMA GroupsApart ==
  ASSUME GroupTypeOK, groups = Grouped
  PROVE  WorktreeNeverJoins
<1>1. DOMAIN groups = owners /\ \A o \in owners : o \in Strong /\ groups[o] = CanonicalOf(JoinedOf[o])
  BY DEF Grouped, GroupTypeOK, Strong
<1>2. \A o \in owners : o \in JoinedOf[o]
  BY <1>1, FamilyIs DEF JoinedOf
<1>3. ASSUME NEW o \in owners, NEW p \in owners, groups[o] = groups[p]
      PROVE  SameFamily(o, p, StrongOf)
  <2>1. groups[o] \in JoinedOf[o] /\ groups[o] \in JoinedOf[p]
    BY <1>1, <1>2, <1>3, CanonicalIs
  <2>2. JoinedOf[groups[o]] = JoinedOf[o] /\ JoinedOf[groups[o]] = JoinedOf[p]
    BY <1>1, <2>1, FamilySame, AllJoins DEF JoinedOf, Joins
  <2>3. p \in StrongOf[o]
    BY <1>1, <1>2, <2>2, TreesStayOut
  <2> QED BY <1>1, <2>3, FamilySame, StrongJoins DEF SameFamily, StrongOf, Joins
<1>4. ASSUME NEW o \in owners, NEW r \in Roots, SameFamily(o, r, StrongOf)
      PROVE  groups[o] \in Roots
  <2>1. r \in Strong
    BY DEF Roots, GroupTypeOK, Strong
  <2>2. r \in StrongOf[o]
    BY <1>4, <2>1, FamilyIs DEF SameFamily, StrongOf
  <2>3. r \in JoinedOf[o]
    BY <1>1, <2>2, FamilyGrows
  <2> QED BY <1>1, <2>3, CanonicalIs
<1> QED BY <1>1, <1>3, <1>4 DEF WorktreeNeverJoins, StrongOf

GroupInv == GroupTypeOK /\ (groups = << >> \/ groups = Grouped)

LEMMA GroupStart == GroupInit => GroupInv
<1> SUFFICES ASSUME GroupInit PROVE GroupInv
  OBVIOUS
<1>1. PICK R \in SUBSET Chat :
        registry \in [R -> [parent : Chat \cup {NoOne}, thread : Thread \cup {NoOne},
                            tree : Worktree \cup {NoOne}]]
  BY DEF GroupInit
<1>2. owners \subseteq Chat
  BY GroupAssumption DEF GroupAssumption, GroupInit
<1>3. groups = << >>
  BY DEF GroupInit
<1> QED BY <1>1, <1>2, <1>3 DEF GroupInv, GroupTypeOK, Registered

LEMMA GroupKeeps ==
  ASSUME GroupInv, [GroupNext]_groupVars
  PROVE  GroupInv'
<1>1. UNCHANGED <<registry, owners>>
  BY DEF GroupNext, ApplyGrouping, groupVars
<1>2. GroupTypeOK'
  BY <1>1 DEF GroupInv, GroupTypeOK, Registered
<1>3. Grouped' = Grouped
  BY <1>1
  DEF Grouped, JoinedOf, StrongOf, AllLinks, Families, StrongLinks, TreeLinks, RowLinks, Residents,
      Registered, CanonicalOf, Roots, SameFamily, LinkClosed
<1>4. groups' = Grouped \/ UNCHANGED groups
  BY DEF GroupNext, ApplyGrouping, groupVars, Grouped, JoinedOf, StrongOf, AllLinks
<1> QED BY <1>2, <1>3, <1>4 DEF GroupInv

\* For any row and any registry of sessions: a transfer the cockpit offered is
\* refused only when the row moved on from what the click carries, or had
\* failed, and a repeated click meets its receipt; and a worktree never puts two
\* chats' rows in one group (_row_payload, post_operator_reassignment,
\* _apply_session_grouping).
THEOREM CockpitKeepsWordHolds == CockpitSpec /\ GroupSpec => CockpitKeepsWord
<1>1. CockpitInv /\ [CockpitNext]_cockpitVars => CockpitInv'
  BY CockpitKeeps
<1>2. ASSUME CockpitInv
      PROVE  \A a \in ActionId : (ServerActs(a) /\ answer'.said = "refused") =>
               /\ a \notin applied
               /\ a \in outdated \/ crow.over = "failed"
  BY <1>2, Honoured
<1>3. GroupInv /\ [GroupNext]_groupVars => GroupInv'
  BY GroupKeeps
<1>4. GroupInv => WorktreeNeverJoins
  BY GroupsApart DEF GroupInv, WorktreeNeverJoins
<1>5. CockpitSpec => OfferedIsHonoured
  BY <1>1, <1>2, CockpitStart, PTL DEF CockpitSpec, OfferedIsHonoured
<1>6. GroupSpec => []WorktreeNeverJoins
  BY <1>3, <1>4, GroupStart, PTL DEF GroupSpec
<1> QED BY <1>5, <1>6 DEF CockpitKeepsWord
=============================================================================
