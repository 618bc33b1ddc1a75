-------------------------- MODULE ProjectionQueue --------------------------
(***************************************************************************)
(* The refresh queue of the native cockpit (coord/native_cockpit.py).      *)
(* Writers commit a change of the board in one transaction and ask for a   *)
(* refresh of the projection in a second one; maintenance processes, each  *)
(* at the end of a reaper pass, flush the queue: they read the pending     *)
(* generation, read the board, write the projection in one transaction and *)
(* delete the request in another if its generation is still the one read.  *)
(* A file lock keeps other flushes out where the platform has fcntl.       *)
(***************************************************************************)
EXTENDS Integers

CONSTANTS
  Writer,      \* processes that call the writing verbs
  Flusher,     \* processes that run the maintenance pass
  Nobody,      \* the lock file is not locked
  Locked,      \* FCNTL_AVAILABLE
  MaxWrites    \* bound on the changes of the board

ASSUME QueueAssumption ==
  Nobody \notin Flusher /\ Locked \in BOOLEAN /\ MaxWrites \in Nat

VARIABLES
  board,   \* number of changes committed to the board
  owing,   \* writers that committed a change and have not asked for a refresh
  queue,   \* generation of the pending request, 0 when there is none
  due,     \* the newest change some request was filed after
  shown,   \* the newest change the projection contains
  pc,      \* where each flush is
  gen,     \* the generation each flush read
  snap,    \* the newest change in the rows each flush read
  lock     \* holder of PROJECTION_MAINTENANCE_EXCLUSION

vars == <<board, owing, queue, due, shown, pc, gen, snap, lock>>

\* Counters are naturals and every flush is at one of its four stages.
TypeOK ==
  /\ board \in Nat /\ queue \in Nat /\ due \in Nat /\ shown \in Nat
  /\ owing \subseteq Writer
  /\ pc \in [Flusher -> {"idle", "pending", "read", "written"}]
  /\ gen \in [Flusher -> Nat] /\ snap \in [Flusher -> Nat]
  /\ lock \in Flusher \cup {Nobody}

Init ==
  /\ board = 0 /\ owing = {} /\ queue = 0 /\ due = 0 /\ shown = 0
  /\ pc = [f \in Flusher |-> "idle"]
  /\ gen = [f \in Flusher |-> 0] /\ snap = [f \in Flusher |-> 0]
  /\ lock = Nobody

-----------------------------------------------------------------------------
(* Writers.                                                                *)

\* A writing verb commits.
Write(w) ==
  /\ w \notin owing
  /\ board < MaxWrites
  /\ board' = board + 1
  /\ owing' = owing \cup {w}
  /\ UNCHANGED <<queue, due, shown, pc, gen, snap, lock>>

\* request_refresh: a pending request gets a new generation, an absent one is
\* inserted with generation 1.
RequestRefresh(w) ==
  /\ w \in owing
  /\ owing' = owing \ {w}
  /\ queue' = queue + 1
  /\ due' = board
  /\ UNCHANGED <<board, shown, pc, gen, snap, lock>>

\* The writer dies after its commit, or _refresh_native_cockpit swallows an error.
RequestFails(w) ==
  /\ w \in owing
  /\ owing' = owing \ {w}
  /\ UNCHANGED <<board, queue, due, shown, pc, gen, snap, lock>>

-----------------------------------------------------------------------------
(* flush_requested_refresh.                                                *)

\* LOCK_EX | LOCK_NB: a flush that meets a locked file gives up.
LockFree(f) == Locked => lock = Nobody

\* Mutant: a first request is overlooked.
PendingAgain == queue > 1
Pending == queue > 0

\* The flush takes the lock and reads the pending generation.
FlushStart(f) ==
  /\ pc[f] = "idle"
  /\ LockFree(f)
  /\ Pending
  /\ pc' = [pc EXCEPT ![f] = "pending"]
  /\ gen' = [gen EXCEPT ![f] = queue]
  /\ lock' = IF Locked THEN f ELSE Nobody
  /\ UNCHANGED <<board, owing, queue, due, shown, snap>>

\* refresh reads the board outside the transaction that writes the projection.
RefreshRead(f) ==
  /\ pc[f] = "pending"
  /\ pc' = [pc EXCEPT ![f] = "read"]
  /\ snap' = [snap EXCEPT ![f] = board]
  /\ UNCHANGED <<board, owing, queue, due, shown, gen, lock>>

RefreshWrite(f) ==
  /\ pc[f] = "read"
  /\ pc' = [pc EXCEPT ![f] = "written"]
  /\ shown' = snap[f]
  /\ UNCHANGED <<board, owing, queue, due, gen, snap, lock>>

\* Mutant: the request is deleted whatever its generation.
ClearedAny(f) == 0
\* DELETE ... WHERE generation = the generation read.
Cleared(f) == IF queue = gen[f] THEN 0 ELSE queue

\* A flush that is over forgets what it read; the lock file is closed.
Forget(f) ==
  /\ pc' = [pc EXCEPT ![f] = "idle"]
  /\ gen' = [gen EXCEPT ![f] = 0]
  /\ snap' = [snap EXCEPT ![f] = 0]
  /\ lock' = IF lock = f THEN Nobody ELSE lock

FlushClear(f) ==
  /\ pc[f] = "written"
  /\ queue' = Cleared(f)
  /\ Forget(f)
  /\ UNCHANGED <<board, owing, due, shown>>

\* A flush dies; the operating system drops its lock.
FlushDies(f) ==
  /\ pc[f] # "idle"
  /\ Forget(f)
  /\ UNCHANGED <<board, owing, queue, due, shown>>

-----------------------------------------------------------------------------
FlushStep(f) == FlushStart(f) \/ RefreshRead(f) \/ RefreshWrite(f) \/ FlushClear(f)

Next ==
  \/ \E w \in Writer : Write(w) \/ RequestRefresh(w) \/ RequestFails(w)
  \/ \E f \in Flusher : FlushStep(f) \/ FlushDies(f)

Spec == Init /\ [][Next]_vars

\* Passes go on being run, and in the end they are not killed in mid flush.
FairSpec ==
  /\ Spec
  /\ WF_vars(\E f \in Flusher : FlushStep(f))
  /\ <>[][\A f \in Flusher : ~FlushDies(f)]_vars

-----------------------------------------------------------------------------
\* A refresh asked for is not lost: once the queue is empty the projection shows
\* every change a request was filed after, although requests arrive while a flush
\* is reading, writing or about to delete the request it started from.
RefreshNotLost == queue = 0 => shown >= due

\* A flush never replaces the projection by an older one.
NeverGoesBack == [][shown' >= shown]_vars

\* Whatever was requested is shown in the end.
EventuallyShown == \A v \in 1 .. MaxWrites : due >= v ~> shown >= v
=============================================================================
