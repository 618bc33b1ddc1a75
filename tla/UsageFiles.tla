----------------------------- MODULE UsageFiles -----------------------------
(***************************************************************************)
(* What usage keeps besides the store and the ledger: the snapshot its     *)
(* dashboard answers from, the provider's daily series and the offline     *)
(* replica.                                                                *)
(***************************************************************************)
EXTENDS Integers, FiniteSets

-----------------------------------------------------------------------------
(***************************************************************************)
(* The usage dashboard of a running board: the background rescan of        *)
(* usage/scan_refresh.py and the snapshot cache of usage/local_cache.py.   *)
(*                                                                         *)
(* Ages are kept as classes: a marker is "new" or "old" (stale_after), a   *)
(* snapshot "new", "due" (half the TTL) or "expired" (TTL and grace).  A   *)
(* generation counter is only compared for equality, so a snapshot or a    *)
(* build carries whether its generation is still the current one.          *)
(***************************************************************************)

CONSTANTS MaxUsage, MaxScans   \* bounds: usage written, scans asked for by hand

VARIABLES
  usage,    \* usage written to the transcripts
  stored,     \* usage the scan store holds
  marker,   \* [complete, age]; no marker reads as incomplete
  flock,    \* holder of the cross-process scan lock
  thread,   \* the refresher's thread
  holdoff,  \* _not_before lies ahead
  cli,      \* a scan asked for by hand: [pc, count]
  client,   \* one dashboard request at a time: [pc, force]
  cached,   \* [doc, current, age, after]; doc -1 is none
  failed,   \* _last_refresh_error
  backoff,  \* _retry_after lies ahead
  worker,   \* the snapshot build
  served    \* the usage the last answer showed, -1 for none

cacheVars == <<usage, stored, marker, flock, thread, holdoff, cli, client, cached, failed, backoff,
               worker, served>>

NoWorker == [pc |-> "none", attempt |-> 0, current |-> FALSE, doc |-> 0, after |-> FALSE]

CacheInit ==
  /\ usage = 0 /\ stored = 0 /\ marker = [complete |-> FALSE, age |-> "new"]
  /\ flock = "free" /\ thread = "none" /\ holdoff = FALSE
  /\ cli = [pc |-> "idle", count |-> 0]
  /\ client = [pc |-> "idle", force |-> FALSE]
  /\ cached = [doc |-> -1, current |-> FALSE, age |-> "new", after |-> FALSE]
  /\ failed = FALSE /\ backoff = FALSE /\ worker = NoWorker
  /\ served = -1

-----------------------------------------------------------------------------
(* ScanStoreRefresher.                                                     *)

\* _is_due over last_completed_scan: an incomplete pass never counts as fresh.
IsDue == ~marker.complete \/ marker.age = "old"

\* request_refresh, first half: the flags under the lock, the marker outside it.
RequestRefresh(force) ==
  /\ client.pc = "idle"
  /\ client' = [pc |-> IF thread = "none" /\ ~holdoff /\ IsDue THEN "start" ELSE "read",
                force |-> force]
  /\ UNCHANGED <<usage, stored, marker, flock, thread, holdoff, cli, cached, failed, backoff, worker,
                 served>>

\* Second half: one thread at most.
StartThread ==
  /\ client.pc = "start" /\ client' = [client EXCEPT !.pc = "read"]
  /\ thread' = IF thread = "none" THEN "begun" ELSE thread
  /\ UNCHANGED <<usage, stored, marker, flock, holdoff, cli, cached, failed, backoff, worker, served>>

\* Mutant: a thread that does not get the lock is not forgotten.
ThreadLeftOnLock(next) == thread' = (IF flock = "free" THEN next ELSE "stuck")
\* The lock is tried once; without it the thread ends and waits a little.
ThreadOnLock(next) == thread' = (IF flock = "free" THEN next ELSE "none")

\* _run: the lock, and due asked again under it.
ThreadLocks ==
  /\ thread = "begun"
  /\ ThreadOnLock(IF IsDue THEN "scan" ELSE "none")
  /\ flock' = IF flock = "free" /\ IsDue THEN "server" ELSE flock
  /\ holdoff' = (flock # "free")
  /\ UNCHANGED <<usage, stored, marker, cli, client, cached, failed, backoff, worker, served>>

\* The scan: the rows reach what was written when the files were visited.
ThreadScans ==
  /\ thread = "scan" /\ thread' = "mark" /\ stored' = usage
  /\ UNCHANGED <<usage, marker, flock, holdoff, cli, client, cached, failed, backoff, worker, served>>

\* A scanner that raises leaves the marker as it was; a partial pass withdraws it.
ThreadFails ==
  /\ thread = "scan" /\ thread' = "none" /\ flock' = "free" /\ holdoff' = TRUE
  /\ UNCHANGED <<usage, stored, marker, cli, client, cached, failed, backoff, worker, served>>
ThreadPartial ==
  /\ thread = "scan" /\ thread' = "tell" /\ flock' = "free" /\ holdoff' = TRUE
  /\ marker' = [complete |-> FALSE, age |-> "new"]
  /\ UNCHANGED <<usage, stored, cli, client, cached, failed, backoff, worker, served>>
ThreadMarks ==
  /\ thread = "mark" /\ thread' = "tell" /\ flock' = "free" /\ holdoff' = FALSE
  /\ marker' = [complete |-> TRUE, age |-> "new"]
  /\ UNCHANGED <<usage, stored, cli, client, cached, failed, backoff, worker, served>>

\* on_complete, with the thread already forgotten: _invalidate_cached_document.
\* after says that the store was read since.
Announce ==
  /\ thread = "tell" /\ thread' = "none"
  /\ cached' = [cached EXCEPT !.current = FALSE, !.after = FALSE]
  /\ worker' = [worker EXCEPT !.current = FALSE, !.after = FALSE]
  /\ backoff' = FALSE
  /\ UNCHANGED <<usage, stored, marker, flock, holdoff, cli, client, failed, served>>

\* usage-scan: it waits for the lock; a rebuild drops the rows first; a run of
\* part of the files, or one that is killed, leaves the marker.
CliLocks(rebuild) ==
  /\ cli.pc = "idle" /\ cli.count < MaxScans /\ flock = "free"
  /\ flock' = "cli" /\ cli' = [pc |-> "scan", count |-> cli.count + 1]
  /\ stored' = IF rebuild THEN 0 ELSE stored
  /\ UNCHANGED <<usage, marker, thread, holdoff, client, cached, failed, backoff, worker, served>>
CliEnds(whole) ==
  /\ cli.pc = "scan" /\ flock' = "free" /\ cli' = [cli EXCEPT !.pc = "idle"]
  /\ stored' = (IF whole THEN usage ELSE stored)
  /\ marker' = IF whole THEN [complete |-> TRUE, age |-> "new"] ELSE marker
  /\ UNCHANGED <<usage, thread, holdoff, client, cached, failed, backoff, worker, served>>

-----------------------------------------------------------------------------
(* LocalUsageService.                                                      *)

IsFresh == cached.doc >= 0 /\ cached.current /\ ~failed /\ cached.age # "expired"
RefreshDue == cached.doc < 0 \/ cached.age # "new"

\* _refresh_worker notes the generation and the time before it reads anything.
Begun(attempt) == [NoWorker EXCEPT !.pc = "build", !.attempt = attempt, !.current = TRUE]

\* dashboard: answer from the cache, start a build when one is due, wait for it
\* when there is nothing to show or the caller insists.
Dashboard ==
  /\ client.pc = "read"
  /\ LET quick == IsFresh /\ ~client.force /\ ~RefreshDue
         begins == ~quick /\ worker.pc = "none" /\ (client.force \/ ~backoff)
         waits == ~quick /\ (cached.doc < 0 \/ client.force) IN
     /\ worker' = IF begins THEN Begun(1) ELSE worker
     /\ client' = [client EXCEPT !.pc = IF waits THEN "wait" ELSE "idle", !.force = waits /\ @]
     /\ served' = IF waits THEN served ELSE cached.doc
  /\ UNCHANGED <<usage, stored, marker, flock, thread, holdoff, cli, cached, failed, backoff>>

\* The build ended or the wait timed out.
WaitEnds ==
  /\ client.pc = "wait" /\ client' = [pc |-> "idle", force |-> FALSE]
  /\ served' = cached.doc
  /\ UNCHANGED <<usage, stored, marker, flock, thread, holdoff, cli, cached, failed, backoff, worker>>

\* super().dashboard(): the sources are read.
WorkerBuilds ==
  /\ worker.pc = "build" /\ worker' = [worker EXCEPT !.pc = "end", !.doc = stored, !.after = TRUE]
  /\ UNCHANGED <<usage, stored, marker, flock, thread, holdoff, cli, client, cached, failed, backoff,
                 served>>

\* The generation noted before the sources were read.
GenerationBefore == worker.current

\* The snapshot is installed, as old as the build was long; one more build follows when a source moved on.
WorkerInstalls ==
  /\ worker.pc = "end"
  /\ \E age \in {"new", "due", "expired"} :
       cached' = [doc |-> worker.doc, current |-> GenerationBefore, age |-> age,
                  after |-> worker.after]
  /\ worker' = IF ~GenerationBefore /\ worker.attempt = 1
               THEN Begun(2) ELSE NoWorker
  /\ failed' = FALSE /\ backoff' = FALSE
  /\ UNCHANGED <<usage, stored, marker, flock, thread, holdoff, cli, client, served>>
WorkerFails ==
  /\ worker.pc \in {"build", "end"} /\ worker' = NoWorker
  /\ failed' = TRUE /\ backoff' = TRUE
  /\ UNCHANGED <<usage, stored, marker, flock, thread, holdoff, cli, client, cached, served>>

-----------------------------------------------------------------------------
(* The tools that write usage, and the passing of time.                    *)

UsageWritten ==
  /\ usage < MaxUsage /\ usage' = usage + 1
  /\ UNCHANGED <<stored, marker, flock, thread, holdoff, cli, client, cached, failed, backoff, worker,
                 served>>

Older(age) == IF age = "new" THEN "due" ELSE "expired"
MarkerAges ==
  /\ marker = [complete |-> TRUE, age |-> "new"] /\ marker' = [marker EXCEPT !.age = "old"]
  /\ UNCHANGED <<usage, stored, flock, thread, holdoff, cli, client, cached, failed, backoff, worker,
                 served>>
SnapshotAges ==
  /\ cached.doc >= 0 /\ cached.age # "expired" /\ cached' = [cached EXCEPT !.age = Older(@)]
  /\ UNCHANGED <<usage, stored, marker, flock, thread, holdoff, cli, client, failed, backoff, worker,
                 served>>
HoldoffElapses ==
  /\ holdoff /\ holdoff' = FALSE
  /\ UNCHANGED <<usage, stored, marker, flock, thread, cli, client, cached, failed, backoff, worker,
                 served>>
BackoffElapses ==
  /\ backoff /\ backoff' = FALSE
  /\ UNCHANGED <<usage, stored, marker, flock, thread, holdoff, cli, client, cached, failed, worker,
                 served>>

ClientSteps == (\E force \in BOOLEAN : RequestRefresh(force)) \/ StartThread \/ Dashboard \/ WaitEnds
ThreadSteps == ThreadLocks \/ ThreadScans \/ ThreadMarks \/ Announce
WorkerSteps == WorkerBuilds \/ WorkerInstalls
CliSteps == \E whole \in BOOLEAN : CliEnds(whole)
Faults == ThreadFails \/ ThreadPartial \/ WorkerFails

CacheNext ==
  \/ ClientSteps \/ ThreadSteps \/ WorkerSteps \/ CliSteps \/ Faults
  \/ \E rebuild \in BOOLEAN : CliLocks(rebuild)
  \/ UsageWritten \/ MarkerAges \/ SnapshotAges \/ HoldoffElapses \/ BackoffElapses

CacheSpec == CacheInit /\ [][CacheNext]_cacheVars

-----------------------------------------------------------------------------
(* Properties.                                                             *)

\* What the cache answers as fresh was read from the store after the last scan
\* that was announced, although scans end while a snapshot is being built
\* (_refresh_worker, _is_fresh).
FreshWasReadSince == IsFresh => cached.after

-----------------------------------------------------------------------------
(***************************************************************************)
(* The daily series an account's provider reports: fetched in the          *)
(* background by usage/provider_series.py while the account may be         *)
(* switched, and kept by usage/series_retention.py in a file and a replica *)
(* that several processes write.  A day's value is the account it was      *)
(* fetched for and the time it was observed; zero is no value.             *)
(***************************************************************************)

CONSTANTS
  Account, FirstAccount, Process, SeriesDay,
  MaxStamp, MaxSwitches   \* bounds

\* "none" names no account.
ASSUME SeriesAssumption ==
  /\ FirstAccount \in Account /\ "none" \notin Account \cup Process /\ "free" \notin Process
  /\ MaxStamp \in Nat

VARIABLES
  account,   \* the account the disk's credentials name
  switches,
  clock,
  primary, backup,  \* [scope, days]; scope "none" is unreadable or absent
  retained,  \* per process and account: days held in memory
  fetching,  \* per process: [pc, id, days, owner, stamp, moves]; moves counts, up
             \* to two, how often the account was switched meanwhile
  receiptLock

seriesVars == <<account, switches, clock, primary, backup, retained, fetching, receiptLock>>

NoDay == [owner |-> "none", stamp |-> 0]
NoDays == [d \in SeriesDay |-> NoDay]
NoFile == [scope |-> "none", days |-> NoDays]
NotFetching == [pc |-> "idle", id |-> "none", days |-> {}, owner |-> "none", stamp |-> 0, moves |-> 0]

SeriesInit ==
  /\ account = FirstAccount /\ switches = 0 /\ clock = 1
  /\ primary = NoFile /\ backup = NoFile
  /\ retained = [p \in Process |-> [a \in Account |-> NoDays]]
  /\ fetching = [p \in Process |-> NotFetching] /\ receiptLock = "free"

-----------------------------------------------------------------------------
(* SeriesRetention.                                                        *)

\* _read: the file, or its replica; a file of another account reads as absent.
OnDisk(a) ==
  IF primary.scope = a THEN primary.days
  ELSE IF backup.scope = a THEN backup.days ELSE NoDays

\* recall: memory first.
Recalled(p, a) == IF retained[p][a] # NoDays THEN retained[p][a] ELSE OnDisk(a)

\* _prior: day by day, what was observed last.
Prior(p, a) ==
  [d \in SeriesDay |->
     IF retained[p][a][d].stamp > OnDisk(a)[d].stamp THEN retained[p][a][d] ELSE OnDisk(a)[d]]

\* Whose usage a response is; of one that saw the account switched there and
\* back, which is not noticed, nothing is claimed.
ClaimedOwner(f) == IF f.moves < 2 THEN f.owner ELSE "none"
\* _merge: a response replaces the days it names unless they were observed later.
Merged(p, f) ==
  [d \in SeriesDay |->
     IF d \in f.days /\ f.stamp >= Prior(p, f.id)[d].stamp
     THEN [owner |-> ClaimedOwner(f), stamp |-> f.stamp] ELSE Prior(p, f.id)[d]]

\* The account is still the one the fetch began for.
SameAccount(p) == account = fetching[p].id

\* observe, with the lock: merge and replace the file.
Observe(p) ==
  /\ fetching[p].pc = "checked" /\ receiptLock = "free" /\ SameAccount(p)
  /\ LET days == Merged(p, fetching[p]) IN
     /\ retained' = [retained EXCEPT ![p][fetching[p].id] = days]
     /\ primary' = [scope |-> fetching[p].id, days |-> days]
  /\ receiptLock' = p /\ fetching' = [fetching EXCEPT ![p].pc = "replica"]
  /\ UNCHANGED <<account, switches, clock, backup>>

\* The second file gets the same bytes.
WriteReplica(p) ==
  /\ fetching[p].pc = "replica"
  /\ backup' = [scope |-> fetching[p].id, days |-> retained[p][fetching[p].id]]
  /\ receiptLock' = "free" /\ fetching' = [fetching EXCEPT ![p] = NotFetching]
  /\ UNCHANGED <<account, switches, clock, primary, retained>>

\* Without the lock, or when the disk refuses: memory only.
ObserveInMemory(p) ==
  /\ fetching[p].pc = "checked" /\ SameAccount(p)
  /\ retained' = [retained EXCEPT ![p][fetching[p].id] = Merged(p, fetching[p])]
  /\ fetching' = [fetching EXCEPT ![p] = NotFetching]
  /\ UNCHANGED <<account, switches, clock, primary, backup, receiptLock>>

-----------------------------------------------------------------------------
(* CodexUsageSeriesSource.                                                 *)

\* _load_identity and _maybe_start: one fetch at a time, for the account of now.
FetchBegins(p) ==
  /\ fetching[p] = NotFetching
  /\ retained' = [retained EXCEPT ![p][account] = Recalled(p, account)]
  /\ fetching' = [fetching EXCEPT ![p] = [NotFetching EXCEPT !.pc = "fetch", !.id = account]]
  /\ UNCHANGED <<account, switches, clock, primary, backup, receiptLock>>

\* The provider answers for the account whose credentials it finds, with some
\* of its days; or it fails.
FetchEnds(p) ==
  /\ fetching[p].pc = "fetch"
  /\ \E days \in SUBSET SeriesDay \ {{}} :
       fetching' = [fetching EXCEPT ![p].pc = "got", ![p].days = days, ![p].owner = account]
  /\ UNCHANGED <<account, switches, clock, primary, backup, retained, receiptLock>>

\* refresh_now after the fetch: the comparison, then the time of observation.
Stamped(p) ==
  /\ fetching[p].pc = "got" /\ SameAccount(p)
  /\ clock < MaxStamp /\ clock' = clock + 1
  /\ fetching' = [fetching EXCEPT ![p].pc = "checked", ![p].stamp = clock]
  /\ UNCHANGED <<account, switches, primary, backup, retained, receiptLock>>

\* _failed: the provider fails, or the account is another one.
FetchFails(p) ==
  /\ \/ fetching[p].pc = "fetch"
     \/ fetching[p].pc \in {"got", "checked"} /\ ~SameAccount(p)
  /\ fetching' = [fetching EXCEPT ![p] = NotFetching]
  /\ UNCHANGED <<account, switches, clock, primary, backup, retained, receiptLock>>

-----------------------------------------------------------------------------

\* The user signs in to another account.
AccountSwitched ==
  /\ switches < MaxSwitches /\ switches' = switches + 1
  /\ \E a \in Account \ {account} : account' = a
  /\ fetching' = [p \in Process |-> IF fetching[p].pc \in {"fetch", "got", "checked"} /\ fetching[p].moves < 2
                                   THEN [fetching[p] EXCEPT !.moves = @ + 1] ELSE fetching[p]]
  /\ UNCHANGED <<clock, primary, backup, retained, receiptLock>>

ProcessDies(p) ==
  /\ retained' = [retained EXCEPT ![p] = [a \in Account |-> NoDays]]
  /\ fetching' = [fetching EXCEPT ![p] = NotFetching]
  /\ receiptLock' = IF receiptLock = p THEN "free" ELSE receiptLock
  /\ UNCHANGED <<account, switches, clock, primary, backup>>

PrimaryDamaged ==
  /\ primary # NoFile /\ primary' = NoFile
  /\ UNCHANGED <<account, switches, clock, backup, retained, fetching, receiptLock>>

SeriesSteps(processes) ==
  \/ \E p \in processes :
       \/ FetchBegins(p) \/ FetchEnds(p) \/ Stamped(p) \/ FetchFails(p)
       \/ Observe(p) \/ WriteReplica(p) \/ ObserveInMemory(p) \/ ProcessDies(p)
  \/ PrimaryDamaged

SeriesNext == SeriesSteps(Process) \/ AccountSwitched

SeriesSpec == SeriesInit /\ [][SeriesNext]_seriesVars

-----------------------------------------------------------------------------
(* Properties.                                                             *)

\* What is kept for an account is that account's usage, in memory and on disk,
\* although the account is switched while a fetch runs, unless it is switched
\* there and back (refresh_now).
SeriesIsOwn ==
  \A d \in SeriesDay :
    /\ primary.days[d].owner \in {"none", primary.scope}
    /\ \A p \in Process, a \in Account : retained[p][a][d].owner \in {"none", a}

\* A process that replaces the file never puts an older observation of a day
\* in the place of a later one, although processes merge from what they hold,
\* die, and answer partly (_prior, _merge).
DayNeverReverts ==
  [][primary.scope = primary'.scope =>
       \A d \in SeriesDay : primary'.days[d].stamp >= primary.days[d].stamp]_primary

-----------------------------------------------------------------------------
(***************************************************************************)
(* The offline replica of usage/replica.py: sources are copied to a        *)
(* staging directory of an external volume while their owners write them,  *)
(* verified, and published by a rename.  A source is two blocks; its       *)
(* modification time is the number of writes to it.                        *)
(***************************************************************************)

CONSTANTS
  Src,          \* configured items
  Database,     \* those of kind sqlite
  Optional,     \* those not required
  Volume,       \* records [uuid, external, writable, encrypted, image]; image is the
                \* volume that backs an encrypted disk image, "none" when there is none
  MaxWritten, MaxAttempts, MaxGenerations  \* bounds; the code's attempts are 3

VARIABLES
  source,     \* per item: [blocks, mtime, present]
  was,        \* per item: every content it ever had
  seed,       \* the run: [pc, item, left, stat, half, attempt, entries]
  archive,    \* volume uuid the archive's identity file names
  published   \* published generations: functions of items to their copies

replicaVars == <<source, was, seed, archive, published>>

NoSeed == [pc |-> "idle", item |-> "none", left |-> {}, stat |-> 0, half |-> 0, attempt |-> 0,
           entries |-> << >>]

ReplicaInit ==
  /\ source = [i \in Src |-> [blocks |-> <<0, 0>>, mtime |-> 0, present |-> TRUE]]
  /\ was = [i \in Src |-> {<<0, 0>>}]
  /\ seed = NoSeed /\ archive = "none" /\ published = {}

\* inspect_external_volume, over what diskutil and hdiutil report.
Accepted(v) ==
  /\ v.external /\ v.writable
  /\ v.encrypted \/ \E w \in Volume : w.uuid = v.image /\ w.external /\ w.writable

\* load_config and estimate_source_bytes: every required source exists.
AllPresent == \A i \in Src \ Optional : source[i].present

\* _prepare_archive_root: an archive stays with its volume.
ArchiveFits(v) == archive \in {"none", v.uuid}

SeedBegins(v) ==
  /\ seed = NoSeed /\ Accepted(v) /\ AllPresent /\ ArchiveFits(v)
  /\ Cardinality(published) < MaxGenerations
  /\ archive' = v.uuid
  /\ seed' = [NoSeed EXCEPT !.pc = "next", !.left = Src]
  /\ UNCHANGED <<source, was, published>>

With(entries, i, copy) == [k \in DOMAIN entries \cup {i} |-> IF k = i THEN copy ELSE entries[k]]
Kept(i, copy) == [seed EXCEPT !.pc = "next", !.left = @ \ {i}, !.entries = With(@, i, copy)]

\* A failure removes the staging directory; one that a dead run leaves is not read again.
GiveUpSeed == seed' = NoSeed

\* _copy_item: a source that is gone, a database by its backup, a file by copy.
CopyItem(i) ==
  /\ seed.pc = "next" /\ i \in seed.left
  /\ \/ ~source[i].present /\ i \in Optional
        /\ seed' = [seed EXCEPT !.left = @ \ {i}]
     \/ ~source[i].present /\ i \notin Optional /\ GiveUpSeed
     \/ source[i].present /\ i \in Database
        /\ seed' = Kept(i, source[i].blocks)
     \/ source[i].present /\ i \notin Database
        /\ seed' = [seed EXCEPT !.pc = "copy", !.item = i, !.attempt = 1,
                                !.stat = source[i].mtime, !.half = source[i].blocks[1]]
  /\ UNCHANGED <<source, was, archive, published>>

\* Mutant: sizes only are compared.
SameSize(before, after) == TRUE
\* Nothing was written to the source meanwhile.
Unchanged(before, after) == before = after

\* _copy_stable_file: the rest of the file, and the second stat.
CopyEnds ==
  /\ seed.pc = "copy"
  /\ LET now == source[seed.item] IN
     \/ /\ Unchanged(seed.stat, now.mtime)
        /\ seed' = [Kept(seed.item, <<seed.half, now.blocks[2]>>) EXCEPT
                      !.item = "none", !.attempt = 0, !.stat = 0, !.half = 0]
     \/ /\ ~Unchanged(seed.stat, now.mtime) /\ seed.attempt < MaxAttempts
        /\ seed' = [seed EXCEPT !.attempt = @ + 1, !.stat = now.mtime, !.half = now.blocks[1]]
     \/ /\ ~Unchanged(seed.stat, now.mtime) /\ seed.attempt = MaxAttempts /\ GiveUpSeed
  /\ UNCHANGED <<source, was, archive, published>>

\* The manifest, verify_generation in the staging directory and the rename.
PublishSeed ==
  /\ seed.pc = "next" /\ seed.left = {}
  /\ published' = published \cup {seed.entries}
  /\ seed' = NoSeed
  /\ UNCHANGED <<source, was, archive>>

SeederDies ==
  /\ seed # NoSeed /\ seed' = NoSeed
  /\ UNCHANGED <<source, was, archive, published>>

-----------------------------------------------------------------------------
(* The owners of the sources.                                              *)

BlockWritten(i, b) ==
  /\ source[i].present /\ source[i].mtime < MaxWritten
  /\ LET now == [source[i].blocks EXCEPT ![b] = @ + 1] IN
     /\ source' = [source EXCEPT ![i].blocks = now, ![i].mtime = @ + 1]
     /\ was' = [was EXCEPT ![i] = @ \cup {now}]
  /\ UNCHANGED <<seed, archive, published>>
Removed(i) ==
  /\ source[i].present /\ source' = [source EXCEPT ![i].present = FALSE]
  /\ UNCHANGED <<was, seed, archive, published>>

ReplicaNext ==
  \/ \E v \in Volume : SeedBegins(v)
  \/ \E i \in Src : CopyItem(i) \/ Removed(i) \/ \E b \in 1 .. 2 : BlockWritten(i, b)
  \/ CopyEnds \/ PublishSeed \/ SeederDies

ReplicaSpec == ReplicaInit /\ [][ReplicaNext]_replicaVars

-----------------------------------------------------------------------------
(* Properties.                                                             *)

\* A published generation holds every required source, each as it was at one
\* moment, although the sources are written while they are copied and runs die
\* (_copy_stable_file, seed_replica).
PublishedUntorn ==
  \A g \in published :
    Src \ Optional \subseteq DOMAIN g /\ \A i \in DOMAIN g : g[i] \in was[i]

\* What usage keeps on file is one account's, never goes back, and is whole
\* (refresh_now, _merge, seed_replica).
FilesUntorn == [](SeriesIsOwn /\ PublishedUntorn) /\ DayNeverReverts
=============================================================================
