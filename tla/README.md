# Replay Control: TLA+ models, checks and proofs

Replay Control is a Rust web application that runs on a Raspberry Pi beside RePlayOS. It
indexes the ROM collection of whichever storage is selected (SD card, USB disk, NVMe, NFS
share), enriches the index with metadata, and serves it to browsers. One tokio process
holds everything: request handlers, a startup pipeline, file and mount watchers, a retry
task, and blocking closures that run SQL. Its hard parts are the ones this project models:
who may work at a time, what an interrupted scan leaves behind, when a database file may
be replaced, and what happens when the storage changes under all of that.

All paths below are relative to `src/`. `app/` abbreviates `replay-control-app/src/`,
`server/` abbreviates `replay-control-core-server/src/`.

## 1. Inventory

| Component | State | Operations | Works with |
|---|---|---|---|
| **Activity slot** (`app/api/activity.rs`) | one `RwLock<Activity>`, a broadcast channel | claim (`try_start_activity`), `update`, worker updates, `Drop` of the guard, `mem::forget` of it by the self-updater | every long task; the SSE stream |
| **Activity SSE stream** (`app/main.rs`) | per client: a broadcast receiver, what the browser shows | subscribe, snapshot, receive, resynchronise after a lag | activity slot |
| **Library scan and reconcile** (`app/api/library/`, `app/api/background/`) | scan-local listing, token, generation | read inputs, walk, begin, chunks, finalize, enrich | library.db, activity slot, storage generation |
| **library.db discovery tables** (`server/library/db/`) | `game_library` rows with a scan token, `game_library_meta` (discovery and enrichment state), fingerprint in `library_meta`, token sequence | the statements of the scan, of the web edits, of the identity phase, the recovery on open | pool |
| **Web edits of ROMs** (`app/server_fns/roms.rs`, `app/api/roms.rs`) | none beyond the request | delete, rename and upload: the file, the cascade of the UI, then the clear of the system in two DELETEs | library.db, the disk |
| **Database pool** (`server/db_pool.rs`, `server/sqlite.rs`) | read slot, write slot, path, journal mode, write gate, corruption flag | `try_read`, `try_write`, `reopen`, `reset_to_empty`, `replace_with_file`, `mark_corrupt` | everything that touches SQL |
| **Storage activation** (`app/api/mod.rs`, `app/api/background/tasks.rs`, `app/api/mountinfo_watcher.rs`) | config, status, location, mount signature, generation, redetect lock | reload and redetect, probe, prepare, reopen both pools, commit; the retry task; the mutation gate | pools, scans, requests |
| **Identity phase** (`app/api/background/identity.rs`) | phases that take turns, batch claims (`identity_state` Running), files tried | queue, take the slot, claim rows, hash, complete, forward-progress guard | library.db, activity slot, storage generation |
| **Enrichment** (`app/api/library/enrichment.rs`) | enrichment state | start, read inputs, write, settle | library.db, external metadata |
| **External metadata refresh** (`app/api/background/external_metadata.rs`, `server/external_metadata.rs`) | provider tables; CRC, normalizer, platform and ETag stamps; the XML file | HEAD, download, stamp, parse, apply, enrich again; seed, clear, regenerate; schema recovery | activity slot, its own pool |
| **Thumbnails** (`app/api/thumbnail_*.rs`) | durable job rows, dedup set, bulk channel, permits | plan, submit, download, hook, resume, clear | enrichment, library.db, network |
| **Self-update** (`app/api/updates.rs`, `server/update.rs`, `packaging/package-update-*`) | `UPDATE_DIR`, the script, `update-result`, the offer | check, download, extract, hand over to a script or a unit; swap, restart, health check, roll back | activity slot, systemd, package manager |
| **Authentication** (`server/auth.rs`, `app/api/auth_gate.rs`) | sessions, rate limiters | login, check, expire | every request |
| **Response caches** (`app/api/response_cache.rs`, `app/api/library/`) | favorites, recents, pills, the recommendations snapshot, slots with a TTL | fill on miss, invalidate, expire | library.db, marker files, every edit |
| Settings, user data tables, favorites and captures, now playing, name and hash libraries, catalog build, pages, libretro core, packaging | | | listed in `PROJECT.json` |

How they interact: a long task claims the **slot**, captures the **storage location and
generation**, and writes through the **library pool**; **storage activation** bumps the
generation, swaps both **pools** and then the location, without claiming the slot; the
**ROM watcher** and the **web edits** write through the pool without claiming the slot
either; **repair and restore** unlink database files through the pool.

Hard behaviours, and what correctness means there:

* *Broadcast after unlock.* The slot changes under a lock and is announced after it. A
  finished activity must not stay on the screen of a browser, even one that lost messages.
* *Several transactions, one promise.* A scan commits row by row and may die anywhere.
  `Complete` must mean that the rows are the listing; a startup may skip a system only if
  nothing is left to do; no failure may lose rows.
* *Closures that cannot be cancelled.* A timed-out call leaves its closure running on the
  file. No closure may work on a file that is being unlinked or recovered.
* *A gate that may be left shut.* Reads of a DELETE-mode file are refused during a write;
  no path may leave that refusal behind.
* *Three pieces of state move one after the other.* Library pool, user data pool and
  location change separately, media may be swapped at any point, and each step may fail or
  be dropped with its request. `Ready` must mean that they agree.
* *Stale scans.* A scan of one medium must not save into the library of another.
* *Missed notifications.* The selected storage must come up without any event.
* *Results that come late.* A hash, a download or an import ends after its rows were replaced,
  cleared, or belong to another storage. It must not settle what it was not computed for.
* *Stamps that vouch for rows.* An import is skipped because a stamp says so; the stamp must
  never outlive the rows, and a failed import must be made up for.
* *A dedup set beside a queue.* A key that leaks from it can never be downloaded again.
* *Fill against invalidate.* A request that read before an invalidation must not store what it
  read after it, and the locks of nested views must not wait for one another in a cycle.
* *An installer that outlives its server.* Script and package unit run on while the server that
  started them is replaced, restarted, or checks for releases.

`PROJECT.json` lists each hazard at the line where it bites and the properties about it.

## 2. Modules

| Module | Models | Proofs |
|---|---|---|
| `SlotMutex` | abstract specification of the slot: a mutex that only changes hands through "free" | |
| `ActivitySlot` | slot, guards, workers, channel, SSE clients; refines `SlotMutex` | `SlotAndUpdateProofs` |
| `LibraryScan` | one system of library.db: scans, watcher, identity, edits, crash and recovery | `LibraryScanProofs` |
| `PoolService` | abstract specification of a pool: open on one file or closed, one writer, no work left over | |
| `DbPool` | one database pool: calls, closures, gate, lifecycle calls; refines `PoolService` | `DbPoolProofs` |
| `StorageActivation` | redetection, retry, gate, generation, pools and location, repair | `StorageActivationProofs` |
| `IdentityPhase` | the identity phases of one system over two storages: queue, claims, hashing, late writes, scans beside them | `IdentityPhaseProofs` |
| `ThumbnailQueue` | job rows, enrichment's plan, submitters, channel, worker, permits, hooks, `clear_images` | `ThumbnailQueueProofs` |
| `ExternalMetadata` | LaunchBox tables and stamps: boots, refreshes, clears, late commits, new releases | `ExternalMetadataProofs` |
| `ViewCaches` | in-memory views, the requests that fill them, the operations that invalidate them | `ViewCachesProofs` |
| `SelfUpdate` | checks, `start_update`, the swap script, the package unit, restarts | `SlotAndUpdateProofs` |
| `MC*` | the same modules for TLC (symmetry where a cfg uses it) | |

The modules meet at their abstractions: `StorageActivation` uses a pool as "open on a
volume, or closed, and reopening may fail", which is `PoolService`, and `DbPool` implements
it (`ImplementsService`); it uses a scan as "captures, walks, checks, writes", which is
`LibraryScan` with its control inside one system left out; `LibraryScan` uses the slot as
a lock, which is `ActivitySlot`'s refinement of `SlotMutex`. `IdentityPhase` has the
activation's steps that a scan or a worker can meet (generation, opener, close, attach, location)
and the scan's comparisons and writes, without the media of the one and the tokens and
fingerprints of the other; `ThumbnailQueue` uses an activation as one step that changes the open
library. `ExternalMetadata` and `SelfUpdate` use the slot as a lock, and
the late commit of `ExternalMetadata` is the `TimeOut` and `LateEnd` of `DbPool`.

### ActivitySlot

`activity` is `AppState::activity`; progress counters are abstracted to "running" and
"terminal". `guard[t]` is the `ActivityGuard` of task `t` (`held`, or `leaked` once the
self-updater forgets it). Every operation of the code locks, assigns, clones, unlocks and
sends; the model has one action up to the unlock, which leaves the clone in `outbox[p]`,
and `Send(p)`. `queue`, `lagged` and `view` are the receiver's ring of capacity `Cap`, the
`Lagged` error and what the browser shows. `employer[w]` is the holder that spawned worker
`w` and joins it before it drops its guard.

### LibraryScan

One system, because systems only share the token sequence. A file is its version (size and
mtime); versions differ in size. A fingerprint is the listing that it was computed from. The
walk looks at one file at a time while files change. A chunk is one row, the finest grain at
which the chunked transactions can be interrupted. `Populators` claim the slot;
`Watchers` look at it once; `Edits` take nothing. An edit changes the file (`DeleteFile`, `RenameFile`,
`UploadFile`), then, from the web UI, the rows of the name (`CascadeDelete`, `CascadeRename`, which may
fail), and always ends by clearing the whole system, whose rows and metadata are two
DELETEs that commit by themselves (`ClearRows`, `ClearMeta`); `request` is what is still to come, and
`Abandon` ends it anywhere, since the client may go away and each statement may fail. `Crash` is
possible between any two transactions and ends in the recovery that the next open runs.
`torn` and `stirred` are history variables that only the properties read: an edit has changed rows
since the save behind the stored fingerprint began, and since the last save began.

A write that timed out still commits later; the write connection is single, so it commits
before every later write of the same pool, and a reported failure whose effect lands anyway
is the same as a success followed by `Fail`.

### DbPool

A pool number stands for the read and write pool that one `reopen` builds together. A call
goes `armed` (journal mode read, gate shut), `get` (pool taken from its slot, gate
checked), `run` (closure on the blocking pool). `TimeOut` gives the connection back and
leaves the closure in `late`. A lifecycle call goes through the opener, close, the two
drains (each may hit its deadline), unlink, recovery, mode swap, install and publish. The
checks that `dispatch` makes without an await between them are one step. The restore's
fallback (a reset after a failed copy) is another `StartFresh`. `Overruns` switches the
closures that outlast every timeout on and off: the safety properties hold without them
and fail with them. For `PoolService`, `open` is "the write slot is filled", `serves` is the file of the
pool in the slots or in a drain (`Held`), and `work[c]` the file of `c`'s closure, also of one that
outlived its call; close, drain and install are its `Shut`, `Leave` and `Open`, and a writer may still begin
between `Shut` and `Leave`, because the write pool is closed only after the read drain.

### StorageActivation

A root is a storage kind with its mount point; a volume is a medium with its storage id;
`Stub` is the directory of the root file system below an empty mount point. `mount` gives
every mount a fresh id, as the kernel does, so the id stands for
`mount_instance_signature`. library.db is kept per storage id on the host, so its identity
is the volume whose id was read (`redetect.volume`); user_data.db is below the root, so it
is whatever is mounted when it is opened. The start of the process goes through
`bootLibrary`, `bootUser` and `bootSign`: it opens the two databases and samples the mount signature
only then, and `mistaken` is the history of a sample that is not of the mount whose library
was opened. A redetection holds the lock from `Redetect` to
`Finish` and its steps end at the awaits of the code: the probe and the drains of the two
reopens. `Dropped` is the end of the web request that runs it, at one of those awaits.
`settled` and `scan[s].lib` are history: whether the scan began outside an activation, and
the library that was open then.

### IdentityPhase

`rows[s][f]` is `identity_state` in the library of storage `s`; a settled row is told apart by the
storage whose file its hash was computed from. `lib`, `loc` and `gen` are the open library, the
location that scans capture and `storage_generation`. An activation (`act`) bumps the generation, runs the
opener on the new library while the old one still serves, closes the pool, attaches the new one and
moves the location, and may fail at the opener, at the pool or at user data; what
was done before stays. A scan captures, reads, and then for each chunk and for the
finalize compares the generation and writes, two steps each. `waiting` and `phase` are the queue on the `identity_phase` mutex and
its holder; `pc`, `claimed`, `attempted`, `slices` and `hashed` are the locals of
`identify_system`. Claims mark rows Running in file-name order, at most `Batch` at a time.
Every write goes to the library that is open then, and opening a library demotes its Running
rows (`recover_running_states`). `since` (the generation in which the library was opened) and `mixed`
(a request meets a library that is not of its storage and that its comparisons do not
keep it from, see `Mixes`) are history.

### ThumbnailQueue

`job[s][k]` is the row of `library_thumbnail_job` with its attempts; `pending` is the
orchestrator's dedup set; `submit[u].at` is a `ClaimGuard` whose send waits for room;
`queue`, `hand` and `lane` are the bulk channel, the job `run_worker` holds while it waits
for a permit, and the running downloads. `run_job` saves the image, runs the hook (which
settles the rows and sets `box_art_url`) and releases the key, three actions with everything
else in between. A submitter may be dropped, the process may restart (the database and the
images stay), and the pipeline resumes the rows that are left.

### ExternalMetadata

`rows[T]` is what provider table `T` was filled from: file version and build. `crc`, `norm`,
`plat` and `etag` are the stamps of `external_meta`; `xml` is the file on disk; `lib` is what
the library was last enriched from. A task walks through the phases of
`download_external_metadata_and_refresh` or `phase_auto_import_inner`; the startup pipeline seeds, imports, verifies. An enrichment reads the tables (`seen`) and then writes the library; its reads may fail and count as
empty, the list of systems may be unreadable, its writes may fail, and a rescan (`Other`) enriches as
well. `clear_launchbox` is six statements (`clearAt`), each committed by itself. `late` is an import whose write timed out and
still runs. `Restart` opens the database again, possibly as a newer build that redefines tables.
`cut` and `lost` are history (see the exceptions of the properties).

### ViewCaches

The content of a source (library.db, favorites, recents) is a version number. `value[c]` and
`lock[c]` are the caches and their `RwLock` writers; a request's `pc` is where it is in
`get_recommendations` or `get_favorites_recommendations`. An operation of the code (favorite,
launch, override, delete, REST rename, rescan, watcher, activation) is the sequence of its
writes and invalidations in the order of the code; requests run between any two.
`announced` is history: which version an invalidation has promised. The home page's second look
at favorites, behind recents (`server_fns/recommendations.rs:94`), is left out: it takes the locks of the
first one, at a later time, and what it can fill a favorites page fills too.

### SelfUpdate

`dir` is `UPDATE_DIR` (offer, archives, staged parts, package), `script` is `UPDATE_SCRIPT`. `work`
is `start_update` between its awaits, `task` its extraction on the blocking pool. `helper` is the
process of the generated script, with one step per part it swaps, since that is where a crash
finds it. Each `cp` of the backup, each `mv` of the swap and each put-back of the rollback may fail
for any part, leaving nothing or a part of it (`Partial`), and the script goes on, as `|| true` and
unchecked commands do. `unit` is the transient unit that runs `package-update-deb`; a package manager that fails, is killed or loses power may have
replaced some of the parts; `result` is `update-result`, and
`fresh` that it is younger than the grace period. `slot` is `leaked` after `mem::forget`, `watch` while the
task of a package update keeps the guard. `check[c]` is one manual check or the loop; `ask` is
between the first read of `update-result` and the answer of `systemctl`, the window the code's
lock is for. `package-update-rpm` differs in the package manager only. `before`, `swept`, `cut`, `failed`, `torn` and `orphaned` are history;
`failed` names the parts that the script could not copy, move and put back, `torn` says that a script or a
package manager ended with parts missing or mixed.

## 3. What the runs check

Every property has a comment at its definition; every property of a passing run has a
mutant of the code (a dropped guard, a missing reset) that TLC refutes it with.

| Run | Result | What it shows |
|---|---|---|
| `activity_slot` | holds | one holder (`SlotHasOneHolder`), a mutex (`ImplementsMutex`), no finished activity on a drained browser (`NoStuckBanner`), and when the slot stays Idle every connected browser ends up showing it (`IdleIsShown`) |
| `scan` | holds | failures, crashes and file changes anywhere, and REST renames whose two-step clear arrives, stops or fails at any point: `CompleteIsListing`, `SkipIsSound`, `RowsLostOnlyByReconcile` |
| `scan_watcher` | holds | the watcher alone, with deletes, renames and uploads of the web UI and the REST API, their cascades and clears, cut short anywhere (`CompleteIsListing`) |
| `pool` | holds | `FileIsExclusive`, `NoStuckGate`, `OpenMatchesPath`, `ImplementsService` with closures that end in time and one lifecycle call at a time |
| `pool_live` | holds | lifecycle calls end although closures may not (`LifecycleEnds`) |
| `storage` | holds | Ready only with both databases on the activated medium, also when media change while the process starts, one case of `mistaken` apart (`ReadyIsConsistent`); the generation moves before the library a scan started with goes away (`GenerationGuardsScans`) |
| `storage_live` | holds | the retry task alone brings the storage up (`Recovers`) |
| `identity` | holds | over an activation step by step, a settled row has the hash of its own storage's file unless a scan fell across the activation (`CompleteIsOwnHash`), a worker settles nothing once a library was opened over it (`StaleWorkerSettlesNothing`), no late result brings a row back (`MembershipIsDiscovery`), and a phase ends although a file can never be hashed (`IdentityEnds`) |
| `thumbnails` | holds | the dedup set is exactly the keys being worked on (`ClaimIsExact`), no queued image is forgotten (`NothingForgotten`), every claim is given back (`ClaimsReturn`) |
| `external_metadata` | holds | the stamp stands for the rows (`StampIsRows`), imports are single-flight (`SingleFlight`), the library shows what was imported unless its enrichment was lost or failed (`ShownIsFresh`), repeated boots end with the file on disk (`BootsConverge`) |
| `view_caches` | holds | an invalidation is not undone (`InvalidationHolds`), no lock is left or waited for in a cycle (`NoLockCycle`), misses share one computation (`FilledOncePerWindow`), the unlocked entry is not served for ever (`ResponseConverges`) |
| `self_update` | holds | with failing copies, moves and put-backs, parts of one release or rolled back as far as they were copied (`InstalledIsWhole`, `RollbackRestores`), the helper's result and files are its own (`HelperOwnsResult`, `ResultIsKept`, `NeededIsKept`), the slot comes back (`SlotReturns`), the offer follows the channel (`OfferConverges`) |

### Divergences that the models reach

Places where the code does something else than a document, a comment or a reasonable reader
says. They are not kept as runs: each is a formula or a setting to add to the module named,
with which TLC finds the trace. Where a property of a run excepts such a case, its history
variable is named.

* `ActivitySlot`: the channel "pushes every state change" (`docs/architecture/activity-system.md`),
  but Drop's Idle can overtake the next holder's first broadcast, so a drained browser may
  show Idle while an activity runs.
* `LibraryScan`: "a system is either committed or rolled back"
  (`docs/architecture/startup-pipeline.md:103`), but chunks commit one by one and an interrupted
  scan leaves rows of two scans.
* `LibraryScan` (`torn`, `stirred`): the clear that ends an edit deletes the rows and then the metadata
  (`game_library.rs:1997`, `2134`). Cut short in between, it leaves a Complete system with its fingerprint and
  no rows; every startup walks the same files, finds the fingerprint unchanged and skips, and the
  system stays empty until its files change or it is rescanned. A clear that falls between begin and finalize
  of a scan takes the chunks already saved, and the finalize then declares the rest Complete. `SkipIsSound` and
  `CompleteIsListing` except just these: an edit that ran to its end outside a scan left no promise.
* `LibraryScan` with a populator and a watcher: the watcher looks at `is_idle()` once (`tasks.rs:579`) and then scans without
  the slot, so a populate pass can overlap it, and the Complete row set is of neither listing;
  `docs/architecture/cross-activity-coordination.md` holds that the two cannot. Without
  the overlap the properties hold (section 4, `OneScan`).
* `LibraryScan`: file events that arrive while an activity runs are dropped, and nothing
  rescans those systems when it ends.
* `DbPool`, with two `Admins`: a second lifecycle call finds empty slots while the first one is
  still draining, takes that for a clean drain and unlinks.
* `DbPool` with `Overruns = TRUE`: `dispatch` gives the connection back on a timeout while its closure
  still runs; the drain counts connections, and the file is unlinked under the closure (`db_pool.rs:340`), so
  `FileIsExclusive` fails.
* `DbPool`: the gate "Blocks reads for the duration of a write" (`db_pool.rs:243`), but it is looked at
  before a connection is taken, and the first of two writes opens it for both. A write "never
  observes (old mode, new pool)" (`docs/architecture/connection-pooling.md:42`), but it reads the mode
  before it takes the pool, and a reopen fits between.
* `StorageActivation`: the generation is bumped (`app/api/mod.rs:1422`) before pools and location move, so the watcher can
  capture the old storage with the new generation; and the check is not repeated inside the
  write. Either way a scan saves into the other storage's library, although the generation is
  what should prevent it (`docs/architecture/startup-pipeline.md:116`). `GenerationGuardsScans` is the part that holds.
* `StorageActivation` (`mistaken`): a medium that is replaced while the process starts, after the databases were
  opened (`app/api/mod.rs:656`) and before the signature is sampled (`:799`), gives Ready with the databases of the
  old medium and the signature of the new one; the retry task compares signatures and sees nothing to do.
* `StorageActivation`: an invalid header of `user_data.db` on the new medium flags the pool while
  that still has the old medium's path (`app/api/mod.rs:463`); the activation ends `Ready`, and "Repair a corrupt
  user_data database" (`app/server_fns/metadata.rs:418`) empties the healthy database of the previous medium. Formula:
  `\A q \in Repairs : request[q] = "reset" /\ redetect.pc = "idle" => user.root = storage`.
* `StorageActivation`, `Recovers` with `Drops = TRUE`: a request that runs the activation is dropped while
  a pool drains; the status stays Activating, which `storage_check_due` skips, until the next
  event or request.
* `IdentityPhase` (`mixed`): a scan that captures the old location with the new generation, or under which the
  library is replaced between its comparison (`scan_pipeline.rs:316`, `339`, `367`) and its write, puts the listing and
  the hashes of one storage into the library of the other, and its phase then settles them. When user data
  fails to reopen, the library is of the new storage and the location stays of the old one
  (`app/api/mod.rs:1435`, `1457`), so every scan until the next activation is such a scan. An overtaken worker
  that had compared before the bump may still settle rows of the old library, which is its own.
* `IdentityPhase`, `Files = {1, 2}`, `Unhashable = {1}`, `Batch = 1`: as many unhashable files as a batch
  holds (200), sorting first, are claimed again and again, the forward-progress guard stops the
  phase, and the files behind them are never hashed. The guard's comment says "they stay Failed and
  retry on the next scan" (`identity.rs:288`), but the rows were claimed and stay Running
  until the library is opened again.
* `ThumbnailQueue` (`disturbed`): a job saves its image, `clear_images` removes the files and clears the
  URLs, and the hook then stores the URL of the missing file, which `images.rs:24` means to prevent.
  After a swap the hook writes to the new storage's library. The dedup key has no storage, so a
  swap can collapse the new storage's submit into the old one's download.
* `ExternalMetadata` (`cut`, `lost`): `clear_launchbox` commits its deletes before it resets the stamps; a
  stop in between leaves a stamp for deleted rows, and every boot then skips the import. A crash after the
  import's commit, or a commit after its timeout was reported, is not followed by the enrichment that
  `startup-pipeline.md:64` promises, and the next boot skips both. Nor is a failed enrichment tried again: when the
  list of systems is unreadable it does nothing (`background/mod.rs:806`), unreadable tables count as empty
  (`enrichment.rs:85`, `206`), and the library shows old or partial metadata until the next refresh or rebuild. The ETag is stored before
  the file is parsed, so after a failed parse a refresh answers "up to date"; only a boot imports the file.
* `ViewCaches`: the pills are set after their database read, outside any lock, without TTL, so a list from
  before an invalidation stays until the next one; an import never invalidates them, although `query.rs:9` lists it.
  `compute_recommendations` returns the empty default when the database is unavailable
  (`recommendations.rs:405`), where its comment says `None`, and the empty home page is cached. Rescans
  invalidate before the populate pass and, unless identity work follows, not after it
  (`docs/architecture/server-functions.md:114`: "After enrichment completes"). A page that still has the storage of before
  a swap fills favorites and recents from it (`strayed`). The document's 10 seconds of TTL are 300 in the code.
* `SelfUpdate` (`swept`): boot tasks empty `UPDATE_DIR` unconditionally ("Clean up stale update temp
  files from a previous run", `tasks.rs:179`), also when a server that crashed boots under the
  script or the package unit: the script then swaps in what is left, and the health check, which only
  asks for a version, may accept a binary without its site.
* `SelfUpdate` (`failed`, `torn`): the script checks neither `cp` nor `mv` (`updates.rs:282`, `297`). After a failed `mv` the
  part is missing; a new binary that answers passes the health check, which asks for the version
  only, and the update ends as a success without its site or catalog. After a failed `cp` (full disk) the
  swap goes on, and a rollback leaves the new part, or half of the old one, in place. A failed put-back leaves the `.bak`
  behind for the next script. A package manager that is stopped halfway leaves a mix, and the package path has no rollback.
* `SelfUpdate` (`cut`): a `site.bak` from before a power cut is a directory, `cp -a` copies the site into it,
  and a later rollback restores the older site beside the newer binary.
* `SelfUpdate` (`orphaned`): `systemd-run --scope` is not waited for. When the scope's name is
  taken or the script is gone, nothing restarts the process, and the leaked guard keeps the slot.
* `SelfUpdate` with `Overruns = TRUE`: an extraction that outlived its request unpacks into the
  directory of the next update, and parts of two releases are installed.
* `SelfUpdate`: `start_update` empties the directory and then reads the sizes from the
  `available.json` that was in it (`updates.rs:520`), so the disk-space check runs only if a
  check wrote the file again meanwhile. A manual check has no guard against a changed channel;
  the loop puts its answer right (`OfferConverges`).

### Bounds

* `ActivitySlot`: three tasks (one of them an updater) are the least with which a slot is
  handed on twice while the first broadcast is still pending; two workers can race each other and
  their holder; capacity 2 makes a client lag after three sends. Clients do not influence
  the slot or one another, so one is enough.
* `LibraryScan`: two files let a scan be interrupted between two rows and let a rename
  collide; two versions make a file change without disappearing; two scan tokens give an
  abandoned scan and its successor.
  Files are symmetric. The populate run has the REST rename, whose late two-step clear is what every edit
  ends with; the watcher's run has all four edits with one version, because an edit changes names.
* `DbPool`: one reader and two writers give both races of the gate; three pools are two
  reopens; one file in each journal mode gives both crossovers; a read pool of one
  connection is the smallest limit. One lifecycle caller: redetection is serialised by its
  lock, and the assumption is that users do not repair twice at once.
* `StorageActivation`: two roots and two media; three moves let an activation start and the
  medium be replaced (unmount and mount) while it runs. A failure because the medium is
  absent costs nothing; other failures and dropped requests are counted (`MaxFaults`). The safety run
  uses the symmetry of roots and media. `Drops` is off in the liveness run (see above), and
  `Repairs` is empty in the safety run because a repair breaks `ReadyIsConsistent` (see the divergences).
* `IdentityPhase`: two files, one of which can never be hashed, and a batch of one make every batch a
  boundary; chunks of one row put an activation between any two rows of a scan; two storages and one
  activation put each of its steps between any two of a scan or a worker; rows left Running by an earlier process
  (`Leftover`) are what the recovery on open has to demote, and any other row comes from a scan; one
  waiting phase is one that starts with work already done for it.
* `ThumbnailQueue`: two keys, a channel of one, one permit and two submitters fill queue and permits
  and let a submit collapse; two attempts are a retry and a last one; two runs are an
  enrichment and a resumption.
* `ExternalMetadata`: three versions with an unparsable one in the middle, two builds of which
  the second redefines a table, two web calls at once, one fault.
* `ViewCaches`: two home requests and a page meet on every lock; one operation at a time: a
  second one only writes newer versions or empties caches again, which for the safety properties the
  theorems of `ViewCachesProofs` confirm. Each kind of operation is tried.
* `SelfUpdate`: a release that works and one that does not come up and has no catalog; two starts, so
  that one meets the other's script or unit; two manual checks, of which a change of the channel spawns one, so that the other is under way
  meanwhile; one mishap (a failed request, command or health check, the copy, move or put-back of one part that
  fails, a package manager stopped halfway, a crash, a power cut); a release that does not come up
  costs none, so a failed copy does meet a rollback. The theorems of section 4 are for any number of mishaps. Three assumptions on timing are
  guards: a check that has asked systemd answers before a download ends (`NoCheckDecides`), systemd starts an
  accepted unit within the grace period (`GraceEnds`), and, with `Overruns = FALSE`, an extraction whose request is gone
  ends before the next update begins.

The type invariants of `LibraryScan`, `DbPool` and the last five modules are not listed with the
runs; they were checked on the same instances, and all of them but that of `ViewCaches` are proved (section 4).

### Fairness

* `ActivitySlot`: weak fairness of `Send` (the thread has left the lock and does not wait
  for anything before it sends) and of the stream's polling. None for tasks or workers.
* `DbPool`: weak fairness of a lifecycle call's own steps, which wait at most for the drain
  deadline. None for closures.
* `StorageActivation`: weak fairness of the retry task, a loop of sleeps that never ends,
  and of the steps of the redetection that holds the lock. Each of them ends by itself: the probe is a
  blocking call and the drains have deadlines. None for notifications, requests or media.
* `IdentityPhase`: weak fairness of the worker, a tokio task whose database calls have timeouts; it
  assumes that hashing a file ends. None for scans, activations or restarts.
* `ThumbnailQueue`: strong fairness of `Send`, because tokio's channel serves waiting senders in order;
  weak fairness of the worker and of the downloads, which have timeouts.
* `ExternalMetadata`: none; `BootsConverge` is about behaviours in which pipelines complete again and again.
* `ViewCaches`: weak fairness of `Expire`: time passes. None for requests or operations.
* `SelfUpdate`: weak fairness of `start_update` (timeout), of script and unit (bounded loops), of the task
  that keeps the guard (a loop of sleeps with a deadline), of the check loop (a timer) and of
  the grace period. None for users, restarts or manual checks.

Deadlock checking is on in every run but `self_update`, where a package that does not come up leaves
the server down for good: the package path has no rollback.

## 4. What is proved

TLAPS proves, for any number of tasks, clients, callers, files, roots and media and any
bounds:

* `SlotAndUpdateProofs`, on the slot: `SlotTypeCorrect`, `MutualExclusion` (`SlotHasOneHolder`),
  `BannerClears` (`NoStuckBanner`), `SlotIsMutex` (`ImplementsMutex`). The module extends `ActivitySlot` and
  `SelfUpdate`, whose archive updates are why a guard can be leaked; the two share no name, and
  the slot's specification is `SlotSpec`. The inductive invariant `IInv` adds
  to them: workers belong to a holder, a pending non-Idle broadcast belongs to a thread that
  still has a holder, only subscribers have queues, and `IdleIsOwed`: while the slot is Idle
  every connected stream ends in Idle (its queue, its lag resynchronisation or its view), or
  some thread still has Idle to send. That last part is what makes `NoStuckBanner` inductive: it
  says why the order of sends cannot hide the final Idle.
* `SlotAndUpdateProofs`, on the self-update. Without any condition: `UpdateTypeCorrect`, `ResultKept`
  (`ResultIsKept`), `HelperOwns` (`HelperOwnsResult`), `RollbackIsComplete` (`RollbackRestores`, part by part that could be copied and put back) and
  `PackageStays`, the half of `NeededIsKept` about the package. With `~Overruns`, "an extraction does not
  outlive its request": `NeededFilesStay` (`NeededIsKept`) and `OneReleaseInstalled` (`InstalledIsWhole`). The condition
  is where the code has its gap: a late extraction unpacks into the next update's directory (see the
  divergences). The invariants, each resting on those before it:
  * `Shape`: the types and the shape of each process at each of its steps (`HelperShape`, `WorkShape`).
  * `Mode`: a script only without a package manager, a unit only with one.
  * `Owned`: from the request to its end a unit has a fresh "starting" or a "running" result. That is what turns away
    checks, boots and a second update, which all look at `update-result` first.
  * `PackageKept`: follows from `Owned` alone, because everybody who would empty `UPDATE_DIR` looks there.
  * `Unhurt`: a script that begins has failed at nothing yet.
  * `BackedUp`: between its backup and its restore the script's `.bak` of every part that it could copy is what
    it found, and outside there are none, which would spoil the next backup.
  * `Private`: the archive path writes no result, so here it is the slot that protects the files. While the
    script has something to move, the slot is leaked or the server has not booted, no check is past its look
    at the slot, and no extraction goes on. The last is what `~Overruns` gives.
  * `Staged`: what has been extracted and is still to be moved is of the release in hand, from the extraction
    through the script's text to the last step of the swap.
  * `Whole`: what a rollback goes back to is whole; as long as no `mv` has failed the parts that the swap has
    passed are new, so the last move ends in one release, and so does a restore of which no copy is missing.
    What it does not say after a failure is `Incomplete`, the exception of `InstalledIsWhole`.

* `DbPoolProofs`: `TypeCorrect` and `GateReopens` (`NoStuckGate`) without any condition.
  `FilesAreExclusive` (`FileIsExclusive`), `SlotsMatchPath` (`OpenMatchesPath`) and `PoolIsService`
  (`ImplementsService`, step by step: a step of the pool is one of `PoolService` or a stutter) under `Orderly`, which is
  "closures end in time and there is one lifecycle caller". Neither half can be dropped: see
  the divergences above. `ExclusiveInv`
  accounts for every connection: a built pool is in the slots or closed, what `close()` took out
  is built, and a running call is on a pool that is open or still being drained;
  from it follows `OneHeld`, that connections are out of one pool at most, on which the refinement rests;
  `MatchInv` says that the slots serve the published path, or the path about to be published.
* `StorageActivationProofs`: `TypeCorrect`, `ScansAreGuarded` (`GenerationGuardsScans`), and
  `ReadyAgrees` (`ReadyIsConsistent`) when there are no repairs of user data, which is
  necessary (see the divergences). `GuardInv` says that no scan has a generation from
  the future, and that a settled scan with the current generation exists only outside the part
  of an activation that moves the pools. `ReadyInv` says that remembered mount ids are of the
  past, so that a later mount is never taken for the activated one; that the status is not Ready
  while pools move; and how far an activation, or the startup, has come as long as its mount is in
  place. `mistaken` is excepted, and has to be (see the divergences).

* `LibraryScanProofs`: `TypeCorrect` without any condition. `CompleteDiscovery` (`CompleteIsListing`),
  `SkipLeavesNothing` (`SkipIsSound`) and `RowsAreKept` (`RowsLostOnlyByReconcile`) as long as no two scans
  overlap (`OneScan`). `SlotKeepsScansApart` shows that populators alone, and the watcher alone, never
  do, whatever edits run beside them; the two together can, and the properties then fail (see the divergences), so the condition
  is where the code has its gap and not a convenience. `ScanInv` adds: a populator under way holds the slot; tokens of
  rows and runs are below `nextToken`; between begin and finalize discovery is not Complete and the
  rows with the run's token are the listed files already written, unless `stirred`; and a fingerprint that a walk
  may skip on (`CleanIsTrusted`) is still the stored one, with every row identified and enriched, unless `torn`. Edits run
  beside everything in these theorems, and the exceptions are exactly the torn states.
* `IdentityPhaseProofs`: `TypeCorrect`, `SettledIsOwn` (`CompleteIsOwnHash`), and the action properties
  `StaleSettlesNothing` (`StaleWorkerSettlesNothing`) and `OnlyDiscoveryAddsRows`
  (`MembershipIsDiscovery`). `HashInv` says, beside the types and the property itself: no generation is ahead (`Behind`);
  unless `mixed`, a request that the open library has not overtaken, and a scan between a comparison and its
  write, is about that library (`RequestsMeetOwn`) and carries hashes of its own storage only (`StoredIsOwn`);
  and `OvertakenFindsNothing`: a worker that is about to write finds no Running row in a library
  that was opened over it, nor in the one that is about to be. That is the recovery on open at work: the worker's
  comparison and its write are two steps with a whole activation between them, and only the demoted
  rows make that gap harmless. The scan has no such recovery, which is why `mixed` is about scans.
* `ThumbnailQueueProofs`: `TypeCorrect`, `QueueIsDurable` (`NothingForgotten`), with: a download that
  saved its file finds it there when its hook runs, and `ClaimsAreExact` (`ClaimIsExact`), whose
  invariant `ClaimInv` names the places a key can be (submitter, channel, hand, permit) and says that a
  pending key is in one of them and in one only. The specification counts them; the proof shows
  that the two forms agree, since counting is what the provers do not do.
* `ExternalMetadataProofs`: `TypeCorrect`, `HolderWorksAlone` (`SingleFlight`), `StampIsTrusted` (`StampIsRows`,
  inductive with the types), and `FreshIsShown` (`ShownIsFresh`). The last needs `NothingIsAhead`: rows, prepared
  imports and late imports are never of a later file or build than the current ones, so that a
  new file or build cannot turn old rows into fresh ones; `ReaderHoldsSlot`: who has read the tables holds the
  slot until they are written; and `ShownOrDue`: unless `lost`, fresh rows are shown, or the task that committed them is
  about to read them, or an enrichment has read just them.
* `ViewCachesProofs`: `LocksMakeNoCycle` (`NoLockCycle`), `FilledOnce` (`FilledOncePerWindow`) and
  `InvalidatedStaysOut` (`InvalidationHolds`), in three layers. `LockInv`: who fills a view holds its lock, a home page past
  its look at the snapshot holds the snapshot's, and a view whose lock is held is empty. `SourceInv`, about the
  operations: every script is `Orderly` (what changes favorites or recents is followed by the
  invalidation of that view, and only then by the snapshot's), hence what was written is announced for
  its view or still to be (`WrittenIsPending`), and the snapshot's announcements never run ahead of the views'
  (`ViewsComeFirst`). `Fresh`: what the views hold, what a filler is about to store and what a home page has
  read is no older than what was announced. The order of the scripts is essential: a home page may
  take a stale view, and is only safe because that view was emptied first.
  The run has one operation at a time; the theorem is for any number at once.

The assumptions are the named `ASSUME`s of the modules (disjoint sets, positive
capacities, a `None` that is not a value), which TLC evaluates on every run.

Only model-checked: liveness (`IdleIsShown`, `LifecycleEnds`, `Recovers`, `IdentityEnds`, `ClaimsReturn`,
`BootsConverge`, `ResponseConverges`, `SlotReturns`, `OfferConverges`; fairness is out of this
prover's reach), and the type invariant of `ViewCaches`, whose bound on versions would need a count of the
writes left in a script; what its proofs need of the types is part of `LockInv`, `SourceInv` and `Fresh`.

## 5. Not modelled

What a mutation does behind the storage gate (other than user data repair), the standalone
mode's liveness check, what starts after `Ready` (backup copy, preferences, pipeline and
watcher restart), the ROM watcher's event queue, the import of thumbnail manifests and the bulk
thumbnail update, authentication, settings, the SQL inside the closures, the values enrichment computes, and the
query side of library.db. `PROJECT.json` gives the reason for each component.

The models stand for a small share of the repository's lines, and that share cannot become large.
Most of the lines are Leptos pages and components, name, tag and hash parsers over data that TLC
cannot enumerate usefully (the repository tests them with examples), tables of systems and
translations, the offline catalog tool, SQL text and row mapping, and unit tests inside the
source files. What has state that several actors change is the subject of the modules above.

## 6. Plan

Done, in this order: activity slot with its mutex, library scan, database pool, storage
activation, identity phase, thumbnail queue, external metadata, view caches, self-update; then the proofs
of all of them. Next, most important first:

1. `StorageActivation` with what starts after `Ready`: the pipeline's claim of the slot, the
   watcher restart, and a request dropped between.
2. ROM watcher event queue: events dropped while an activity runs, beside `LibraryScan`.
3. Enrichment's other inputs (manifests, user overrides) as state; those of the external metadata are in
   `ExternalMetadata`. Authentication: sessions and the rate limiters at their limits.
