------------------------- MODULE StorageActivation -------------------------
(***************************************************************************)
(* Choosing and activating the storage (redetect_storage and its callers   *)
(* in replay-control-app/src/api/mod.rs): replay.cfg selects a mount       *)
(* point, media come and go under it, and an activation moves the library  *)
(* pool, the user data pool and the storage location over one after the    *)
(* other while ROM scans and web requests go on.  The start of the process *)
(* (AppState::new) opens the same databases before it serves anything; it  *)
(* is modelled as a redetection that holds the lock from the beginning.    *)
(*                                                                         *)
(* A root stands for a storage kind and its mount point, a volume for a    *)
(* medium with its storage id.  library.db is kept per storage id on the   *)
(* host; user_data.db is a file below the root.  The scan of a system is   *)
(* abstracted to what it reads and where its write lands (LibraryScan has  *)
(* the rest), reopening a pool to its success or failure (DbPool).         *)
(***************************************************************************)
EXTENDS Naturals, FiniteSets

CONSTANTS Roots,      \* mount points that replay.cfg can select
          Volumes,    \* removable media and shares
          Stub,       \* what is below a root when nothing is mounted there
          Watcher,    \* the startup and the background tasks that redetect
          Requests,   \* web requests that change something on the storage
          Repairs,    \* those that repair or restore user data
          Scans,      \* ROM scans
          Drops,      \* whether a client may go away during its request
          MaxMoves,   \* bound on mounts, unmounts and edits of replay.cfg
          MaxFaults,  \* bound on failures
          None

ASSUME StorageAssumption ==
    /\ Stub \notin Volumes
    /\ Watcher \notin Requests
    /\ Repairs \subseteq Requests
    /\ Drops \in BOOLEAN
    /\ MaxMoves \in Nat
    /\ MaxFaults \in Nat
    /\ None \notin Roots \cup Volumes \cup {Stub, Watcher} \cup Requests \cup Nat

VARIABLES mount,        \* mount[r]: the volume mounted at r and the mount's id
          configured,   \* the root that replay.cfg names, None if unreadable
          bad,          \* volumes whose user_data.db has an invalid header
          moves, faults,
          event,        \* a mount or config notification waits to be handled
          known,        \* replay_config: the last one that could be read
          status,       \* storage_status
          storage,      \* storage: the active root
          signature,    \* active_mount_signature
          generation,   \* storage_generation
          lib,          \* volume whose library.db the pool has open, or None
          user,         \* root and volume of the user data pool
          userCorrupt,  \* its corruption flag
          redetect,     \* the redetection that holds storage_redetect_lock
          request,      \* request[q]: where q is
          scan,         \* scan[s]: what s has captured
          mistaken      \* history: the startup sampled another mount than the
                        \* one whose library it opened, or none

env == <<mount, configured, bad, moves, event>>
active == <<known, storage, signature, mistaken>>
pools == <<lib, user, userCorrupt>>
vars == <<env, faults, active, status, generation, pools, redetect, request, scan>>

Places == Volumes \cup {Stub}

VolumeAt(r) == IF mount[r] = None THEN Stub ELSE mount[r].volume

\* mount_instance_signature
MountId(r) == IF mount[r] = None THEN None ELSE mount[r].id

Redetections == [pc : {"idle", "probe", "prepare", "library", "userData", "user", "commit",
                       "bootLibrary", "bootUser", "bootSign"},
                 by : Requests \cup {Watcher, None},
                 root : Roots \cup {None},
                 signature : Nat \cup {None},
                 volume : Places \cup {None}]

ScanStates == [pc : {"idle", "walk", "walked", "write"},
               root : Roots \cup {None},
               generation : Nat,
               volume : Places \cup {None},
               lib : Places \cup {None},   \* the library it started with
               settled : BOOLEAN]          \* it started outside an activation

TypeOK ==
    /\ mount \in [Roots -> [volume : Volumes, id : Nat] \cup {None}]
    /\ configured \in Roots \cup {None}
    /\ bad \subseteq Volumes
    /\ moves \in 0 .. MaxMoves
    /\ faults \in 0 .. MaxFaults
    /\ event \in BOOLEAN
    /\ known \in Roots \cup {None}
    /\ status \in {"starting", "ready", "misconfigured", "activating", "error",
                   "configUnavailable"}
    /\ storage \in Roots \cup {None}
    /\ signature \in Nat \cup {None}
    /\ generation \in Nat
    /\ lib \in Places \cup {None}
    /\ user \in [root : Roots \cup {None}, volume : Places \cup {None}]
    /\ userCorrupt \in BOOLEAN
    /\ redetect \in Redetections
    /\ redetect.pc # "idle" => redetect.by # None /\ redetect.root # None
    /\ request \in [Requests -> {"idle", "redetect", "gate", "reset"}]
    /\ scan \in [Scans -> ScanStates]
    /\ \A s \in Scans : scan[s].pc # "idle" => scan[s].root # None
    /\ mistaken \in BOOLEAN

NoRedetect == [pc |-> "idle", by |-> None, root |-> None, signature |-> None,
               volume |-> None]

NoScan == [pc |-> "idle", root |-> None, generation |-> 0, volume |-> None, lib |-> None,
           settled |-> FALSE]

NoUser == [root |-> None, volume |-> None]

\* AppState::new finds its storage mounted and goes on to open the databases,
\* or it starts without one, with deferred pools that know no path yet.
Mounted(c) == c # None /\ mount[c] # None

StartRedetect(c) ==
    IF Mounted(c) THEN [NoRedetect EXCEPT !.pc = "bootLibrary", !.by = Watcher, !.root = c]
                  ELSE NoRedetect

StartStatus(c) == IF Mounted(c) THEN "starting"
                  ELSE IF c = None THEN "configUnavailable" ELSE "misconfigured"

Init ==
    /\ mount \in [Roots -> [volume : Volumes, id : {0}] \cup {None}]
    /\ \A r, s \in Roots : mount[r] # None /\ mount[s] # None /\ r # s
                                => mount[r].volume # mount[s].volume
    /\ configured \in Roots \cup {None}
    /\ bad \in SUBSET Volumes
    /\ moves = 0 /\ faults = 0 /\ event = FALSE
    /\ known = configured
    /\ storage = None /\ signature = None /\ mistaken = FALSE
    /\ lib = None /\ user = NoUser /\ userCorrupt = FALSE
    /\ generation = 0
    /\ status = StartStatus(configured)
    /\ redetect = StartRedetect(configured)
    /\ request = [q \in Requests |-> "idle"]
    /\ scan = [s \in Scans |-> NoScan]

-----------------------------------------------------------------------------
(* The outside world.                                                      *)

Move == moves < MaxMoves /\ moves' = moves + 1 /\ event' = TRUE

\* The kernel gives every mount an id that was not used before.
Mount(r, v) ==
    /\ mount[r] = None
    /\ \A s \in Roots : VolumeAt(s) # v
    /\ Move
    /\ mount' = [mount EXCEPT ![r] = [volume |-> v, id |-> moves']]
    /\ UNCHANGED <<configured, bad, faults, active, status, generation, pools, redetect,
                   request, scan>>

Unmount(r) ==
    /\ mount[r] # None
    /\ Move
    /\ mount' = [mount EXCEPT ![r] = None]
    /\ UNCHANGED <<configured, bad, faults, active, status, generation, pools, redetect,
                   request, scan>>

\* RePlayOS rewrites replay.cfg, or leaves it unreadable.
EditConfig(r) ==
    /\ configured # r
    /\ Move
    /\ configured' = r
    /\ UNCHANGED <<mount, bad, faults, active, status, generation, pools, redetect,
                   request, scan>>

Fault == faults < MaxFaults /\ faults' = faults + 1

\* A query on user data meets SQLITE_CORRUPT and flags the pool.
FlagCorrupt ==
    /\ user.volume # None /\ ~userCorrupt
    /\ Fault
    /\ userCorrupt' = TRUE
    /\ UNCHANGED <<env, active, status, generation, lib, user, redetect, request, scan>>

-----------------------------------------------------------------------------
(* reload_config_and_redetect_storage, under storage_redetect_lock.        *)

\* The redetection ends and the lock is free; a request goes on to its gate.
Finish(w) ==
    /\ redetect' = NoRedetect
    /\ request' = [q \in Requests |-> IF q = w THEN "gate" ELSE request[q]]

\* cancel_storage_scans_if_ready
Cancel == generation' = IF status \in {"ready", "activating"} THEN generation + 1
                                                              ELSE generation

\* Variant: a replacement at the same path goes unnoticed.
ActivationRequiredByPath(r) == storage # r \/ status # "ready"

\* storage_activation_required
ActivationRequired(r) ==
    \/ storage # r
    \/ status # "ready"
    \/ signature # None /\ signature # mount[r].id

\* Reload the config, look at the selected mount, and decide.
Redetect(w) ==
    /\ redetect.pc = "idle"
    /\ known' = IF configured = None THEN known ELSE configured
    /\ \/ /\ known' = None
          /\ Finish(w)
          /\ UNCHANGED <<status, generation>>
       \/ /\ known' # None /\ mount[known'] = None
          /\ status' = "misconfigured"
          /\ Cancel
          /\ Finish(w)
       \/ /\ known' # None /\ mount[known'] # None
          /\ ~ActivationRequired(known')
          /\ Finish(w)
          /\ UNCHANGED <<status, generation>>
       \/ /\ known' # None /\ mount[known'] # None
          /\ ActivationRequired(known')
          /\ redetect' = [NoRedetect EXCEPT !.pc = "probe", !.by = w, !.root = known',
                                            !.signature = mount[known'].id]
          /\ request' = [q \in Requests |-> IF q = w THEN "redetect" ELSE request[q]]
          /\ UNCHANGED <<status, generation>>
    /\ UNCHANGED <<mount, configured, bad, moves, faults, storage, signature, mistaken, pools,
                   scan>>

\* The mountinfo and replay.cfg watchers wake up.
Notified ==
    /\ event
    /\ event' = FALSE
    /\ Redetect(Watcher)

\* The 10-second retry: storage_check_due is never true while Activating; a
\* healthy storage is looked at on every sixth tick.
Retry ==
    /\ status # "activating"
    /\ Redetect(Watcher)
    /\ UNCHANGED event

\* require_configured_storage_ready_for_mutation takes the lock.
Ask(q) ==
    /\ request[q] = "idle"
    /\ Redetect(q)
    /\ UNCHANGED event

RedetectGoto(pc) == redetect' = [redetect EXCEPT !.pc = pc]

\* A step of the activation fails: the medium does, or it is not there.
Fails == Fault \/ (mount[redetect.root] = None /\ UNCHANGED faults)

Abort ==
    /\ Fails
    /\ status' = "error"
    /\ Finish(redetect.by)

\* probe_storage_ready says NotReady.
ProbeFails ==
    /\ redetect.pc = "probe"
    /\ Fails
    /\ status' = "misconfigured"
    /\ Cancel
    /\ Finish(redetect.by)
    /\ UNCHANGED <<env, active, pools, scan>>

\* Variant: the activation does not cancel the scans of the old storage.
ProbeSucceedsQuietly ==
    /\ redetect.pc = "probe"
    /\ mount[redetect.root] # None
    /\ status' = "activating"
    /\ RedetectGoto("prepare")
    /\ UNCHANGED <<env, faults, active, generation, pools, request, scan>>

\* The mount is readable: cancel scans and announce the activation.
ProbeSucceeds ==
    /\ redetect.pc = "probe"
    /\ mount[redetect.root] # None
    /\ generation' = generation + 1
    /\ status' = "activating"
    /\ RedetectGoto("prepare")
    /\ UNCHANGED <<env, faults, active, pools, request, scan>>

\* prepare_storage_dbs reads the storage id of what is below the root now, and
\* the library pool starts to close; both can fail before that.
Prepare ==
    /\ redetect.pc = "prepare"
    /\ \/ /\ redetect' = [redetect EXCEPT !.pc = "library",
                                          !.volume = VolumeAt(redetect.root)]
          /\ lib' = None
          /\ UNCHANGED <<status, faults, request>>
       \/ Abort /\ UNCHANGED lib
    /\ UNCHANGED <<env, active, generation, user, userCorrupt, scan>>

\* library_writer.reopen
ReopenLibrary ==
    /\ redetect.pc = "library"
    /\ \/ /\ lib' = redetect.volume
          /\ RedetectGoto("userData")
          /\ UNCHANGED <<status, faults, request>>
       \/ Abort /\ UNCHANGED lib
    /\ UNCHANGED <<env, active, generation, user, userCorrupt, scan>>

\* reopen_user_data_or_mark_corrupt: an invalid header only flags the pool,
\* which keeps the connections and the path it had.
OpenUserData ==
    /\ redetect.pc = "userData"
    /\ IF VolumeAt(redetect.root) \in bad
       THEN /\ userCorrupt' = TRUE
            /\ RedetectGoto("commit")
            /\ UNCHANGED user
       ELSE /\ user' = [user EXCEPT !.volume = None]
            /\ RedetectGoto("user")
            /\ UNCHANGED userCorrupt
    /\ UNCHANGED <<env, faults, active, status, generation, lib, request, scan>>

\* user_data_writer.reopen: the path is published with the new pools.
ReopenUserData ==
    /\ redetect.pc = "user"
    /\ \/ /\ user' = [root |-> redetect.root, volume |-> VolumeAt(redetect.root)]
          /\ userCorrupt' = FALSE
          /\ RedetectGoto("commit")
          /\ UNCHANGED <<status, faults, request>>
       \/ Abort /\ UNCHANGED <<user, userCorrupt>>
    /\ UNCHANGED <<env, active, generation, lib, scan>>

\* Variant: the mount instance is looked up again at the end.
CommitResampled ==
    /\ redetect.pc = "commit"
    /\ storage' = redetect.root
    /\ signature' = MountId(redetect.root)
    /\ mistaken' = FALSE
    /\ status' = "ready"
    /\ Finish(redetect.by)
    /\ UNCHANGED <<env, faults, known, generation, pools, scan>>

\* The storage location, the mount instance seen at the start, and Ready; the
\* pipeline that is started next appears as further scans.
Commit ==
    /\ redetect.pc = "commit"
    /\ storage' = redetect.root
    /\ signature' = redetect.signature
    /\ mistaken' = FALSE
    /\ status' = "ready"
    /\ Finish(redetect.by)
    /\ UNCHANGED <<env, faults, known, generation, pools, scan>>

\* AppState::new opens the library of the medium that is below the root now;
\* the mount it belongs to is remembered as history only.
BootLibrary ==
    /\ redetect.pc = "bootLibrary"
    /\ lib' = VolumeAt(redetect.root)
    /\ redetect' = [redetect EXCEPT !.pc = "bootUser", !.signature = MountId(redetect.root)]
    /\ UNCHANGED <<env, faults, active, status, generation, user, userCorrupt, request, scan>>

\* It opens user data, or starts it in the corrupt state without opening it.
BootUserData ==
    /\ redetect.pc = "bootUser"
    /\ userCorrupt' = (VolumeAt(redetect.root) \in bad)
    /\ user' = [root |-> redetect.root,
                volume |-> IF userCorrupt' THEN None ELSE VolumeAt(redetect.root)]
    /\ RedetectGoto("bootSign")
    /\ UNCHANGED <<env, faults, active, status, generation, lib, request, scan>>

\* It samples the mount instance last, and the server goes up.
BootSign ==
    /\ redetect.pc = "bootSign"
    /\ storage' = redetect.root
    /\ signature' = MountId(redetect.root)
    /\ mistaken' = (signature' = None \/ signature' # redetect.signature)
    /\ status' = "ready"
    /\ Finish(redetect.by)
    /\ UNCHANGED <<env, faults, known, generation, pools, scan>>

\* A database does not open: the process exits and is started again.
BootFails ==
    /\ redetect.pc \in {"bootLibrary", "bootUser"}
    /\ Fails
    /\ known' = configured
    /\ lib' = None /\ user' = NoUser /\ userCorrupt' = FALSE
    /\ status' = StartStatus(configured)
    /\ redetect' = StartRedetect(configured)
    /\ UNCHANGED <<env, storage, signature, mistaken, generation, request, scan>>

Boot == BootLibrary \/ BootUserData \/ BootSign \/ BootFails

RedetectStep ==
    \/ ProbeFails \/ ProbeSucceeds \/ Prepare \/ ReopenLibrary \/ OpenUserData
    \/ ReopenUserData \/ Commit \/ Boot

\* The client disconnects and the server drops the request's future where it
\* awaits the probe or the drain of a pool.
Dropped(q) ==
    /\ Drops
    /\ redetect.by = q
    /\ redetect.pc \in {"probe", "library", "user"}
    /\ Fault
    /\ redetect' = NoRedetect
    /\ request' = [request EXCEPT ![q] = "idle"]
    /\ UNCHANGED <<env, active, status, generation, pools, scan>>

-----------------------------------------------------------------------------
(* Requests behind their gate, and scans.                                  *)

\* A request goes on only if the status is Ready; a repair also wants the
\* corruption flag.  What the other mutations do is not modelled here.
Gate(q) ==
    /\ request[q] = "gate"
    /\ request' = [request EXCEPT ![q] = IF q \in Repairs /\ status = "ready" /\ userCorrupt
                                         THEN "reset" ELSE "idle"]
    /\ UNCHANGED <<env, faults, active, status, generation, pools, redetect, scan>>

\* reset_to_empty and replace_with_file work on the pool's own path.
Reset(q) ==
    /\ request[q] = "reset"
    /\ request' = [request EXCEPT ![q] = "idle"]
    /\ IF user.root = None
       THEN UNCHANGED <<bad, user, userCorrupt>>
       ELSE /\ bad' = bad \ {VolumeAt(user.root)}
            /\ user' = [user EXCEPT !.volume = VolumeAt(user.root)]
            /\ userCorrupt' = FALSE
    /\ UNCHANGED <<mount, configured, moves, event, faults, active, status, generation, lib,
                   redetect, scan>>

\* Variant: a scan starts although no storage was ever active.
CaptureUnguarded(s) ==
    /\ scan[s].pc = "idle"
    /\ scan' = [scan EXCEPT ![s] = [pc |-> "walk", root |-> storage,
                                    generation |-> generation, volume |-> None, lib |-> lib,
                                    settled |-> redetect.pc \in {"idle", "probe"}]]
    /\ UNCHANGED <<env, faults, active, status, generation, pools, redetect, request>>

\* A scan captures the storage and the generation.
Capture(s) ==
    /\ scan[s].pc = "idle"
    /\ storage # None
    /\ scan' = [scan EXCEPT ![s] = [pc |-> "walk", root |-> storage,
                                    generation |-> generation, volume |-> None, lib |-> lib,
                                    settled |-> redetect.pc \in {"idle", "probe"}]]
    /\ UNCHANGED <<env, faults, active, status, generation, pools, redetect, request>>

\* It walks whatever is below its root.
Walk(s) ==
    /\ scan[s].pc = "walk"
    /\ scan' = [scan EXCEPT ![s].pc = "walked", ![s].volume = VolumeAt(scan[s].root)]
    /\ UNCHANGED <<env, faults, active, status, generation, pools, redetect, request>>

\* ensure_storage_generation before the write is handed to the pool.
Check(s) ==
    /\ scan[s].pc = "walked"
    /\ scan' = [scan EXCEPT ![s] = IF scan[s].generation = generation
                                   THEN [@ EXCEPT !.pc = "write"] ELSE NoScan]
    /\ UNCHANGED <<env, faults, active, status, generation, pools, redetect, request>>

\* The write lands in the library that is open, or fails on a closed pool.
Write(s) ==
    /\ scan[s].pc = "write"
    /\ scan' = [scan EXCEPT ![s] = NoScan]
    /\ UNCHANGED <<env, faults, active, status, generation, pools, redetect, request>>

-----------------------------------------------------------------------------
Environment ==
    \/ \E r \in Roots, v \in Volumes : Mount(r, v)
    \/ \E r \in Roots : Unmount(r)
    \/ \E r \in Roots \cup {None} : EditConfig(r)
    \/ FlagCorrupt

Next ==
    \/ Environment
    \/ Notified
    \/ Retry
    \/ RedetectStep
    \/ \E q \in Requests : Ask(q) \/ Dropped(q) \/ Gate(q)
    \/ \E q \in Repairs : Reset(q)
    \/ \E s \in Scans : Capture(s) \/ Walk(s) \/ Check(s) \/ Write(s)

Spec == Init /\ [][Next]_vars

\* The startup runs to its end, the retry task ticks for ever, and a redetection
\* that holds the lock is polled by the task or the request it belongs to.
FairSpec == Spec /\ WF_vars(Retry) /\ WF_vars(RedetectStep)

-----------------------------------------------------------------------------
\* Ready means what the pages and the mutation gate take it for: as long as
\* the mount that was activated is the one in place, the library is that of its
\* medium and user data is on it or refused as corrupt.  The two pools and the
\* location move one after the other, media may change at every point, each
\* step can fail and the request that runs them may be dropped.  Excepted is a
\* process that started while its medium was replaced: it samples the mount
\* after it has opened the databases, and takes the new mount for theirs.
ReadyIsConsistent ==
    status = "ready" /\ redetect.pc \in {"idle", "probe"} =>
        /\ storage # None
        /\ ~mistaken /\ mount[storage] # None /\ mount[storage].id = signature =>
              /\ lib = mount[storage].volume
              /\ userCorrupt \/ user = [root |-> storage, volume |-> mount[storage].volume]

\* A scan that started outside an activation and still has the current
\* generation sees the library it started with: the generation moves before
\* any pool does.
GenerationGuardsScans ==
    \A s \in Scans :
        scan[s].settled /\ scan[s].generation = generation => lib = scan[s].lib

\* Once replay.cfg keeps naming a root and its medium stays, the storage ends
\* up Ready with that medium's library, whatever failed on the way and even if
\* every notification was missed; unless the medium was replaced while the
\* process started, which the retry task can not see.
Recovers ==
    \A r \in Roots :
        <>[](configured = r /\ mount[r] # None /\ ~mistaken) =>
            <>[](status = "ready" /\ storage = r /\ lib = VolumeAt(r))
=============================================================================
