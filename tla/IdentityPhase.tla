--------------------------- MODULE IdentityPhase ---------------------------
(***************************************************************************)
(* The background identity phase of one system                             *)
(* (replay-control-app/src/api/background/identity.rs) over the            *)
(* identity_state column of library.db (library/db/game_library.rs).       *)
(*                                                                         *)
(* A scan writes rows that are Pending unless a stored hash is reused and  *)
(* queues a phase.  Phases take turns (identity_phase), own the activity   *)
(* slot while they work, and claim batches of rows by marking them         *)
(* Running.  Every database step goes to the library that is open at that  *)
(* moment.  A storage activation (redetect_storage) moves the generation,  *)
(* the library and the location one after the other, so scans and workers  *)
(* meet every mixture of them, and each of their comparisons of            *)
(* generations is apart from the write it guards; opening a library        *)
(* demotes its Running rows.                                               *)
(*                                                                         *)
(* File names are numbers, in the order of ORDER BY rom_filename.  Tokens, *)
(* fingerprints and skips of a scan are LibraryScan's subject: here it is  *)
(* the location and generation it captured, what it read, and its chunks   *)
(* and finalize.  A hash is told apart only by the storage whose file it   *)
(* was computed from, and a settled row (CompleteMatched or                *)
(* CompleteUnmatched) is that storage; the hash that an unsettled row may  *)
(* still have is never read.                                               *)
(***************************************************************************)
EXTENDS Integers, Sequences, FiniteSets

CONSTANTS Files,       \* ROM file names
          Unhashable,  \* files whose hash always fails (a cue without its bin)
          Batch,       \* IDENTITY_BATCH_SIZE
          Chunk,       \* DISCOVERY_SAVE_CHUNK_ROWS
          Storages,    \* storages that can be active
          Boot,        \* the storage of the first start
          Leftover,    \* states of the rows that earlier processes left
          Faults,      \* whether database calls and file reads may fail
          Watching,    \* whether the ROM watcher scans without the slot
          MaxGen,      \* bound: activations
          MaxWaiting,  \* bound: phases that wait for identity_phase
          None         \* absence of a value

IdentityStates == {"absent", "Pending", "Running", "Failed"} \cup Storages

Phases == [roms : SUBSET Files, force : BOOLEAN, gen : 0..MaxGen, root : Storages]

\* saved: the rows it has written, and the library they went to
Scans == [pc     : {"begun", "ready", "chunk", "finalize"},
          roms   : SUBSET Files,
          stored : [Files -> Storages \cup {None}],
          saved  : SUBSET (Storages \X Files),
          force  : BOOLEAN,
          owner  : {"foreground", "watcher"},
          gen    : 0..MaxGen,
          root   : Storages]

ASSUME IdentityAssumption ==
    /\ Files \subseteq Int
    /\ IsFiniteSet(Files)
    /\ Unhashable \subseteq Files
    /\ Batch \in Nat \ {0}
    /\ Chunk \in Nat \ {0}
    /\ Faults \in BOOLEAN
    /\ Watching \in BOOLEAN
    /\ MaxGen \in Nat
    /\ MaxWaiting \in Nat \ {0}
    /\ Boot \in Storages
    /\ Leftover \subseteq {"absent", "Pending", "Running", "Failed"}
    /\ Storages \cap {"absent", "Pending", "Running", "Failed"} = {}
    /\ None \notin Storages \cup Phases \cup Scans

VARIABLES rows,      \* rows[s][f]: identity_state of f's row in s's library
          lib,       \* the storage whose library the pool has open, or None
          loc,       \* AppState.storage, the location that scans capture
          gen,       \* storage_generation
          act,       \* the last storage activation: to the storage replay.cfg names
          since,     \* history: the generation in which the library was opened
          mixed,     \* history: see Mixes
          slot,      \* the activity slot
          scan,      \* the scan under way
          waiting,   \* phases queued on identity_phase
          phase,     \* the phase that holds identity_phase, or None
          pc,        \* where its worker is
          claimed,   \* the worker's batch
          attempted, \* files it has tried in this run
          slices,    \* force_rehash: candidates not yet claimed
          hashed     \* files of the batch whose hash succeeded

\* The first files in the order of their names, at most n of them.
First(S, n) == {f \in S : Cardinality({g \in S : g < f}) < n}

storageVars == <<lib, loc, gen, act, since, mixed>>
jobVars == <<claimed, attempted, slices, hashed>>
vars == <<rows, lib, loc, gen, act, since, mixed, slot, scan, waiting, phase, pc,
          claimed, attempted, slices, hashed>>

TypeOK ==
    /\ rows \in [Storages -> [Files -> IdentityStates]]
    /\ lib \in Storages \cup {None}
    /\ loc \in Storages
    /\ gen \in 0..MaxGen
    /\ act \in [pc : {"idle", "open", "close", "attach", "locate"}, to : Storages]
    /\ since \in 0..MaxGen
    /\ mixed \in BOOLEAN
    /\ slot \in {"Idle", "Identity", "Foreground"}
    /\ scan \in Scans \cup {None}
    /\ waiting \in Seq(Phases)
    /\ phase \in Phases \cup {None}
    /\ (phase = None) <=> (pc = "none")
    /\ pc \in {"none", "slot", "window", "claim", "giveback", "hash", "update",
               "abandon", "finish"}
    /\ claimed \in SUBSET Files
    /\ attempted \in SUBSET Files
    /\ slices \in SUBSET Files
    /\ hashed \in SUBSET Files

\* recover_running_states: what LibraryDb::open does to the rows.
Recovered(states) == [f \in Files |-> IF states[f] = "Running" THEN "Pending" ELSE states[f]]

\* Earlier processes left rows in the libraries; the one of Boot is opened.
Init ==
    /\ \E left \in [Storages -> [Files -> Leftover]] :
          rows = [left EXCEPT ![Boot] = Recovered(left[Boot])]
    /\ lib = Boot
    /\ loc = Boot
    /\ gen = 0
    /\ act = [pc |-> "idle", to |-> Boot]
    /\ since = 0
    /\ mixed = FALSE
    /\ slot = "Idle"
    /\ scan = None
    /\ waiting = <<>>
    /\ phase = None
    /\ pc = "none"
    /\ claimed = {} /\ attempted = {} /\ slices = {} /\ hashed = {}

-----------------------------------------------------------------------------
(* The environment: storages are swapped, the process dies.                *)

\* Variant: the library is opened as it was left.
OpenUnrecovered(s) == UNCHANGED rows

OpenRecovered(s) == rows' = [rows EXCEPT ![s] = Recovered(@)]

\* A storage activation: the generation moves first.
ActivateBump(s) ==
    /\ act.pc = "idle"
    /\ gen < MaxGen
    /\ gen' = gen + 1
    /\ act' = [pc |-> "open", to |-> s]
    /\ UNCHANGED <<rows, lib, loc, since, mixed, slot, scan, waiting, phase, pc, jobVars>>

\* reopen runs the opener on the new file while the old pool still serves.
ActivateOpen ==
    /\ act.pc = "open"
    /\ OpenRecovered(act.to)
    /\ act' = [act EXCEPT !.pc = "close"]
    /\ UNCHANGED <<lib, loc, gen, since, mixed, slot, scan, waiting, phase, pc, jobVars>>

ActivateClose ==
    /\ act.pc = "close"
    /\ lib' = None
    /\ act' = [act EXCEPT !.pc = "attach"]
    /\ UNCHANGED <<rows, loc, gen, since, mixed, slot, scan, waiting, phase, pc, jobVars>>

\* The library of storage s comes under a request of another storage whose
\* comparisons of generations do not tell: it has the generation of s, or it
\* is a scan between a comparison and the write behind it.
Mixes(s) ==
    \/ phase # None /\ phase.gen = gen /\ phase.root # s
    \/ \E i \in DOMAIN waiting : waiting[i].gen = gen /\ waiting[i].root # s
    \/ /\ scan # None
       /\ scan.gen = gen \/ scan.pc \in {"chunk", "finalize"}
       /\ scan.root # s

ActivateAttach ==
    /\ act.pc = "attach"
    /\ lib' = act.to
    /\ since' = gen
    /\ mixed' = (mixed \/ Mixes(act.to))
    /\ act' = [act EXCEPT !.pc = "locate"]
    /\ UNCHANGED <<rows, loc, gen, slot, scan, waiting, phase, pc, jobVars>>

\* The location moves when user data has been reopened too.
ActivateLocate ==
    /\ act.pc = "locate"
    /\ loc' = act.to
    /\ act' = [act EXCEPT !.pc = "idle"]
    /\ UNCHANGED <<rows, lib, gen, since, mixed, slot, scan, waiting, phase, pc, jobVars>>

\* The preparation or the opener, the new pool, or user data may fail, and what
\* was done before stays.
ActivateFails ==
    /\ act.pc \in {"open", "attach", "locate"}
    /\ Faults
    /\ act' = [act EXCEPT !.pc = "idle"]
    /\ UNCHANGED <<rows, lib, loc, gen, since, mixed, slot, scan, waiting, phase, pc, jobVars>>

Activate ==
    \/ \E s \in Storages : ActivateBump(s)
    \/ ActivateOpen \/ ActivateClose \/ ActivateAttach \/ ActivateLocate \/ ActivateFails

\* The process ends at any point and starts again, on the storage that replay.cfg
\* names.
Restart ==
    /\ OpenRecovered(act.to)
    /\ lib' = act.to
    /\ loc' = act.to
    /\ since' = gen
    /\ act' = [act EXCEPT !.pc = "idle"]
    /\ slot' = "Idle"
    /\ scan' = None
    /\ waiting' = <<>>
    /\ phase' = None
    /\ pc' = "none"
    /\ claimed' = {} /\ attempted' = {} /\ slices' = {} /\ hashed' = {}
    /\ UNCHANGED <<gen, mixed>>

-----------------------------------------------------------------------------
(* Scans.                                                                  *)

NoHashes == [f \in Files |-> None]

\* A populate holds the slot; the ROM watcher only looks whether it is Idle.
\* The location and storage_generation are read one after the other, without a
\* lock on both: on two sides of an activation that gives what both reads give
\* between its attaching of the library and its locating.
ScanStart(owner, force) ==
    /\ scan = None
    /\ slot = "Idle"
    /\ Len(waiting) < MaxWaiting
    /\ owner = "watcher" => Watching /\ ~force
    /\ scan' = [pc |-> "begun", roms |-> {}, stored |-> NoHashes, saved |-> {}, force |-> force,
                owner |-> owner, gen |-> gen, root |-> loc]
    /\ mixed' = (mixed \/ lib \notin {loc, None})
    /\ slot' = IF owner = "foreground" THEN "Foreground" ELSE slot
    /\ UNCHANGED <<rows, lib, loc, gen, act, since, waiting, phase, pc, jobVars>>

\* load_stored_hashes: hashes of settled rows only, none when forced or when
\* the library can not be read.
StoredHashes(force) ==
    IF force \/ lib = None THEN NoHashes
    ELSE [f \in Files |-> IF rows[lib][f] \in Storages THEN rows[lib][f] ELSE None]

\* The hashes come from the open library, the listing from the location, whose
\* files come and go.
ScanRead(found) ==
    /\ scan # None
    /\ scan.pc = "begun"
    /\ scan' = [scan EXCEPT !.pc = "ready", !.roms = found, !.stored = StoredHashes(scan.force)]
    /\ UNCHANGED <<rows, storageVars, slot, waiting, phase, pc, jobVars>>

\* The state that build_game_entry gives a row.
EntryState(f) == IF scan.stored[f] # None THEN scan.stored[f] ELSE "Pending"

Unsaved == {f \in scan.roms : \A s \in Storages : <<s, f>> \notin scan.saved}

\* ensure_current, ahead of a chunk or of the finalize.  (The begin ahead of
\* them, which has a comparison too, writes no row.)
ScanCheck ==
    /\ scan # None
    /\ scan.pc = "ready"
    /\ scan.gen = gen
    /\ scan' = [scan EXCEPT !.pc = IF Unsaved = {} THEN "finalize" ELSE "chunk"]
    /\ UNCHANGED <<rows, storageVars, slot, waiting, phase, pc, jobVars>>

NextChunk == First(Unsaved, Chunk)

\* A chunk of the listing is written over the rows there are.
SaveChunk ==
    /\ lib # None
    /\ rows' = [rows EXCEPT ![lib] = [f \in Files |-> IF f \in NextChunk THEN EntryState(f)
                                                                         ELSE @[f]]]

ScanChunk ==
    /\ scan # None
    /\ scan.pc = "chunk"
    /\ SaveChunk
    /\ scan' = [scan EXCEPT !.pc = "ready", !.saved = @ \cup ({lib} \X NextChunk)]
    /\ UNCHANGED <<storageVars, slot, waiting, phase, pc, jobVars>>

\* Rows of the library that do not carry the scan's token go.
Prune ==
    /\ lib # None
    /\ rows' = [rows EXCEPT ![lib] = [f \in Files |-> IF <<lib, f>> \in scan.saved
                                                      THEN @[f] ELSE "absent"]]

ScanEnds ==
    /\ scan' = None
    /\ slot' = IF scan.owner = "foreground" THEN "Idle" ELSE slot

\* The pass ends and the phase is queued behind it.  (Where the generation has
\* moved by then the phase is not queued, which PhaseAbort stands for.)
ScanFinalize ==
    /\ scan # None
    /\ scan.pc = "finalize"
    /\ Prune
    /\ waiting' = IF scan.roms = {} THEN waiting
                  ELSE Append(waiting, [roms |-> scan.roms, force |-> scan.force,
                                        gen |-> scan.gen, root |-> scan.root])
    /\ ScanEnds
    /\ UNCHANGED <<storageVars, phase, pc, jobVars>>

\* StorageChanged, a failed walk or write, or a closed pool: the scan ends.  A
\* write that is reported as failed may still have committed.
ScanFail ==
    /\ scan # None
    /\ Faults \/ lib = None \/ scan.gen # gen
    /\ \/ UNCHANGED rows
       \/ scan.pc = "chunk" /\ SaveChunk
       \/ scan.pc = "finalize" /\ Prune
    /\ ScanEnds
    /\ UNCHANGED <<storageVars, waiting, phase, pc, jobVars>>

Scan ==
    \/ \E found \in SUBSET Files : ScanRead(found)
    \/ ScanCheck
    \/ ScanChunk
    \/ ScanFinalize
    \/ ScanFail

-----------------------------------------------------------------------------
(* spawn_identity_jobs: the phase.                                         *)

Retryable(f) == rows[lib][f] \in {"Pending", "Failed"}

\* identity_work_counts
HasWork(p) ==
    /\ lib # None
    /\ \E f \in Files : IF p.force THEN rows[lib][f] # "absent" ELSE Retryable(f)

\* The worker returns and is joined, the guard drops, the lock is released.
PhaseEnd ==
    /\ slot' = "Idle"
    /\ pc' = "none"
    /\ phase' = None
    /\ claimed' = {} /\ attempted' = {} /\ slices' = {} /\ hashed' = {}

\* A phase gets its turn and counts its work.
PhaseStart ==
    /\ phase = None
    /\ waiting # <<>>
    /\ HasWork(Head(waiting))
    /\ phase' = Head(waiting)
    /\ waiting' = Tail(waiting)
    /\ pc' = "slot"
    /\ UNCHANGED <<scan, rows, storageVars, slot, jobVars>>

\* A read that fails counts as no work.
PhaseSkip ==
    /\ phase = None
    /\ waiting # <<>>
    /\ Faults \/ ~HasWork(Head(waiting))
    /\ waiting' = Tail(waiting)
    /\ UNCHANGED <<scan, rows, storageVars, slot, phase, pc, jobVars>>

PhaseAbort ==
    /\ pc = "slot"
    /\ phase.gen # gen
    /\ pc' = "none"
    /\ phase' = None
    /\ UNCHANGED <<scan, rows, storageVars, slot, waiting, jobVars>>

\* The generation is compared, then the slot is claimed when it is Idle.
PhaseClaim ==
    /\ pc = "slot"
    /\ phase.gen = gen
    /\ slot = "Idle"
    /\ slot' = "Identity"
    /\ pc' = "window"
    /\ slices' = IF phase.force THEN phase.roms ELSE {}
    /\ UNCHANGED <<scan, rows, storageVars, waiting, phase, claimed, attempted, hashed>>

-----------------------------------------------------------------------------
(* run_identity_job: the worker.                                           *)

FirstBatch(S) == First(S, Batch)

Mark(S, st) == [rows EXCEPT ![lib] = [f \in Files |-> IF f \in S THEN st ELSE @[f]]]

\* finish_identity_batch: rows of the batch that are still Running.
Unsettled == {f \in claimed : rows[lib][f] = "Running"}

Finished(st) == \/ lib # None /\ rows' = Mark(Unsettled, st)
                \/ (Faults \/ lib = None) /\ UNCHANGED rows

\* wait_for_identity_window and the comparison behind it.  The phase owns the
\* slot, so no foreground activity can keep the window shut.
JobWindow ==
    /\ pc = "window"
    /\ phase.gen = gen
    /\ pc' = "claim"
    /\ claimed' = {}
    /\ hashed' = {}
    /\ UNCHANGED <<scan, rows, storageVars, slot, waiting, phase, attempted, slices>>

\* The comparison fails, before a claim or after the hashing.
JobOvertaken ==
    /\ pc \in {"window", "hash"}
    /\ phase.gen # gen
    /\ PhaseEnd
    /\ UNCHANGED <<scan, rows, storageVars, waiting>>

\* Variant: the names of the slice are claimed whether or not they have rows.
ClaimableUnchecked ==
    IF phase.force THEN FirstBatch(slices) ELSE FirstBatch({f \in Files : Retryable(f)})

\* claim_identity_filenames over the next slice, claim_identity_batch otherwise.
Claimable ==
    IF phase.force
    THEN {f \in FirstBatch(slices) : rows[lib][f] \notin {"absent", "Running"}}
    ELSE FirstBatch({f \in Files : Retryable(f)})

AfterSlice == IF phase.force THEN slices \ FirstBatch(slices) ELSE slices

\* A write that is reported as failed may still commit (DbError::Timeout leaves
\* its closure running on the only write connection, before any later write).
JobClaimFails ==
    /\ pc = "claim"
    /\ Faults \/ lib = None
    /\ UNCHANGED rows \/ (lib # None /\ rows' = Mark(Claimable, "Running"))
    /\ PhaseEnd
    /\ UNCHANGED <<scan, storageVars, waiting>>

JobClaimNothing ==
    /\ pc = "claim"
    /\ lib # None
    /\ Claimable = {}
    /\ IF phase.force /\ AfterSlice # {}
       THEN pc' = "window" /\ slices' = AfterSlice /\ UNCHANGED <<slot, phase, claimed, attempted, hashed>>
       ELSE PhaseEnd
    /\ UNCHANGED <<scan, rows, storageVars, waiting>>

\* The claim marks the rows Running.
JobClaim ==
    /\ pc = "claim"
    /\ lib # None
    /\ ~(Claimable \subseteq attempted)
    /\ rows' = Mark(Claimable, "Running")
    /\ slices' = AfterSlice
    /\ claimed' = Claimable
    /\ attempted' = attempted \cup Claimable
    /\ pc' = IF Claimable \cap phase.roms = {} THEN "giveback" ELSE "hash"
    /\ UNCHANGED <<scan, storageVars, slot, waiting, phase, hashed>>

\* Variant: no forward-progress guard.
JobStuckUnguarded ==
    /\ pc = "claim"
    /\ lib # None
    /\ Claimable # {}
    /\ rows' = Mark(Claimable, "Running")
    /\ slices' = AfterSlice
    /\ claimed' = Claimable
    /\ pc' = IF Claimable \cap phase.roms = {} THEN "giveback" ELSE "hash"
    /\ UNCHANGED <<scan, storageVars, slot, waiting, phase, attempted, hashed>>

\* The forward-progress guard looks at rows that the claim has marked already:
\* a batch of files that were all attempted ends the job and stays Running.
JobStuck ==
    /\ pc = "claim"
    /\ lib # None
    /\ Claimable # {}
    /\ Claimable \subseteq attempted
    /\ rows' = Mark(Claimable, "Running")
    /\ PhaseEnd
    /\ UNCHANGED <<scan, storageVars, waiting>>

\* No ROM of the job is in the batch: the rows go back.
JobGiveBack ==
    /\ pc = "giveback"
    /\ Finished("Pending")
    /\ pc' = "window"
    /\ UNCHANGED <<scan, storageVars, slot, waiting, phase, jobVars>>

\* hash_roms_for_system on the storage of the phase; files that are gone or can
\* not be read have no hash.  The generation is compared when the hashes are
\* there; the writes behind it are steps of their own.
JobHash ==
    /\ pc = "hash"
    /\ phase.gen = gen
    /\ hashed' \in SUBSET ((claimed \cap phase.roms) \ Unhashable)
    /\ pc' = IF hashed' = {} THEN "finish" ELSE "update"
    /\ UNCHANGED <<scan, rows, storageVars, slot, waiting, phase, claimed, attempted, slices>>

\* Variant: the results are written whatever the state of the row.
SettleUnguarded ==
    lib # None /\ rows' = Mark({f \in hashed : rows[lib][f] # "absent"}, phase.root)

\* update_running_identity_entries: only rows that are still Running.
Settle == lib # None /\ rows' = Mark(hashed \cap Unsettled, phase.root)

JobUpdate ==
    /\ pc = "update"
    /\ Settle
    /\ pc' = "finish"
    /\ hashed' = {}
    /\ UNCHANGED <<scan, storageVars, slot, waiting, phase, claimed, attempted, slices>>

JobUpdateFails ==
    /\ pc = "update"
    /\ Faults \/ lib = None
    /\ Settle \/ UNCHANGED rows
    /\ pc' = "abandon"
    /\ UNCHANGED <<scan, storageVars, slot, waiting, phase, jobVars>>

\* After a failed update the batch is returned and the job ends as Failed.
JobAbandon ==
    /\ pc = "abandon"
    /\ Finished("Pending")
    /\ PhaseEnd
    /\ UNCHANGED <<scan, storageVars, waiting>>

\* Whatever is still Running becomes Failed, and the loop goes on.  (Pending
\* would need hash_cancel, which is set only when the generation has moved,
\* and then the comparison in JobHash has already ended the job.)
JobFinish ==
    /\ pc = "finish"
    /\ Finished("Failed")
    /\ pc' = "window"
    /\ UNCHANGED <<scan, storageVars, slot, waiting, phase, jobVars>>

Worker ==
    \/ JobWindow \/ JobOvertaken \/ JobClaimFails \/ JobClaimNothing \/ JobClaim
    \/ JobStuck \/ JobGiveBack \/ JobHash \/ JobUpdate \/ JobUpdateFails \/ JobAbandon \/ JobFinish

Phase == PhaseStart \/ PhaseSkip \/ PhaseAbort \/ PhaseClaim

Next ==
    \/ Activate
    \/ Restart
    \/ \E owner \in {"foreground", "watcher"}, force \in BOOLEAN : ScanStart(owner, force)
    \/ Scan
    \/ Phase
    \/ Worker

Spec == Init /\ [][Next]_vars

\* The worker is a tokio task that goes on while it can; nothing is asked of
\* scans, activations and restarts.
FairSpec == Spec /\ WF_vars(Worker)

-----------------------------------------------------------------------------
(* Properties.                                                             *)

\* A settled row of a library carries the hash of that storage's own file,
\* although scans and updates go to whatever library is open when they are
\* written.  Excepted is what the generation can not tell (Mixes): a scan that
\* captured its location and generation on two sides of an activation, and one
\* under which the library was replaced between a comparison and its write.
\* The worker has that gap too, and needs no exception.
CompleteIsOwnHash ==
    ~mixed => \A s \in Storages, f \in Files : rows[s][f] \in Storages => rows[s][f] = s

\* "Workers stop before applying stale results": once an activation has opened
\* a library, a worker of an earlier generation settles no row of any library,
\* also when all of the activation falls between its comparison and its write.
\* (Until then it may still settle rows of the library it was started for.)
StaleWorkerSettlesNothing ==
    [][(phase # None /\ phase.gen < since /\ scan = scan') =>
          \A s \in Storages, f \in Files :
             rows'[s][f] \in Storages => rows[s][f] \in Storages]_vars

\* Row membership belongs to discovery: a row appears only with a chunk of a
\* scan that found its file, and goes only when a scan ends that did not save
\* it there; a claim or a late result never brings a row back.
MembershipIsDiscovery ==
    [][\A s \in Storages, f \in Files :
          (rows[s][f] = "absent") # (rows'[s][f] = "absent") =>
             /\ scan # None
             /\ s = lib
             /\ IF rows[s][f] = "absent" THEN f \in Unsaved
                ELSE scan' = None /\ <<s, f>> \notin scan.saved]_vars

\* A phase that has the slot gives it back, also when files can never be
\* hashed, rows are taken from it by scans and its writes fail.
IdentityEnds == (slot = "Identity") ~> (slot # "Identity")
=============================================================================
