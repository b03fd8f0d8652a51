----------------------------- MODULE LibraryScan -----------------------------
(***************************************************************************)
(* Reconciling one system of library.db with its ROM directory             *)
(* (library/scan_pipeline.rs, library/mod.rs, db/game_library.rs).         *)
(*                                                                         *)
(* A scan reads its inputs, walks the directory, and saves what it saw in  *)
(* several transactions: begin (allocate a scan token, mark discovery      *)
(* Running), one upsert per chunk of rows, finalize (delete every row of   *)
(* another token, mark Complete, store the fingerprint).  Any of them can  *)
(* fail, and the process can die between any two.                          *)
(*                                                                         *)
(* Populators hold the activity slot for the whole scan.  The ROM watcher  *)
(* only looks at the slot before it starts.  Edits are the requests of the *)
(* web UI and of the REST API, which take no slot at all.  Every edit ends *)
(* by clearing the system: its rows, then its metadata, each DELETE a      *)
(* transaction of its own.                                                 *)
(*                                                                         *)
(* A file is abstracted to a version: its size and mtime.  Versions differ *)
(* in size.  A fingerprint is the listing it was computed from.            *)
(***************************************************************************)
EXTENDS Naturals

CONSTANTS Files,       \* ROM file names of the system
          MaxVersion,  \* file versions are 1 .. MaxVersion
          Populators,  \* startup, rescan and rebuild passes
          Watchers,    \* ROM watcher loops
          Edits,       \* the edit requests that occur
          MaxToken,    \* bound on scan tokens
          None

Versions == 1 .. MaxVersion

Absent == 0

Listings == [Files -> Versions \cup {Absent}]

Scanners == Populators \cup Watchers

Rows == [tok : Nat, ver : Versions, ident : {"pending", "complete"}]

Metas == [disc : {"pending", "running", "complete"},
          enr : {"pending", "running", "complete", "failed"}]

\* What an edit has still to do to the library: its cascade, then the two
\* DELETEs of its clear.
Requests == [pc : {"delete"}, file : Files]
       \cup [pc : {"rename"}, file : Files, to : Files]
       \cup [pc : {"rows", "meta"}]

ASSUME ScanAssumption ==
    /\ MaxVersion \in Nat \ {0}
    /\ MaxToken \in Nat \ {0}
    /\ Populators \cap Watchers = {}
    /\ Edits \subseteq {"delete", "rename", "rest", "upload"}
    /\ None \notin Populators \cup Listings \cup Rows \cup Metas \cup Requests

VARIABLES disk,       \* the files of the system
          rows,       \* game_library
          meta,       \* game_library_meta
          fp,         \* library_meta's discovery fingerprint
          nextToken,  \* library_build_sequence
          slot,       \* holder of the activity slot
          run,        \* run[s]: where scanner s is, and its local values
          request,    \* edit whose database half is still to come
          torn,       \* history: an edit changed rows since the save behind fp began
          stirred     \* history: an edit changed rows since the last save began

history == <<torn, stirred>>
vars == <<disk, rows, meta, fp, nextToken, slot, run, request, torn, stirred>>

Runs == [pc : {"idle", "stored", "clean", "walk", "save", "chunk", "enrich",
               "enriching", "done"},
         skip : BOOLEAN,                   \* ScanOptions::skip_unchanged_startup
         stored : Listings,                \* versions with a reusable hash
         clean : Listings \cup {None},     \* fingerprint that allows a skip
         listing : Listings,               \* what the walk has seen
         todo : SUBSET Files,              \* files still to walk or to save
         token : Nat]

TypeOK ==
    /\ disk \in Listings
    /\ rows \in [Files -> Rows \cup {None}]
    /\ meta \in Metas \cup {None}
    /\ fp \in Listings \cup {None}
    /\ nextToken \in Nat
    /\ slot \in Populators \cup {None}
    /\ run \in [Scanners -> Runs]
    /\ request \in Requests \cup {None}
    /\ torn \in BOOLEAN
    /\ stirred \in BOOLEAN

Nothing == [f \in Files |-> Absent]

Parked == [pc |-> "idle", skip |-> FALSE, stored |-> Nothing, clean |-> None,
           listing |-> Nothing, todo |-> {}, token |-> 0]

\* A fresh library.db on a storage with any files.
Init ==
    /\ disk \in Listings
    /\ rows = [f \in Files |-> None]
    /\ meta = None
    /\ fp = None
    /\ nextToken = 1
    /\ slot = None
    /\ run = [s \in Scanners |-> Parked]
    /\ request = None
    /\ torn = FALSE
    /\ stirred = FALSE

At(s, pc) == run[s].pc = pc

Goto(s, pc) == run' = [run EXCEPT ![s].pc = pc]

\* Goto, where none of the scan's values is used again.
Leave(s, pc) == run' = [run EXCEPT ![s] = [Parked EXCEPT !.pc = pc]]

-----------------------------------------------------------------------------
(* One scan, from its inputs to its enrichment.                            *)

\* try_start_activity succeeded: a startup pass may skip an unchanged system,
\* a rescan or rebuild may not.
Claim(p, sk) ==
    /\ At(p, "idle")
    /\ slot = None
    /\ slot' = p
    /\ run' = [run EXCEPT ![p].pc = "stored", ![p].skip = sk]
    /\ UNCHANGED <<disk, rows, meta, fp, nextToken, request, history>>

\* The watcher's is_idle() check; nothing is claimed.
Watch(w) ==
    /\ At(w, "idle")
    /\ slot = None
    /\ Goto(w, "stored")
    /\ UNCHANGED <<disk, rows, meta, fp, nextToken, slot, request, history>>

StoredHashes ==
    [f \in Files |-> IF rows[f] # None /\ rows[f].ident = "complete"
                     THEN rows[f].ver ELSE Absent]

\* load_stored_hashes; a failed read counts as no hashes.
ReadStored(s) ==
    /\ At(s, "stored")
    /\ \E h \in {StoredHashes, Nothing} :
            run' = [run EXCEPT ![s].pc = "clean", ![s].stored = h]
    /\ UNCHANGED <<disk, rows, meta, fp, nextToken, slot, request, history>>

AllIdentified == \A f \in Files : rows[f] # None => rows[f].ident = "complete"

\* Variant: an interrupted discovery does not disqualify the fingerprint.
CleanFingerprintAnyDiscovery ==
    IF meta # None /\ meta.enr = "complete" /\ AllIdentified THEN fp ELSE None

\* clean_startup_discovery_fingerprint
CleanFingerprint ==
    IF meta # None /\ meta.disc = "complete" /\ meta.enr = "complete" /\ AllIdentified
    THEN fp ELSE None

\* The rest of scan_inputs_for_system: None unless this pass may skip, and
\* after a failed read or without a trusted mtime probe.  The walk starts.
ReadClean(s) ==
    /\ At(s, "clean")
    /\ \E c \in IF run[s].skip THEN {CleanFingerprint, None} ELSE {None} :
            run' = [run EXCEPT ![s].pc = "walk", ![s].clean = c, ![s].todo = Files]
    /\ UNCHANGED <<disk, rows, meta, fp, nextToken, slot, request, history>>

\* list_roms sees one file after the other, while they may change.
Walk(s, f) ==
    /\ At(s, "walk")
    /\ f \in run[s].todo
    /\ run' = [run EXCEPT ![s].listing[f] = disk[f], ![s].todo = @ \ {f}]
    /\ UNCHANGED <<disk, rows, meta, fp, nextToken, slot, request, history>>

Walked(s) == At(s, "walk") /\ run[s].todo = {}

CanSkip(s) == run[s].skip /\ run[s].clean = run[s].listing

\* startup_can_skip: nothing is written and nothing is enriched.
Skip(s) ==
    /\ Walked(s)
    /\ CanSkip(s)
    /\ Leave(s, "done")
    /\ UNCHANGED <<disk, rows, meta, fp, nextToken, slot, request, history>>

\* Variant: discovery is not marked Running.
MarkNothing ==
    IF meta = None THEN [disc |-> "running", enr |-> "pending"] ELSE meta

\* mark_discovery_running
MarkDiscoveryRunning ==
    IF meta = None THEN [disc |-> "running", enr |-> "pending"]
                   ELSE [meta EXCEPT !.disc = "running"]

\* The rows to save: the listed files.
UniqueRoms(s) == {f \in Files : run[s].listing[f] # Absent}

\* begin_system_discovery
Begin(s) ==
    /\ Walked(s)
    /\ ~CanSkip(s)
    /\ nextToken <= MaxToken
    /\ nextToken' = nextToken + 1
    /\ meta' = MarkDiscoveryRunning
    /\ run' = [run EXCEPT ![s].pc = "chunk", ![s].token = nextToken,
                          ![s].todo = UniqueRoms(s), ![s].skip = FALSE,
                          ![s].clean = None]
    /\ stirred' = FALSE
    /\ UNCHANGED <<disk, rows, fp, slot, request, torn>>

\* Identity survives the save when the stored hash still fits the file.
CarriedIdentity(s, f) ==
    IF run[s].stored[f] = run[s].listing[f] THEN "complete" ELSE "pending"

\* Variant: an existing row keeps its old scan token.
UpsertKeepingToken(s, f) ==
    [tok |-> IF rows[f] = None THEN run[s].token ELSE rows[f].tok,
     ver |-> run[s].listing[f], ident |-> CarriedIdentity(s, f)]

\* The row that upsert_discovery_chunk leaves for f.
Upsert(s, f) ==
    [tok |-> run[s].token, ver |-> run[s].listing[f], ident |-> CarriedIdentity(s, f)]

\* save_system_entries_chunk, one row to a chunk.
Chunk(s, f) ==
    /\ At(s, "chunk")
    /\ f \in run[s].todo
    /\ rows' = [rows EXCEPT ![f] = Upsert(s, f)]
    /\ run' = [run EXCEPT ![s].todo = @ \ {f}]
    /\ UNCHANGED <<disk, meta, fp, nextToken, slot, request, history>>

\* finalize_system_discovery
Finalize(s) ==
    /\ At(s, "chunk")
    /\ run[s].todo = {}
    /\ rows' = [f \in Files |-> IF rows[f] # None /\ rows[f].tok = run[s].token
                                THEN rows[f] ELSE None]
    /\ meta' = [disc |-> "complete", enr |-> "pending"]
    /\ fp' = run[s].listing
    /\ torn' = stirred
    /\ Leave(s, "enrich")
    /\ UNCHANGED <<disk, nextToken, slot, request, stirred>>

\* set_enrichment_state updates the row of game_library_meta, if there is one.
SetEnrichment(e) == meta' = IF meta = None THEN None ELSE [meta EXCEPT !.enr = e]

EnrichStart(s) ==
    /\ At(s, "enrich")
    /\ SetEnrichment("running")
    /\ Goto(s, "enriching")
    /\ UNCHANGED <<disk, rows, fp, nextToken, slot, request, history>>

\* Enrichment writes other columns; when its read is unavailable it returns
\* without settling the state.
EnrichEnd(s, e) ==
    /\ At(s, "enriching")
    /\ SetEnrichment(e)
    /\ Goto(s, "done")
    /\ UNCHANGED <<disk, rows, fp, nextToken, slot, request, history>>

\* A directory that cannot be listed, or a write that fails: the scan returns
\* its error and what is stored stays as it is.
Fail(s) ==
    /\ run[s].pc \in {"walk", "chunk", "enrich", "enriching"}
    /\ Leave(s, "done")
    /\ UNCHANGED <<disk, rows, meta, fp, nextToken, slot, request, history>>

\* The guard is dropped, or the watcher waits for its next event.
Finish(s) ==
    /\ At(s, "done")
    /\ slot' = IF s = slot THEN None ELSE slot
    /\ run' = [run EXCEPT ![s] = Parked]
    /\ UNCHANGED <<disk, rows, meta, fp, nextToken, request, history>>

-----------------------------------------------------------------------------
(* Everything else that touches the system.                                *)

\* The identity phase hashes f and completes its row, under its own slot.
ResolveIdentity(f) ==
    /\ slot = None
    /\ rows[f] # None
    /\ rows[f].ident = "pending"
    /\ rows' = [rows EXCEPT ![f].ident = "complete"]
    /\ UNCHANGED <<disk, meta, fp, nextToken, slot, run, request, history>>

\* The user adds, replaces or removes a file on the storage.
ChangeDisk(f, v) ==
    /\ disk[f] # v
    /\ disk' = [disk EXCEPT ![f] = v]
    /\ UNCHANGED <<rows, meta, fp, nextToken, slot, run, request, history>>

\* The file half of the edits.  delete_rom and rename_rom of the web UI go on
\* with a cascade; rename_rom of the REST API and upload_rom only clear.
DeleteFile(f) ==
    /\ request = None /\ "delete" \in Edits
    /\ disk[f] # Absent
    /\ disk' = [disk EXCEPT ![f] = Absent]
    /\ request' = [pc |-> "delete", file |-> f]
    /\ UNCHANGED <<rows, meta, fp, nextToken, slot, run, history>>

RenameFile(f, g) ==
    /\ request = None
    /\ disk[f] # Absent /\ disk[g] = Absent
    /\ disk' = [disk EXCEPT ![g] = disk[f], ![f] = Absent]
    /\ \/ "rename" \in Edits /\ request' = [pc |-> "rename", file |-> f, to |-> g]
       \/ "rest" \in Edits /\ request' = [pc |-> "rows"]
    /\ UNCHANGED <<rows, meta, fp, nextToken, slot, run, history>>

UploadFile(f, v) ==
    /\ request = None /\ "upload" \in Edits
    /\ disk' = [disk EXCEPT ![f] = v]
    /\ request' = [pc |-> "rows"]
    /\ UNCHANGED <<rows, meta, fp, nextToken, slot, run, history>>

\* History: whether this step of an edit changed a row.
Stir ==
    /\ torn' = (torn \/ rows' # rows)
    /\ stirred' = (stirred \/ rows' # rows)

\* delete_for_rom.  The write may fail, here and in the rename; that is logged
\* and the request goes on to its clear.
CascadeDelete ==
    /\ request # None /\ request.pc = "delete"
    /\ rows' \in {rows, [rows EXCEPT ![request.file] = None]}
    /\ Stir
    /\ request' = [pc |-> "rows"]
    /\ UNCHANGED <<disk, meta, fp, nextToken, slot, run>>

\* rename_for_rom: the UPDATE also fails when the new name already has a row.
CascadeRename ==
    /\ request # None /\ request.pc = "rename"
    /\ \/ rows' = rows
       \/ /\ rows[request.to] = None
          /\ rows' = [rows EXCEPT ![request.to] = rows[request.file],
                                  ![request.file] = None]
    /\ Stir
    /\ request' = [pc |-> "rows"]
    /\ UNCHANGED <<disk, meta, fp, nextToken, slot, run>>

\* clear_system_game_library and clear_all_game_library: first every row of the
\* system, then its metadata.  The fingerprint, in library_meta, stays.
ClearRows ==
    /\ request # None /\ request.pc = "rows"
    /\ rows' = [f \in Files |-> None]
    /\ Stir
    /\ request' = [pc |-> "meta"]
    /\ UNCHANGED <<disk, meta, fp, nextToken, slot, run>>

ClearMeta ==
    /\ request # None /\ request.pc = "meta"
    /\ meta' = None
    /\ request' = None
    /\ UNCHANGED <<disk, rows, fp, nextToken, slot, run, history>>

\* The edit ends early: its client went away while it waited, the pool refused
\* the clear, or a DELETE failed.  Nobody retries it.
Abandon ==
    /\ request # None
    /\ request' = None
    /\ UNCHANGED <<disk, rows, meta, fp, nextToken, slot, run, history>>

\* recover_running_states, on the first open after the restart.
Recovered ==
    IF meta = None THEN None
    ELSE [disc |-> IF meta.disc = "running" THEN "pending" ELSE meta.disc,
          enr |-> IF meta.enr = "running" THEN "pending" ELSE meta.enr]

\* Power loss or a restart of the service, between any two transactions.
Crash ==
    /\ meta' = Recovered
    /\ slot' = None
    /\ run' = [s \in Scanners |-> Parked]
    /\ request' = None
    /\ UNCHANGED <<disk, rows, fp, nextToken, history>>

-----------------------------------------------------------------------------
ScanStep(s) ==
    \/ ReadStored(s) \/ ReadClean(s)
    \/ \E f \in Files : Walk(s, f) \/ Chunk(s, f)
    \/ Skip(s) \/ Begin(s) \/ Finalize(s)
    \/ EnrichStart(s)
    \/ \E e \in {"complete", "failed", "running"} : EnrichEnd(s, e)
    \/ Fail(s) \/ Finish(s)

EditStep ==
    \/ \E f \in Files : DeleteFile(f)
    \/ \E f, g \in Files : RenameFile(f, g)
    \/ \E f \in Files, v \in Versions : UploadFile(f, v)
    \/ CascadeDelete \/ CascadeRename \/ ClearRows \/ ClearMeta \/ Abandon

Next ==
    \/ \E p \in Populators, sk \in BOOLEAN : Claim(p, sk)
    \/ \E w \in Watchers : Watch(w)
    \/ \E s \in Scanners : ScanStep(s)
    \/ \E f \in Files : ResolveIdentity(f)
    \/ \E f \in Files, v \in Versions \cup {Absent} : ChangeDisk(f, v)
    \/ EditStep
    \/ Crash

Spec == Init /\ [][Next]_vars

-----------------------------------------------------------------------------
\* The rows are exactly the files of listing L.
RowsMatch(L) ==
    \A f \in Files :
        IF L[f] = Absent THEN rows[f] = None
                         ELSE rows[f] # None /\ rows[f].ver = L[f]

\* A Complete discovery_state is a promise: whatever failed or crashed before,
\* the rows are exactly the files of the listing whose fingerprint is stored.
\* Excepted is what an edit has torn.  An edit that runs to its end leaves no
\* metadata and so no promise; the exception is for the moment between its
\* writes, for a clear that was cut short after its first DELETE, and for a
\* clear that fell between a scan's begin and finalize.
CompleteIsListing ==
    meta # None /\ meta.disc = "complete" /\ ~torn => fp # None /\ RowsMatch(fp)

\* A startup pass that is about to skip leaves nothing undone: the library
\* already shows what it walked, all of it identified and enriched.  A system
\* that an edit has torn in one of the three ways above is skipped as it is.
SkipIsSound ==
    \A s \in Scanners :
        Walked(s) /\ CanSkip(s) /\ ~torn =>
            /\ RowsMatch(run[s].listing)
            /\ AllIdentified
            /\ meta # None => meta.disc = "complete" /\ meta.enr = "complete"

\* Stored rows survive every failure: a row only disappears when a scan that
\* did not see its file is finalized, by the cascade of an edit of that very
\* name, or with all others in the clear that ends every edit.  A finalize
\* that an edit disturbed may also take a row that the edit put in the place
\* of one the scan had saved.
RowsLostOnlyByReconcile ==
    [][\A f \in Files :
          rows[f] # None /\ rows'[f] = None =>
              \/ \E s \in Scanners :
                    Finalize(s) /\ (run[s].listing[f] = Absent \/ stirred)
              \/ (CascadeDelete \/ CascadeRename) /\ request.file = f
              \/ ClearRows]_vars
=============================================================================
