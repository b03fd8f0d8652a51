-------------------------- MODULE ExternalMetadata --------------------------
(***************************************************************************)
(* The LaunchBox metadata of external_metadata.db: download and refresh    *)
(* (api/background/external_metadata.rs), the boot phases that seed and    *)
(* import it (api/background/mod.rs), the import itself                    *)
(* (library/external_metadata_refresh.rs), schema recovery and             *)
(* clear_launchbox (external_metadata.rs), and the web calls that clear    *)
(* and regenerate (server_fns/metadata.rs).                                *)
(*                                                                         *)
(* An XML file, its ETag and its CRC32 are the version of the upstream     *)
(* file they come from.  A build stands for its title normalizer and its   *)
(* platform map, which a release changes together here.  The library of    *)
(* the storage is one unit: an enrichment reads the provider tables and    *)
(* writes what it read, and a failing one writes a part of it.             *)
(***************************************************************************)
EXTENDS Integers, FiniteSets

CONSTANTS Users,        \* web calls that can be in progress at once
          Boot,         \* the startup pipeline
          Other,        \* any other holder of the activity slot
          Unparsable,   \* upstream versions that parse_xml rejects
          Redefined,    \* provider tables whose columns a release changes
          MaxVersion,   \* bound: versions published upstream
          MaxBuild,     \* bound: releases of the app
          MaxOps,       \* bound: web calls and other activities
          MaxFaults,    \* bound: failed reads, writes, requests and timeouts
          None          \* absence of a value

Tables == {"provider_game", "provider_alternate", "provider_resource"}

ASSUME MetadataAssumption ==
    /\ Redefined \subseteq Tables
    /\ MaxVersion \in Nat \ {0}
    /\ MaxBuild \in Nat \ {0}
    /\ MaxOps \in Nat
    /\ MaxFaults \in Nat
    /\ Unparsable \subseteq Nat
    /\ Boot \notin Users
    /\ Other \notin Users \cup {Boot}
    /\ None \notin Users \cup {Boot, Other} \cup Nat \cup (Nat \X Nat)
    /\ None \notin [Tables -> (Nat \X Nat) \cup {None}]

VARIABLES upstream,  \* version that the download URL serves
          build,     \* release that runs
          xml,       \* launchbox-metadata.xml on disk
          rows,      \* rows[T]: what provider table T was filled from
          crc, norm, plat, etag,  \* the stamps in external_meta
          lib,       \* what the library was last enriched from
          slot,      \* holder of the activity slot
          pc,        \* where each task is
          head,      \* ETag that the HEAD request of a task returned
          job,       \* refresh that a task has prepared
          clearAt,   \* statement of clear_launchbox that a task runs next
          late,      \* refresh whose write timed out and still runs
          seen,      \* the tables as the enrichment under way has read them
          ops, faults,
          cut,       \* history: a clear stopped after a delete, before the CRC stamp
          lost       \* history: a crash, a timeout or a failed enrichment kept a commit
                     \* from being followed by its enrichment

stamps == <<crc, norm, plat, etag>>
dbVars == <<rows, stamps>>
env == <<upstream, build>>
bounds == <<ops, faults>>
history == <<cut, lost>>
locals == <<head, job>>
taskVars == <<slot, pc, locals, clearAt, late, seen>>
vars == <<env, xml, dbVars, lib, taskVars, bounds, history>>

Tasks == Users \cup {Boot}
Versions == 1 .. MaxVersion
Builds == 1 .. MaxBuild
Filled == Versions \X Builds    \* rows of one file, parsed by one build

TypeOK ==
    /\ upstream \in Versions
    /\ build \in Builds
    /\ xml \in Versions \cup {None}
    /\ rows \in [Tables -> Filled \cup {None}]
    /\ crc \in Versions \cup {None}
    /\ norm \in Builds \cup {None}
    /\ plat \in Builds \cup {None}
    /\ etag \in Versions \cup {None}
    /\ lib \in [Tables -> Filled \cup {None}]
    /\ slot \in Tasks \cup {Other, None}
    /\ pc \in [Tasks -> {"idle", "pipeline", "seed", "head", "download", "etag", "import",
                         "compare", "parse", "apply", "enrich", "clear", "leave",
                         "startup", "verify"}]
    /\ head \in [Tasks -> Versions \cup {None}]
    /\ job \in [Tasks -> Filled \cup {None}]
    /\ clearAt \in [Tasks -> 0 .. 6]
    /\ late \in [Tasks -> Filled \cup {None}]
    /\ seen \in [Tables -> Filled \cup {None}] \cup {None}
    /\ ops \in 0 .. MaxOps
    /\ faults \in 0 .. MaxFaults
    /\ cut \in BOOLEAN
    /\ lost \in BOOLEAN

Empty == [T \in Tables |-> None]

\* A device that has never downloaded anything, at its first boot.
Init ==
    /\ upstream = 1 /\ build = 1
    /\ xml = None
    /\ rows = Empty /\ lib = Empty
    /\ crc = None /\ norm = None /\ plat = None /\ etag = None
    /\ slot = None
    /\ pc = [t \in Tasks |-> IF t = Boot THEN "pipeline" ELSE "idle"]
    /\ head = [t \in Tasks |-> None]
    /\ job = [t \in Tasks |-> None]
    /\ clearAt = [t \in Tasks |-> 0]
    /\ late = [t \in Tasks |-> None]
    /\ seen = None
    /\ ops = 0 /\ faults = 0
    /\ cut = FALSE /\ lost = FALSE

-----------------------------------------------------------------------------
(* Shared steps.                                                           *)

At(t, step) == pc[t] = step

Go(t, step) == pc' = [pc EXCEPT ![t] = step]

Fault ==
    /\ faults < MaxFaults
    /\ faults' = faults + 1
    /\ UNCHANGED ops

\* A web call starts on a task whose earlier writes are over.
Call(t) ==
    /\ t \in Users /\ At(t, "idle")
    /\ clearAt[t] = 0 /\ late[t] = None
    /\ ops < MaxOps
    /\ ops' = ops + 1
    /\ UNCHANGED faults

\* The clear that holds the only write connection; one that timed out has given
\* its connection back and goes on beside the others.
Writing == {t \in Tasks : At(t, "clear") /\ clearAt[t] > 1}

\* apply_launchbox_refresh: the rows of all tables and the three stamps commit
\* in one transaction.
Commit(p) ==
    /\ rows' = [T \in Tables |-> p]
    /\ crc' = p[1] /\ norm' = p[2] /\ plat' = p[2]
    /\ UNCHANGED etag
    /\ cut' = FALSE

-----------------------------------------------------------------------------
(* phase_auto_import_inner.                                                *)

\* Mutant: the import does not wait for other activities.
ImportClaimUnchecked(t) ==
    /\ At(t, "import")
    /\ xml # None
    /\ slot' = t
    /\ Go(t, "compare")
    /\ UNCHANGED <<env, xml, dbVars, lib, locals, clearAt, late, seen, bounds, history>>

\* Without a guard of the caller: the file is looked for, then the slot claimed.
ImportClaim(t) ==
    /\ At(t, "import")
    /\ xml # None
    /\ slot = None
    /\ slot' = t
    /\ Go(t, "compare")
    /\ UNCHANGED <<env, xml, dbVars, lib, locals, clearAt, late, seen, bounds, history>>

AfterImport(t) == IF t = Boot THEN "startup" ELSE "idle"

\* No XML, or another activity is in flight.
ImportSkip(t) ==
    /\ At(t, "import")
    /\ xml = None \/ slot # None
    /\ Go(t, AfterImport(t))
    /\ UNCHANGED <<env, xml, dbVars, lib, slot, locals, clearAt, late, seen, bounds, history>>

\* Mutant: a release that changes the normalizer or the platform map is not noticed.
MatchesHash == crc = xml

\* All three gates of the freshness check.
Matches == crc = xml /\ norm = build /\ plat = build

ImportCompare(t) ==
    /\ At(t, "compare")
    /\ Go(t, IF Matches THEN "leave" ELSE "parse")
    /\ UNCHANGED <<env, xml, dbVars, lib, slot, locals, clearAt, late, seen, bounds, history>>

\* A hash that fails ends the import; stamps that cannot be read count as absent.
ImportCompareFails(t) ==
    /\ At(t, "compare")
    /\ Fault
    /\ \E next \in {"leave", "parse"} : Go(t, next)
    /\ UNCHANGED <<env, xml, dbVars, lib, slot, locals, clearAt, late, seen, history>>

\* prepare_launchbox_refresh, which touches no database.
Parse(t) ==
    /\ At(t, "parse")
    /\ xml \notin Unparsable
    /\ job' = [job EXCEPT ![t] = <<xml, build>>]
    /\ Go(t, "apply")
    /\ UNCHANGED <<env, xml, dbVars, lib, slot, head, clearAt, late, seen, bounds, history>>

ParseFails(t) ==
    /\ At(t, "parse")
    /\ \/ xml \in Unparsable /\ UNCHANGED bounds
       \/ xml \notin Unparsable /\ Fault
    /\ Go(t, "leave")
    /\ UNCHANGED <<env, xml, dbVars, lib, slot, locals, clearAt, late, seen, history>>

\* Mutant: the refresh completes without re-enriching.
ApplyOnly(t) ==
    /\ At(t, "apply")
    /\ Writing = {}
    /\ Commit(job[t])
    /\ job' = [job EXCEPT ![t] = None]
    /\ Go(t, "leave")
    /\ UNCHANGED <<env, xml, lib, slot, head, clearAt, late, seen, bounds, lost>>

Apply(t) ==
    /\ At(t, "apply")
    /\ Writing = {}
    /\ Commit(job[t])
    /\ job' = [job EXCEPT ![t] = None]
    /\ Go(t, "enrich")
    /\ UNCHANGED <<env, xml, lib, slot, head, clearAt, late, seen, bounds, lost>>

\* The write is refused or rolled back, or its caller stops waiting for it.
ApplyFails(t) ==
    /\ At(t, "apply")
    /\ Fault
    /\ \E p \in {None, job[t]} : late' = [late EXCEPT ![t] = p]
    /\ job' = [job EXCEPT ![t] = None]
    /\ Go(t, "leave")
    /\ UNCHANGED <<env, xml, dbVars, lib, slot, head, clearAt, seen, history>>

\* The transaction whose caller reported a timeout ends.
LateApply(t) ==
    /\ late[t] # None
    /\ Commit(late[t])
    /\ late' = [late EXCEPT ![t] = None]
    /\ lost' = TRUE
    /\ UNCHANGED <<env, xml, lib, slot, pc, locals, clearAt, seen, bounds>>

\* SQLite refuses it because another connection writes.
LateApplyFails(t) ==
    /\ late[t] # None
    /\ late' = [late EXCEPT ![t] = None]
    /\ UNCHANGED <<env, xml, dbVars, lib, slot, pc, locals, clearAt, seen, bounds, history>>

\* enrich_system_library reads the provider tables; a read that fails counts as
\* an empty table.
ReadRows ==
    /\ seen = None
    /\ \/ /\ seen' = rows
          /\ lost' = FALSE
          /\ UNCHANGED bounds
       \/ /\ Fault
          /\ \E failed \in SUBSET Tables \ {{}} :
                seen' = [T \in Tables |-> IF T \in failed THEN None ELSE rows[T]]
          /\ lost' = TRUE

\* It writes what it has read, and nothing tries again what could not be read or
\* written: all of the library when active_systems fails, some of it otherwise.
ShowRows ==
    /\ seen # None
    /\ \/ lib' = seen /\ UNCHANGED <<lost, bounds>>
       \/ /\ Fault
          /\ \E written \in SUBSET Tables :
                lib' = [T \in Tables |-> IF T \in written THEN seen[T] ELSE lib[T]]
          /\ lost' = TRUE
    /\ seen' = None

\* reenrich_all_systems.
ReenrichRead(t) ==
    /\ At(t, "enrich")
    /\ ReadRows
    /\ UNCHANGED <<env, xml, dbVars, lib, slot, pc, locals, clearAt, late, cut>>

ReenrichShow(t) ==
    /\ At(t, "enrich")
    /\ ShowRows
    /\ Go(t, "leave")
    /\ UNCHANGED <<env, xml, dbVars, slot, locals, clearAt, late, cut>>

\* The guard is dropped when the task returns.
Leave(t) ==
    /\ At(t, "leave")
    /\ slot' = IF slot = t THEN None ELSE slot
    /\ Go(t, AfterImport(t))
    /\ UNCHANGED <<env, xml, dbVars, lib, locals, clearAt, late, seen, bounds, history>>

Import(t) ==
    \/ ImportClaim(t) \/ ImportSkip(t) \/ ImportCompare(t) \/ ImportCompareFails(t)
    \/ Parse(t) \/ ParseFails(t) \/ Apply(t) \/ ApplyFails(t)
    \/ LateApply(t) \/ LateApplyFails(t) \/ ReenrichRead(t) \/ ReenrichShow(t)
    \/ Leave(t)

-----------------------------------------------------------------------------
(* download_external_metadata_and_refresh.                                 *)

\* While the slot is busy the call does nothing.
RefreshStart(t) ==
    /\ Call(t)
    /\ slot = None
    /\ slot' = t
    /\ Go(t, "head")
    /\ UNCHANGED <<env, xml, dbVars, lib, locals, clearAt, late, seen, history>>

\* The stored ETag against the one of the HEAD request.
RefreshHead(t) ==
    /\ At(t, "head")
    /\ \/ /\ etag = upstream
          /\ Go(t, "enrich")
          /\ UNCHANGED <<head, bounds>>
       \/ /\ etag # upstream
          /\ head' = [head EXCEPT ![t] = upstream]
          /\ Go(t, "download")
          /\ UNCHANGED bounds
       \/ /\ Fault    \* no answer: the file is downloaded, its ETag unknown
          /\ Go(t, "download")
          /\ UNCHANGED head
    /\ UNCHANGED <<env, xml, dbVars, lib, slot, job, clearAt, late, seen, history>>

\* download_metadata replaces the file only by a complete one.
RefreshDownload(t) ==
    /\ At(t, "download")
    /\ xml' = upstream
    /\ Go(t, "etag")
    /\ UNCHANGED <<env, dbVars, lib, slot, locals, clearAt, late, seen, bounds, history>>

RefreshDownloadFails(t) ==
    /\ At(t, "download")
    /\ Fault
    /\ Go(t, "leave")
    /\ UNCHANGED <<env, xml, dbVars, lib, slot, locals, clearAt, late, seen, history>>

\* The ETag is stored before the file is parsed; a failed write is only logged,
\* and one that timed out may have been committed.
RefreshEtag(t) ==
    /\ At(t, "etag")
    /\ \/ /\ head[t] = None
          /\ UNCHANGED <<etag, bounds>>
       \/ /\ head[t] # None
          /\ Writing = {}
          /\ etag' = head[t]
          /\ UNCHANGED bounds
       \/ /\ head[t] # None
          /\ Fault
          /\ etag' \in {etag, head[t]}
    /\ head' = [head EXCEPT ![t] = None]
    /\ Go(t, "compare")
    /\ UNCHANGED <<env, xml, rows, crc, norm, plat, lib, slot, job, clearAt, late, seen, history>>

Refresh(t) ==
    \/ RefreshStart(t) \/ RefreshHead(t)
    \/ RefreshDownload(t) \/ RefreshDownloadFails(t) \/ RefreshEtag(t)

-----------------------------------------------------------------------------
(* clear_metadata holds the slot; regenerate_metadata clears without it and *)
(* then spawns an import.                                                   *)

ClearStart(t) ==
    /\ Call(t)
    /\ slot = None
    /\ slot' = t
    /\ clearAt' = [clearAt EXCEPT ![t] = 1]
    /\ Go(t, "clear")
    /\ UNCHANGED <<env, xml, dbVars, lib, locals, late, seen, history>>

RegenerateStart(t) ==
    /\ Call(t)
    /\ clearAt' = [clearAt EXCEPT ![t] = 1]
    /\ Go(t, "clear")
    /\ UNCHANGED <<env, xml, dbVars, lib, slot, locals, late, seen, history>>

AfterClear(t) == IF slot = t THEN "leave" ELSE "import"

\* The statements of clear_launchbox in their order: the deletes come first.
ClearOrder == <<"provider_game", "provider_alternate", "provider_resource">>

Delete(n) ==
    /\ rows' = [rows EXCEPT ![ClearOrder[n]] = None]
    /\ UNCHANGED <<stamps, cut>>

\* Mutant: the CRC stamp is not reset.
ClearStatementKeepingStamp(n) ==
    \/ n \in 1 .. 3 /\ Delete(n)
    \/ n = 4 /\ cut' = FALSE /\ UNCHANGED dbVars
    \/ n = 5 /\ etag' = None /\ UNCHANGED <<rows, crc, norm, plat, cut>>
    \/ n = 6 /\ plat' = None /\ UNCHANGED <<rows, crc, norm, etag, cut>>

ClearStatement(n) ==
    \/ n \in 1 .. 3 /\ Delete(n)
    \/ n = 4 /\ crc' = None /\ cut' = FALSE /\ UNCHANGED <<rows, norm, plat, etag>>
    \/ n = 5 /\ etag' = None /\ UNCHANGED <<rows, crc, norm, plat, cut>>
    \/ n = 6 /\ plat' = None /\ UNCHANGED <<rows, crc, norm, etag, cut>>

\* Each statement commits by itself.
ClearStep(t) ==
    /\ clearAt[t] > 0
    /\ clearAt[t] = 1 => Writing = {}
    /\ ClearStatement(clearAt[t])
    /\ clearAt' = [clearAt EXCEPT ![t] = (@ + 1) % 7]
    /\ pc' = IF clearAt[t] = 6 /\ At(t, "clear")
             THEN [pc EXCEPT ![t] = AfterClear(t)] ELSE pc
    /\ UNCHANGED <<env, xml, lib, slot, locals, late, seen, bounds, lost>>

\* A clear that deletes rows which the CRC stamp still stands for.
HalfCleared(t) == clearAt[t] \in 2 .. 4

StopClear(t) == IF At(t, "clear") THEN IF slot = t THEN "leave" ELSE "idle" ELSE pc[t]

\* A statement fails: the ones after it are not run, and the call returns the error.
ClearFails(t) ==
    /\ clearAt[t] > 0
    /\ Fault
    /\ cut' = (cut \/ HalfCleared(t))
    /\ clearAt' = [clearAt EXCEPT ![t] = 0]
    /\ Go(t, StopClear(t))
    /\ UNCHANGED <<env, xml, dbVars, lib, slot, locals, late, seen, lost>>

\* The call gives up waiting; the statements go on without it.
ClearTimesOut(t) ==
    /\ At(t, "clear")
    /\ Fault
    /\ Go(t, StopClear(t))
    /\ UNCHANGED <<env, xml, dbVars, lib, slot, locals, clearAt, late, seen, history>>

Clear(t) ==
    \/ ClearStart(t) \/ RegenerateStart(t)
    \/ ClearStep(t) \/ ClearFails(t) \/ ClearTimesOut(t)

-----------------------------------------------------------------------------
(* run_pipeline: the first-run seed, the import, and the verification.     *)

\* claim_startup_activity retries, and gives up when the slot stays busy.
SeedClaim ==
    /\ At(Boot, "pipeline")
    /\ IF slot = None
       THEN slot' = Boot /\ Go(Boot, "seed")
       ELSE Go(Boot, "import") /\ UNCHANGED slot
    /\ UNCHANGED <<env, xml, dbVars, lib, locals, clearAt, late, seen, bounds, history>>

\* phase_first_run_seed downloads when nothing was ever imported and no file is there.
Seed ==
    /\ At(Boot, "seed")
    /\ \/ xml' = (IF crc = None /\ xml = None THEN upstream ELSE xml) /\ UNCHANGED bounds
       \/ Fault /\ UNCHANGED xml
    /\ slot' = None
    /\ Go(Boot, "import")
    /\ UNCHANGED <<env, dbVars, lib, locals, clearAt, late, seen, history>>

\* The rest of the pipeline, which enriches systems whose files changed.
VerifyStart ==
    /\ At(Boot, "startup")
    /\ IF slot = None
       THEN slot' = Boot /\ Go(Boot, "verify")
       ELSE Go(Boot, "idle") /\ UNCHANGED slot
    /\ UNCHANGED <<env, xml, dbVars, lib, locals, clearAt, late, seen, bounds, history>>

VerifyEnd ==
    /\ At(Boot, "verify")
    /\ slot' = None
    /\ Go(Boot, "idle")
    /\ UNCHANGED <<env, xml, dbVars, lib, locals, clearAt, late, seen, bounds, history>>

Pipeline == SeedClaim \/ Seed \/ VerifyStart \/ VerifyEnd

-----------------------------------------------------------------------------
(* The environment.                                                        *)

\* A rebuild, a rescan or another activity; a rebuild enriches the whole library.
OtherStart ==
    /\ slot = None
    /\ ops < MaxOps
    /\ ops' = ops + 1
    /\ slot' = Other
    /\ UNCHANGED <<env, xml, dbVars, lib, pc, locals, clearAt, late, seen, faults, history>>

OtherRead ==
    /\ slot = Other
    /\ ReadRows
    /\ UNCHANGED <<env, xml, dbVars, lib, slot, pc, locals, clearAt, late, cut>>

OtherShow ==
    /\ slot = Other
    /\ ShowRows
    /\ UNCHANGED <<env, xml, dbVars, slot, pc, locals, clearAt, late, cut>>

OtherEnd ==
    /\ slot = Other
    /\ seen = None
    /\ slot' = None
    /\ UNCHANGED <<env, xml, dbVars, lib, pc, locals, clearAt, late, seen, bounds, history>>

Publish ==
    /\ upstream < MaxVersion
    /\ upstream' = upstream + 1
    /\ UNCHANGED <<build, xml, dbVars, lib, taskVars, bounds, history>>

\* init_tables of build b drops the provider tables whose columns it does not
\* know, and then resets the stamps; died: an earlier start ended in between,
\* after which the missing tables are created without a reset.
Opened(dropped, died) ==
    /\ rows' = [T \in Tables |-> IF T \in dropped THEN None ELSE rows[T]]
    /\ IF dropped = {} \/ died
       THEN UNCHANGED <<crc, norm>>
       ELSE crc' = None /\ norm' = None
    /\ UNCHANGED <<plat, etag>>
    /\ cut' = (crc' # None /\ (died \/ cut \/ \E t \in Tasks : HalfCleared(t)))

\* All tasks are gone and the pipeline starts.
Started ==
    /\ slot' = None
    /\ pc' = [t \in Tasks |-> IF t = Boot THEN "pipeline" ELSE "idle"]
    /\ head' = [t \in Tasks |-> None]
    /\ job' = [t \in Tasks |-> None]
    /\ clearAt' = [t \in Tasks |-> 0]
    /\ late' = [t \in Tasks |-> None]
    /\ seen' = None
    /\ lost' = (lost \/ seen # None \/ \E t \in Tasks : At(t, "enrich"))
    /\ UNCHANGED <<upstream, xml, lib>>

\* A crash, a reboot or an update; open_at recreates a database that is damaged.
Restart ==
    /\ \E b \in build .. MaxBuild, dropped \in SUBSET Redefined, died \in BOOLEAN :
        /\ b = build => dropped = {}
        /\ dropped = {} => ~died
        /\ build' = b
        /\ Opened(dropped, died)
    /\ Started
    /\ UNCHANGED bounds

RestartRecreated ==
    /\ Fault
    /\ rows' = Empty
    /\ crc' = None /\ norm' = None /\ plat' = None /\ etag' = None
    /\ cut' = FALSE
    /\ Started
    /\ UNCHANGED build

Next ==
    \/ \E t \in Tasks : Import(t) \/ Refresh(t) \/ Clear(t)
    \/ Pipeline
    \/ OtherStart \/ OtherRead \/ OtherShow \/ OtherEnd
    \/ Publish \/ Restart \/ RestartRecreated

Spec == Init /\ [][Next]_vars

-----------------------------------------------------------------------------
(* Properties.                                                             *)

Fresh == xml # None /\ \A T \in Tables : rows[T] = <<xml, build>>

\* The CRC stamp is trusted to skip the import: whenever it is set, all tables
\* hold the rows of that file as the stamped build parsed it, whatever failed,
\* timed out and committed late, or was cleared meanwhile.  A clear commits its
\* deletes before it resets the stamp, so one under way, or cut short, is excepted.
StampIsRows ==
    crc # None /\ ~cut /\ (\A t \in Tasks : ~HalfCleared(t)) =>
        \A T \in Tables : rows[T] = <<crc, norm>>

\* "single-flight": only the holder of the slot downloads, compares hashes, parses
\* and writes, although regenerate_metadata starts without the slot and boots,
\* refreshes and rebuilds compete for it.
SingleFlight ==
    \A t \in Tasks :
        pc[t] \in {"seed", "head", "download", "etag", "compare", "parse", "apply", "enrich",
                  "leave", "verify"} => slot = t

\* When nobody holds the slot, metadata of the file on disk is what the library
\* shows, although a commit may come late or a clear run between the read and the
\* write of an enrichment.  Excepted is an enrichment after a commit that was lost
\* to a crash, never started because the commit was reported as a timeout, or
\* failed: nothing tries it again.
ShownIsFresh == Fresh /\ slot = None /\ ~lost => lib = rows

\* "if parsing or writing fails, the stamp is never persisted and the next boot
\* retries automatically": if the pipeline completes again and again, the rows
\* end up being those of the file on disk, unless no build can parse it or a
\* clear was cut short.
BootsConverge ==
    []<><<VerifyEnd>>_vars => <>[](Fresh \/ xml \in Unparsable \/ cut)
=============================================================================
