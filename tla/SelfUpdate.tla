----------------------------- MODULE SelfUpdate -----------------------------
(***************************************************************************)
(* The self-update (api/updates.rs, core-server update.rs): the checks for *)
(* a release, start_update, and the two ways to install one.               *)
(*                                                                         *)
(* An archive update stages binary, site and catalog under UPDATE_DIR and  *)
(* leaves the rest to a shell script in a scope of its own, which backs up *)
(* and swaps the files, restarts the service, and rolls back when the new  *)
(* one does not answer.  A package update hands the package to a transient *)
(* systemd unit that runs the package manager; unit and server agree       *)
(* through the file update-result.                                         *)
(*                                                                         *)
(* A step is what one task does between two awaits.  Of the release only   *)
(* its version is kept.  UPDATE_LOCK is taken inside the activity slot and *)
(* never refuses anyone, so it is left out; so is skip_version, a setting  *)
(* that a check reads together with the channel.                           *)
(***************************************************************************)
EXTENDS Integers, Sequences, FiniteSets

CONSTANTS MaxVersion,  \* releases are 1 .. MaxVersion; 0 is installed at first
          Bad,         \* versions whose server does not come up
          Legacy,      \* releases without a catalog asset
          Latest,      \* Latest[ch]: newest release of a channel
          Selected,    \* the channel that is selected at first
          Manuals,     \* manual checks that can be under way at once
          Savers,      \* those of them that save_update_channel spawns
          Overruns,    \* whether an extraction may outlive its request for long
          MaxStarts,   \* bound: calls of start_update
          MaxMishaps,  \* bound: requests, commands, copies, moves and health checks that
                       \* fail, crashes of the server or of the unit, power cuts
          MaxSwitches, \* bound: changes of the channel
          None         \* absence of a value

Tags == 1 .. MaxVersion
Versions == 0 .. MaxVersion
Channels == {"stable", "beta"}
Parts == {"binary", "site", "catalog"}
Extractions == [tag : Tags, part : Parts]
Partial == -1                                   \* a file or directory of which a part is there
Contents == Versions \cup {Partial, None}

ASSUME UpdateAssumption ==
    /\ MaxVersion \in Nat \ {0}
    /\ Bad \subseteq Tags
    /\ Legacy \subseteq Tags
    /\ Latest \in [Channels -> Versions]
    /\ Selected \in Channels
    /\ "loop" \notin Manuals
    /\ Savers \subseteq Manuals
    /\ Overruns \in BOOLEAN
    /\ {MaxStarts, MaxMishaps, MaxSwitches} \subseteq Nat
    /\ None \notin Versions \cup {Partial}
    /\ None \notin Parts
    /\ None \notin Extractions

Checks == Manuals \cup {"loop"}

VARIABLES packaged,   \* a package manager owns the binary
          installed,  \* installed[p]: version of the part in place
          backup,     \* backup[p]: version of its .bak
          server,     \* the process: whether it runs, which version, its boot tasks
          slot,       \* the activity slot: who holds the Update activity
          dir,        \* UPDATE_DIR
          script,     \* UPDATE_SCRIPT
          work,       \* start_update: where it is, and its release
          task,       \* extractions on the blocking pool: start_update's, and late ones
          helper,     \* the script's process
          unit,       \* the package helper's unit
          result,     \* update-result
          fresh,      \* update-result is younger than PACKAGE_HELPER_START_GRACE
          check,      \* check[c]: where a check is
          channel,    \* the update channel of the settings
          before,     \* history: what was installed when the script started
          swept,      \* history: boot tasks removed files that an install still needed
          cut,        \* history: the power failed while the script ran, or it could not put
                      \* a .bak back: one may have stayed
          failed,     \* history: the parts that the script could not copy, move and put back
          torn,       \* history: a script or a package manager that failed left parts missing
          orphaned,   \* history: start_update left the slot to a script that did not start
          count       \* how much of each bound is used

fileVars == <<installed, backup, dir, script>>
packageVars == <<unit, result, fresh>>
processVars == <<server, slot, work, task, check>>
wounds == <<failed, torn>>
history == <<before, swept, cut, orphaned, wounds>>
vars == <<packaged, fileVars, processVars, helper, packageVars, channel, history, count>>

Same(v) == [p \in Parts |-> v]
NoDir == [exists |-> FALSE, offer |-> None, archives |-> None, staged |-> Same(None), package |-> None]
Resting == [pc |-> "idle", tag |-> None]
NoCheck == [pc |-> "idle", channel |-> None, answer |-> None]
NoScript == [pc |-> "none", tag |-> None, left |-> <<>>]
NoUnit == [pc |-> "none", tag |-> None]
NoTask == [now |-> None, late |-> {}]
NoFailure == [copy |-> {}, move |-> {}, back |-> {}]

\* The parts of a release, in the order in which they are extracted and swapped.
PartsOf(t) == IF t \in Legacy THEN <<"binary", "site">> ELSE <<"binary", "site", "catalog">>

TypeOK ==
    /\ packaged \in BOOLEAN
    /\ {installed, backup, before} \subseteq [Parts -> Contents]
    /\ server \in [up : BOOLEAN, version : Contents, booted : BOOLEAN]
    /\ slot \in {"idle", "update", "leaked", "watch"}
    /\ dir \in [exists : BOOLEAN, offer : Tags \cup {None}, archives : Tags \cup {None},
                staged : [Parts -> Tags \cup {None}], package : Tags \cup {None}]
    /\ ~dir.exists => dir = NoDir
    /\ script \in Tags \cup {None}
    /\ work \in [pc : {"idle", "resolve", "download", "extract", "script", "spawn",
                       "package", "install", "failed"}, tag : Tags \cup {None}]
    /\ task \in [now : Extractions \cup {None}, late : SUBSET Extractions]
    /\ helper.pc \in {"none", "backup", "swap", "restart", "poll", "restore", "again"}
    /\ helper.tag \in Tags \cup {None} /\ Len(helper.left) <= 3
    /\ unit \in [pc : {"none", "pending", "install", "poll", "exit"}, tag : Tags \cup {None}]
    /\ result \in {"absent", "starting", "running", "ok", "failed"}
    /\ fresh \in BOOLEAN
    /\ check \in [Checks -> [pc : {"idle", "new", "ask", "wait"}, channel : Channels \cup {None},
                             answer : Tags \cup {None}]]
    /\ channel \in Channels
    /\ {swept, cut, orphaned, torn} \subseteq BOOLEAN
    /\ failed \in [copy : SUBSET Parts, move : SUBSET Parts, back : SUBSET Parts]
    /\ count \in [starts : 0 .. MaxStarts, mishaps : 0 .. MaxMishaps,
                  switches : 0 .. MaxSwitches]

Init ==
    /\ packaged \in BOOLEAN
    /\ installed = Same(0)
    /\ backup = Same(None)
    /\ server = [up |-> TRUE, version |-> 0, booted |-> FALSE]
    /\ slot = "idle"
    /\ dir = NoDir
    /\ script = None
    /\ work = Resting
    /\ task = NoTask
    /\ helper = NoScript
    /\ unit = NoUnit
    /\ result = "absent"
    /\ fresh = FALSE
    /\ check = [c \in Checks |-> NoCheck]
    /\ channel = Selected
    /\ before = Same(None)
    /\ swept = FALSE /\ cut = FALSE /\ orphaned = FALSE /\ torn = FALSE
    /\ failed = NoFailure
    /\ count = [starts |-> 0, mishaps |-> 0, switches |-> 0]

Spend(kind, max) == count[kind] < max /\ count' = [count EXCEPT ![kind] = @ + 1]

Mishap == Spend("mishaps", MaxMishaps)

\* Something fails: because it must, or because it may.
FailsIf(must) == (must /\ UNCHANGED count) \/ Mishap

-----------------------------------------------------------------------------
(* The files under /var/tmp and update-result.                             *)

\* nuke_update_dir
Nuke == dir' = NoDir /\ script' = None

\* systemctl show: the unit has started and has not ended.
UnitActive == unit.pc \in {"install", "poll", "exit"}

\* "starting", and within its grace
Grace == result = "starting" /\ fresh

\* What the first read of update-result leaves open: it names a helper, and
\* only systemd knows whether there is one.
Undecided == result = "running" \/ (result = "starting" /\ ~fresh)

\* package_update_running
PackageUpdateRunning == Grace \/ (Undecided /\ UnitActive)

\* Its effect: without a unit, and under the lock of the helper, a result that
\* still names one becomes a failure.
Settle == IF Undecided /\ ~UnitActive THEN "failed" ELSE result

-----------------------------------------------------------------------------
(* start_update.                                                           *)

NewDir(t) == dir' = [NoDir EXCEPT !.exists = TRUE] /\ script' = None
             /\ work' = [pc |-> "resolve", tag |-> t]

\* Mutant: the activity slot is taken for proof that nothing is being installed.
StartUpdateUnasked(t) ==
    /\ server.up /\ server.booted
    /\ work = Resting
    /\ slot = "idle"
    /\ Overruns \/ task.late = {}
    /\ Spend("starts", MaxStarts)
    /\ slot' = "update" /\ NewDir(t)
    /\ UNCHANGED <<packaged, installed, backup, server, task, check, helper, packageVars,
                   channel, history>>

\* The slot is claimed; a package update that is still running refuses this one.
StartUpdate(t) ==
    /\ server.up /\ server.booted
    /\ work = Resting
    /\ slot = "idle"
    /\ Overruns \/ task.late = {}
    /\ Spend("starts", MaxStarts)
    /\ slot' = "update"
    /\ result' = Settle
    /\ IF PackageUpdateRunning
       THEN work' = [pc |-> "failed", tag |-> t] /\ UNCHANGED <<dir, script>>
       ELSE NewDir(t)
    /\ UNCHANGED <<packaged, installed, backup, server, task, check, helper, unit, fresh,
                   channel, history>>

At(pc) == work.pc = pc

To(pc) == work' = [work EXCEPT !.pc = pc]

\* package_manager, resolve_asset_urls; without a package, an old result goes.
Resolve ==
    /\ At("resolve")
    /\ IF packaged THEN To("package") /\ UNCHANGED result
                   ELSE To("download") /\ result' = "absent"
    /\ UNCHANGED <<packaged, fileVars, server, slot, task, check, helper, unit, fresh, channel,
                   history, count>>

\* A check that has looked removes the directory before a download that began
\* after its look is complete: milliseconds against a transfer.
NoCheckDecides == \A c \in Checks : check[c].pc # "ask"

Extracting(x) == task' = [task EXCEPT !.now = x]

\* The archives, each checked against the manifest; then the first extraction.
Download ==
    /\ At("download")
    /\ NoCheckDecides
    /\ dir.exists
    /\ dir' = [dir EXCEPT !.archives = work.tag]
    /\ Extracting([tag |-> work.tag, part |-> "binary"])
    /\ To("extract")
    /\ UNCHANGED <<packaged, installed, backup, script, server, slot, check, helper, packageVars,
                   channel, history, count>>

\* The part that follows in a release, or None.
PartAfter(t, part) ==
    LET s == PartsOf(t)
        i == CHOOSE n \in DOMAIN s : s[n] = part
    IN  IF i = Len(s) THEN None ELSE s[i + 1]

Unpacked(x) == [dir EXCEPT !.exists = TRUE, !.staged[x.part] = x.tag]

\* extract_tarball ends, and start_update goes on to the next part.
Extracted ==
    /\ task.now # None
    /\ dir.archives = task.now.tag
    /\ dir' = Unpacked(task.now)
    /\ LET next == PartAfter(task.now.tag, task.now.part)
       IN  IF next = None THEN Extracting(None) /\ To("script")
                          ELSE Extracting([task.now EXCEPT !.part = next]) /\ UNCHANGED work
    /\ UNCHANGED <<packaged, installed, backup, script, server, slot, check, helper, packageVars,
                   channel, history, count>>

\* An extraction whose request is gone goes on: in vain, or by making its
\* directory again.
LateExtracted ==
    \E x \in task.late :
        /\ task' = [task EXCEPT !.late = @ \ {x}]
        /\ dir' \in {dir, Unpacked(x)}
        /\ UNCHANGED <<packaged, installed, backup, script, server, slot, work, check, helper,
                       packageVars, channel, history, count>>

\* The files that the next step of start_update needs are not there.
FilesGone ==
    \/ work.pc \in {"download", "package"} /\ ~dir.exists
    \/ At("extract") /\ dir.archives # work.tag
    \/ At("script") /\ dir.staged["binary"] = None
    \/ At("install") /\ dir.package # work.tag

\* find_extracted_file, find_extracted_dir_containing, generate_update_script
WriteScript ==
    /\ At("script")
    /\ ~FilesGone
    /\ script' = work.tag
    /\ To("spawn")
    /\ UNCHANGED <<packaged, installed, backup, dir, server, slot, task, check, helper,
                   packageVars, channel, history, count>>

\* systemd-run --scope is not waited for: it starts the script unless that is gone
\* or the scope of an earlier one is still there.  The guard is leaked.
Spawn ==
    /\ At("spawn")
    /\ slot' = "leaked"
    /\ work' = Resting
    /\ IF helper = NoScript /\ script # None
       THEN /\ helper' = [pc |-> "backup", tag |-> script, left |-> <<>>]
            /\ before' = installed
            /\ UNCHANGED orphaned
       ELSE orphaned' = TRUE /\ UNCHANGED <<helper, before>>
    /\ UNCHANGED <<packaged, fileVars, server, task, check, packageVars, channel, swept, cut,
                   wounds, count>>

\* start_package_update: the package, its checksum and the space for it
DownloadPackage ==
    /\ At("package")
    /\ NoCheckDecides
    /\ dir.exists
    /\ dir' = [dir EXCEPT !.package = work.tag]
    /\ To("install")
    /\ UNCHANGED <<packaged, installed, backup, script, server, slot, task, check, helper,
                   packageVars, channel, history, count>>

\* Its metadata, update-result and systemd-run --no-block; a task keeps the guard.
InstallPackage ==
    /\ At("install")
    /\ dir.package = work.tag
    /\ unit = NoUnit
    /\ result' = "starting" /\ fresh' = TRUE
    /\ unit' = [pc |-> "pending", tag |-> work.tag]
    /\ slot' = "watch"
    /\ work' = Resting
    /\ UNCHANGED <<packaged, fileVars, server, task, check, helper, channel, history, count>>

\* systemd-run fails, or the unit of an earlier update has not quite ended.
InstallRefused ==
    /\ At("install")
    /\ FailsIf(unit # NoUnit)
    /\ result' = "failed"
    /\ To("failed")
    /\ UNCHANGED <<packaged, fileVars, server, slot, task, check, helper, unit, fresh, channel,
                   history>>

Orphaned == [now |-> None, late |-> task.late \cup ({task.now} \ {None})]

\* A step finds that its files are gone, or a request, a checksum or a command fails.
StepFails ==
    /\ work.pc \notin {"idle", "failed"}
    /\ FailsIf(FilesGone)
    /\ To("failed")
    /\ Extracting(None)
    /\ UNCHANGED <<packaged, fileVars, server, slot, check, helper, packageVars, channel, history>>

Awaiting == work.pc \in {"resolve", "download", "extract", "script", "package", "install"}

\* UPDATE_TIMEOUT drops start_update_inner, and with it the guard.
TimeOut ==
    /\ Awaiting
    /\ slot' = "idle"
    /\ To("failed")
    /\ task' = Orphaned
    /\ UNCHANGED <<packaged, fileVars, server, check, helper, packageVars, channel, history, count>>

\* Cleanup after a failure or a timeout; the guard is dropped at the latest now.
CleanUp ==
    /\ At("failed")
    /\ result' = Settle
    /\ IF PackageUpdateRunning THEN UNCHANGED <<dir, script>> ELSE Nuke
    /\ slot' = "idle"
    /\ work' = Resting
    /\ UNCHANGED <<packaged, installed, backup, server, task, check, helper, unit, fresh, channel,
                   history, count>>

\* The browser leaves, and the request's future is dropped.
Leave ==
    /\ Awaiting
    /\ slot' = "idle"
    /\ work' = Resting
    /\ task' = Orphaned
    /\ UNCHANGED <<packaged, fileVars, server, check, helper, packageVars, channel, history, count>>

\* Mutant: without a deadline.
WatchEndsOnResult ==
    /\ slot = "watch"
    /\ result \in {"ok", "failed"}
    /\ slot' = "idle"
    /\ UNCHANGED <<packaged, fileVars, server, work, task, check, helper, packageVars, channel,
                   history, count>>

\* The task that keeps the guard sees a result, or at its deadline no helper.
WatchEnds ==
    /\ slot = "watch"
    /\ result \in {"ok", "failed"} \/ ~PackageUpdateRunning
    /\ result' = Settle
    /\ slot' = "idle"
    /\ UNCHANGED <<packaged, fileVars, server, work, task, check, helper, unit, fresh, channel,
                   history, count>>

-----------------------------------------------------------------------------
(* The server process.                                                     *)

Starts(v) == [up |-> v \notin Bad \cup {None, Partial}, version |-> v, booted |-> FALSE]

\* The process ends, and with it everything that it was doing; v is started.
Restarted(s) ==
    /\ server' = s
    /\ slot' = "idle"
    /\ work' = Resting
    /\ task' = NoTask
    /\ check' = [c \in Checks |-> NoCheck]
    /\ orphaned' = FALSE

Down == [up |-> FALSE, version |-> None, booted |-> FALSE]

\* The server crashes.
Crash ==
    /\ server.up
    /\ Mishap
    /\ Restarted(Down)
    /\ UNCHANGED <<packaged, fileVars, helper, packageVars, channel, before, swept, cut, wounds>>

\* The package manager does not get to its end: of binary, catalog and site, in
\* this order, some are replaced, the site, a directory, perhaps halfway.
StoppedInstalling ==
    IF unit.pc = "install" /\ dir.package = unit.tag
    THEN \E done \in {{}, {"binary"}, {"binary", "catalog"}, Parts} :
           /\ installed' = [p \in Parts |->
                               CASE p \in done -> unit.tag
                                 [] p = "site" /\ "catalog" \in done -> Partial
                                 [] OTHER -> installed[p]]
           /\ torn' = (torn \/ installed' # installed)
    ELSE UNCHANGED <<installed, torn>>

\* The power fails: the script and the unit are gone as well.
PowerCut ==
    /\ Mishap
    /\ Restarted(Down)
    /\ helper' = NoScript
    /\ unit' = NoUnit
    /\ StoppedInstalling
    /\ cut' = (cut \/ helper # NoScript)
    /\ before' = Same(None)
    /\ failed' = NoFailure
    /\ UNCHANGED <<packaged, backup, dir, script, result, fresh, channel, swept>>

\* systemd starts the service: at boot, or after a failure.
ServiceStarts ==
    /\ ~server.up
    /\ Starts(installed["binary"]).up
    /\ server' = Starts(installed["binary"])
    /\ UNCHANGED <<packaged, fileVars, slot, work, task, check, helper, packageVars, channel,
                   history, count>>

\* spawn_boot_tasks: when the storage is there
BootTasks ==
    /\ server.up /\ ~server.booted
    /\ server' = [server EXCEPT !.booted = TRUE]
    /\ Nuke
    /\ swept' = (swept \/ helper.pc \in {"backup", "swap"} \/ unit.pc \in {"pending", "install"})
    /\ UNCHANGED <<packaged, installed, backup, slot, work, task, check, helper, packageVars,
                   channel, before, cut, orphaned, wounds, count>>

-----------------------------------------------------------------------------
(* The script of an archive update.                                        *)

\* The script looks at no command's outcome: copies and moves of the parts F fail.
SomeFail(F) ==
    /\ count.mishaps + Cardinality(F) <= MaxMishaps
    /\ count' = [count EXCEPT !.mishaps = @ + Cardinality(F)]

\* Mutant: cp without -a leaves directories out.
HelperBackupFiles ==
    /\ helper.pc = "backup"
    /\ backup' = [p \in Parts |-> IF p = "site" THEN backup[p] ELSE installed[p]]
    /\ helper' = [helper EXCEPT !.pc = "swap", !.left = PartsOf(helper.tag)]
    /\ UNCHANGED <<packaged, installed, dir, script, processVars, packageVars, channel, history, count>>

\* cp -a of each part that is there.  A site.bak that is there already is a
\* directory, and the copy lands inside it.  A copy that fails, for want of space
\* say, leaves no .bak or some of one, and the script goes on.
HelperBackup ==
    /\ helper.pc = "backup"
    /\ \E F \in SUBSET {p \in Parts : installed[p] # None} :
         /\ SomeFail(F)
         /\ failed' = [failed EXCEPT !.copy = F]
         /\ backup' \in [Parts -> Contents]
         /\ \A p \in Parts :
              CASE installed[p] = None \/ (p = "site" /\ backup[p] # None) -> backup'[p] = backup[p]
                [] p \in F -> backup'[p] \in {backup[p], Partial}
                [] OTHER -> backup'[p] = installed[p]
    /\ helper' = [helper EXCEPT !.pc = "swap", !.left = PartsOf(helper.tag)]
    /\ UNCHANGED <<packaged, installed, dir, script, processVars, packageVars, channel, before,
                   swept, cut, orphaned, torn>>

NextSwap ==
    helper' = [helper EXCEPT !.left = Tail(@), !.pc = IF Len(helper.left) = 1 THEN "restart" ELSE @]

\* Mutant: without rm -rf, mv puts a directory inside the one that is there.
HelperSwapInto ==
    /\ helper.pc = "swap"
    /\ LET p == Head(helper.left)
       IN  /\ installed' = IF p = "site" THEN installed ELSE [installed EXCEPT ![p] = dir.staged[p]]
           /\ dir' = [dir EXCEPT !.staged[p] = None]
    /\ NextSwap
    /\ UNCHANGED <<packaged, backup, script, processVars, packageVars, channel, history, count>>

\* rm -rf of the destination, then mv; the source may be gone.
HelperSwap ==
    /\ helper.pc = "swap"
    /\ LET p == Head(helper.left)
       IN  /\ installed' = [installed EXCEPT ![p] = dir.staged[p]]
           /\ dir' = [dir EXCEPT !.staged[p] = None]
    /\ NextSwap
    /\ UNCHANGED <<packaged, backup, script, processVars, packageVars, channel, history, count>>

\* The mv fails, and the script goes on.
HelperSwapFails ==
    /\ helper.pc = "swap"
    /\ Mishap
    /\ LET p == Head(helper.left)
       IN  /\ \E v \in {None, Partial} : installed' = [installed EXCEPT ![p] = v]
           /\ failed' = [failed EXCEPT !.move = @ \cup {p}]
    /\ NextSwap
    /\ UNCHANGED <<packaged, backup, dir, script, processVars, packageVars, channel, before, swept,
                   cut, orphaned, torn>>

HelperRestart ==
    /\ helper.pc = "restart"
    /\ Restarted(Starts(installed["binary"]))
    /\ helper' = [helper EXCEPT !.pc = "poll"]
    /\ UNCHANGED <<packaged, fileVars, packageVars, channel, before, swept, cut, wounds, count>>

HelperDone == Nuke /\ helper' = NoScript /\ before' = Same(None) /\ failed' = NoFailure

\* /api/version answers, which takes the binary alone.
HelperHealthy ==
    /\ helper.pc = "poll"
    /\ server.up
    /\ backup' = Same(None)
    /\ torn' = (failed.move # {})
    /\ HelperDone
    /\ UNCHANGED <<packaged, installed, processVars, packageVars, channel, swept, cut, orphaned,
                   count>>

\* Thirty attempts in vain.
HelperUnhealthy ==
    /\ helper.pc = "poll"
    /\ FailsIf(~server.up)
    /\ helper' = [helper EXCEPT !.pc = "restore"]
    /\ UNCHANGED <<packaged, fileVars, processVars, packageVars, channel, history>>

\* rm -rf and mv of each part that has a .bak.
HelperRestore ==
    /\ helper.pc = "restore"
    /\ \E F \in SUBSET {p \in Parts : backup[p] # None} :
         /\ SomeFail(F)
         /\ failed' = [failed EXCEPT !.back = F]
         /\ installed' = [p \in Parts |-> CASE backup[p] = None -> installed[p]
                                            [] p \in F -> None
                                            [] OTHER -> backup[p]]
         /\ backup' = [p \in Parts |-> IF p \in F THEN backup[p] ELSE None]
    /\ helper' = [helper EXCEPT !.pc = "again"]
    /\ UNCHANGED <<packaged, dir, script, processVars, packageVars, channel, before, swept, cut,
                   orphaned, torn>>

HelperRestartAgain ==
    /\ helper.pc = "again"
    /\ Restarted(Starts(installed["binary"]))
    /\ HelperDone
    /\ torn' = (torn \/ failed.copy \cup failed.back # {})
    /\ cut' = (cut \/ failed.back # {})
    /\ UNCHANGED <<packaged, installed, backup, packageVars, channel, swept, count>>

-----------------------------------------------------------------------------
(* The unit of a package update.                                           *)

\* The helper's first act.
UnitStart ==
    /\ unit.pc = "pending"
    /\ unit' = [unit EXCEPT !.pc = "install"]
    /\ result' = "running"
    /\ UNCHANGED <<packaged, fileVars, processVars, helper, fresh, channel, history, count>>

\* The package manager installs and restarts the service.
UnitInstall ==
    /\ unit.pc = "install"
    /\ dir.package = unit.tag
    /\ installed' = Same(unit.tag)
    /\ torn' = FALSE
    /\ Restarted(Starts(unit.tag))
    /\ unit' = [unit EXCEPT !.pc = "poll"]
    /\ UNCHANGED <<packaged, backup, dir, script, helper, result, fresh, channel, before, swept, cut,
                   failed, count>>

UnitWrites(r) ==
    /\ result' = r
    /\ unit' = [unit EXCEPT !.pc = "exit"]
    /\ UNCHANGED <<packaged, backup, dir, script, processVars, helper, fresh, channel, before, swept,
                   cut, orphaned, failed>>

\* The package manager fails, or the package is gone.
UnitInstallFails ==
    /\ unit.pc = "install"
    /\ FailsIf(dir.package # unit.tag)
    /\ StoppedInstalling
    /\ UnitWrites("failed")

\* The new version answers.
UnitHealthy ==
    /\ unit.pc = "poll"
    /\ server.up /\ server.version = unit.tag
    /\ UnitWrites("ok")
    /\ UNCHANGED <<installed, torn, count>>

UnitUnhealthy ==
    /\ unit.pc = "poll"
    /\ FailsIf(~server.up)
    /\ UnitWrites("failed")
    /\ UNCHANGED <<installed, torn>>

UnitRemoves == dir' = IF dir.package = unit.tag THEN [dir EXCEPT !.package = None] ELSE dir

\* The exit trap.
UnitExit ==
    /\ unit.pc = "exit"
    /\ UnitRemoves
    /\ unit' = NoUnit
    /\ UNCHANGED <<packaged, installed, backup, script, processVars, helper, result, fresh, channel,
                   history, count>>

\* The unit is stopped, and its trap runs.
UnitStopped ==
    /\ unit.pc \in {"install", "poll"}
    /\ Mishap
    /\ result' = IF result = "running" THEN "failed" ELSE result
    /\ UnitRemoves
    /\ unit' = NoUnit
    /\ StoppedInstalling
    /\ UNCHANGED <<packaged, backup, script, processVars, helper, fresh, channel, before, swept, cut,
                   orphaned, failed>>

\* The unit is killed.
UnitKilled ==
    /\ unit.pc \in {"install", "poll"}
    /\ Mishap
    /\ unit' = NoUnit
    /\ StoppedInstalling
    /\ UNCHANGED <<packaged, backup, dir, script, processVars, helper, result, fresh, channel, before,
                   swept, cut, orphaned, failed>>

\* Thirty seconds pass.  systemd starts a unit it has accepted within them.
GraceEnds ==
    /\ fresh
    /\ unit.pc # "pending"
    /\ fresh' = FALSE
    /\ UNCHANGED <<packaged, fileVars, processVars, helper, unit, result, channel, history, count>>

-----------------------------------------------------------------------------
(* Checks for a release.                                                   *)

\* check_github_update
Offer(ch) == IF Latest[ch] > server.version THEN Latest[ch] ELSE None

\* write_available_update
Written(d, v) == IF v = None THEN d ELSE [d EXCEPT !.exists = TRUE, !.offer = v]

Waiting == [pc |-> "wait", channel |-> channel, answer |-> None]

\* The check goes on as rec, after nuke_update_dir unless an install is active,
\* and after writing the answer v.
Proceed(c, rec, active, v) ==
    /\ check' = [check EXCEPT ![c] = rec]
    /\ dir' = Written(IF active THEN dir ELSE NoDir, v)
    /\ script' = IF active THEN script ELSE None

\* Mutant: update-result alone says whether an install is active.
ConsiderResult(c, rec, v, asked) ==
    /\ IF Undecided
       THEN check' = [check EXCEPT ![c] = asked] /\ UNCHANGED <<dir, script>>
       ELSE Proceed(c, rec, Grace, v)
    /\ UNCHANGED <<packaged, installed, backup, server, slot, work, task, helper, packageVars,
                   channel, history, count>>

\* update_install_active: the slot, then update-result, then, when that leaves it
\* open, systemd.  asked is the state of a check that has to ask.
Consider(c, rec, v, asked) ==
    /\ IF slot = "idle" /\ Undecided
       THEN check' = [check EXCEPT ![c] = asked] /\ UNCHANGED <<dir, script>>
       ELSE Proceed(c, rec, slot # "idle" \/ Grace, v)
    /\ UNCHANGED <<packaged, installed, backup, server, slot, work, task, helper, packageVars,
                   channel, history, count>>

\* check_for_updates, and the check after a change of the channel
ManualStart(c) ==
    /\ server.up /\ server.booted
    /\ c \in Manuals
    /\ check[c].pc = IF c \in Savers THEN "new" ELSE "idle"
    /\ Consider(c, Waiting, None, [NoCheck EXCEPT !.pc = "ask"])

\* update_check_loop
LoopStart ==
    /\ server.up /\ server.booted
    /\ check["loop"].pc = "idle"
    /\ check' = [check EXCEPT !["loop"] = Waiting]
    /\ UNCHANGED <<packaged, fileVars, server, slot, work, task, helper, packageVars, channel,
                   history, count>>

\* Mutant: what the first read said stands, whatever the file says by now.
AskedUnread(c) ==
    /\ check[c].pc = "ask"
    /\ result' = IF UnitActive THEN result ELSE "failed"
    /\ Proceed(c, IF c \in Manuals THEN Waiting ELSE NoCheck, UnitActive \/ Grace, check[c].answer)
    /\ UNCHANGED <<packaged, installed, backup, server, slot, work, task, helper, unit, fresh,
                   channel, history, count>>

\* systemd has answered.
Asked(c) ==
    /\ check[c].pc = "ask"
    /\ result' = Settle
    /\ Proceed(c, IF c \in Manuals THEN Waiting ELSE NoCheck, UnitActive \/ Grace, check[c].answer)
    /\ UNCHANGED <<packaged, installed, backup, server, slot, work, task, helper, unit, fresh,
                   channel, history, count>>

\* GitHub answers a manual check; what it says is written.
ManualAnswer(c) ==
    /\ c \in Manuals
    /\ check[c].pc = "wait"
    /\ check' = [check EXCEPT ![c] = NoCheck]
    /\ dir' = Written(dir, Offer(check[c].channel))
    /\ UNCHANGED <<packaged, installed, backup, script, server, slot, work, task, helper,
                   packageVars, channel, history, count>>

\* Mutant: without a release to offer there is nothing to do.
LoopAnswerKeeping ==
    /\ check["loop"].pc = "wait"
    /\ LET v == Offer(check["loop"].channel)
       IN  IF v # None /\ check["loop"].channel = channel
           THEN Consider("loop", NoCheck, v, [NoCheck EXCEPT !.pc = "ask", !.answer = v])
           ELSE /\ check' = [check EXCEPT !["loop"] = NoCheck]
                /\ UNCHANGED <<packaged, fileVars, server, slot, work, task, helper, packageVars,
                               channel, history, count>>

\* GitHub answers the loop.  A release of a channel that is not the selected one
\* any more is dropped.
LoopAnswer ==
    /\ check["loop"].pc = "wait"
    /\ LET v == Offer(check["loop"].channel)
       IN  IF v = None \/ check["loop"].channel = channel
           THEN Consider("loop", NoCheck, v, [NoCheck EXCEPT !.pc = "ask", !.answer = v])
           ELSE /\ check' = [check EXCEPT !["loop"] = NoCheck]
                /\ UNCHANGED <<packaged, fileVars, server, slot, work, task, helper, packageVars,
                               channel, history, count>>

\* GitHub does not answer.
CheckFails(c) ==
    /\ check[c].pc = "wait"
    /\ Mishap
    /\ check' = [check EXCEPT ![c] = NoCheck]
    /\ UNCHANGED <<packaged, fileVars, server, slot, work, task, helper, packageVars, channel, history>>

\* save_update_channel, which spawns a check
SaveChannel(c, ch) ==
    /\ server.up /\ server.booted
    /\ c \in Savers /\ check[c] = NoCheck
    /\ ch # channel
    /\ Spend("switches", MaxSwitches)
    /\ channel' = ch
    /\ check' = [check EXCEPT ![c].pc = "new"]
    /\ UNCHANGED <<packaged, fileVars, server, slot, work, task, helper, packageVars, history>>

-----------------------------------------------------------------------------
UpdateStep ==
    \/ Resolve \/ Download \/ Extracted \/ WriteScript \/ Spawn
    \/ DownloadPackage \/ InstallPackage \/ InstallRefused \/ StepFails \/ TimeOut \/ CleanUp

HelperStep ==
    \/ HelperBackup \/ HelperSwap \/ HelperSwapFails \/ HelperRestart \/ HelperHealthy
    \/ HelperUnhealthy \/ HelperRestore \/ HelperRestartAgain

UnitStep ==
    \/ UnitStart \/ UnitInstall \/ UnitInstallFails \/ UnitHealthy \/ UnitUnhealthy \/ UnitExit
    \/ UnitStopped \/ UnitKilled

CheckStep(c) == ManualStart(c) \/ Asked(c) \/ ManualAnswer(c) \/ CheckFails(c)

LoopStep == LoopStart \/ LoopAnswer \/ Asked("loop")

Next ==
    \/ \E t \in Tags : StartUpdate(t)
    \/ UpdateStep \/ LateExtracted \/ Leave \/ WatchEnds
    \/ HelperStep \/ UnitStep \/ GraceEnds
    \/ Crash \/ PowerCut \/ ServiceStarts \/ BootTasks
    \/ \E c \in Checks : CheckStep(c)
    \/ LoopStart \/ LoopAnswer
    \/ \E c \in Manuals, ch \in Channels : SaveChannel(c, ch)

Spec == Init /\ [][Next]_vars

\* start_update has a timeout, the script and the unit bounded loops, the check
\* loop a timer, and time passes.
FairSpec ==
    /\ Spec
    /\ WF_vars(UpdateStep)
    /\ WF_vars(HelperStep)
    /\ WF_vars(UnitStep)
    /\ WF_vars(WatchEnds)
    /\ WF_vars(LoopStep)
    /\ WF_vars(GraceEnds)

-----------------------------------------------------------------------------
(* Properties.                                                             *)

\* What the script and the package manager have failed to do and have not made good.
Incomplete ==
    CASE helper.pc = "swap" -> TRUE
      [] helper.pc \in {"restart", "poll", "restore"} -> failed.move # {}
      [] helper.pc = "again" -> torn \/ failed.copy \cup failed.back # {}
      [] OTHER -> torn

\* "Performs file swap, restart, health check, and rollback on failure": outside the
\* script's swap, binary, site and catalog are of one release, whatever fails
\* and whoever restarts.  A mv that fails is covered as soon as the rollback is
\* through, a failing cp as long as no rollback needs the copy.  Excepted are what
\* the script does not notice, a mv that failed although the new binary answers and a
\* rollback without its copies; a package manager stopped halfway; a power cut
\* under the script; and a restart of the server that removes what the script has
\* yet to move.
InstalledIsWhole ==
    ~cut /\ ~swept /\ ~Incomplete =>
        /\ installed["site"] = installed["binary"]
        /\ installed["binary"] \notin Legacy => installed["catalog"] = installed["binary"]

\* A script that gives up leaves every part that it found and could copy as it
\* found it, also when the files it was to install had gone or could not be moved, and
\* whichever other parts it could not copy.  Excepted are a part whose .bak
\* could not be put back, and a .bak from an earlier script that did not get
\* to its end.
RollbackRestores ==
    helper.pc = "again" /\ ~cut =>
        \A p \in Parts \ (failed.copy \cup failed.back) :
            before[p] # None => installed[p] = before[p]

\* "an observed ok/failed result wins that race": success that the package helper has
\* recorded is not replaced by a server that had read the file before; only
\* the next update starts a new result.
ResultIsKept ==
    [][result = "ok" /\ result' # "ok" => work.pc \in {"resolve", "install"}]_vars

\* While the package helper works its result is "running": no restarted server, no check
\* and no second update declares it dead, and no second update gets past its
\* first look.
HelperOwnsResult ==
    /\ unit.pc \in {"install", "poll"} => result = "running"
    /\ unit.pc \in {"pending", "install", "poll"} => work.pc \in {"idle", "failed"}

\* The package stays until the package manager has it, and the staged files until the
\* script has moved them, although start_update has returned by then: checks
\* and second updates find the slot or update-result taken.  Excepted are the
\* boot tasks of a server that crashed meanwhile.
NeededIsKept ==
    ~swept =>
        /\ unit.pc \in {"pending", "install"} => dir.package = unit.tag
        /\ helper.pc = "swap" =>
               \A i \in DOMAIN helper.left : dir.staged[helper.left[i]] = helper.tag

\* An update gives the activity slot back or its process ends, unless the script that
\* was to end the process never started.
SlotReturns == slot # "idle" ~> (slot = "idle" \/ orphaned)

\* A manual check that was under way when the channel changed can write the release of
\* the old channel; the loop puts that right, so that in the end the banner
\* offers what the selected channel has.
OfferConverges ==
    <>[](server.up /\ server.booted /\ slot = "idle" => dir.offer \in {None, Offer(channel)})
=============================================================================
