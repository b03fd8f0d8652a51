------------------------ MODULE SlotAndUpdateProofs ------------------------
(***************************************************************************)
(* The activity slot, and the self-update, which is the one client that    *)
(* leaks its guard and leaves the slot to the end of the process.          *)
(*                                                                         *)
(* The first part is about SelfUpdate: for any releases, channels and      *)
(* checks and any number of starts, mishaps and restarts.  The second is   *)
(* about ActivitySlot: for any number of tasks, workers and browsers and   *)
(* any channel capacity.                                                   *)
(***************************************************************************)
EXTENDS SelfUpdate, ActivitySlot, FiniteSetTheorems, TLAPS

-----------------------------------------------------------------------------
(* The shape of a state.                                                   *)

\* Files hold versions, whole or in part.
FileTypes ==
    /\ installed \in [Parts -> Contents]
    /\ backup \in [Parts -> Contents]
    /\ before \in [Parts -> Contents]

\* The lists of parts that the script of release t still has to move.
Lists(t) ==
    IF t \in Legacy THEN {<<"binary", "site">>, <<"site">>}
                    ELSE {<<"binary", "site", "catalog">>, <<"site", "catalog">>, <<"catalog">>}

\* Where the script is.
ScriptPcs == {"none", "backup", "swap", "restart", "poll", "restore", "again"}

\* The script has a release from its start to its end, and while it swaps, parts to move.
HelperShape ==
    \/ helper = NoScript
    \/ \E t \in Tags : \E l \in Lists(t) : helper = [pc |-> "swap", tag |-> t, left |-> l]
    \/ \E t \in Tags, pc \in ScriptPcs \ {"none", "swap"} :
          helper = [pc |-> pc, tag |-> t, left |-> <<>>]

\* Directories.
Dirs == [exists : BOOLEAN, offer : Tags \cup {None}, archives : Tags \cup {None},
         staged : [Parts -> Tags \cup {None}], package : Tags \cup {None}]

\* One that is not there has nothing in it.
DirTypes ==
    /\ dir \in Dirs
    /\ ~dir.exists => dir = NoDir
    /\ script \in Tags \cup {None}

\* The unit has a release from its request to its end.
UnitShape ==
    \/ unit = NoUnit
    \/ \E t \in Tags, pc \in {"pending", "install", "poll", "exit"} : unit = [pc |-> pc, tag |-> t]

\* The unit and update-result.
PackageTypes ==
    /\ UnitShape
    /\ result \in {"absent", "starting", "running", "ok", "failed"}
    /\ fresh \in BOOLEAN
    /\ packaged \in BOOLEAN

\* start_update has a release and its own extraction exactly while it is at work,
\* and from its claim to its end the slot.
WorkShape ==
    /\ work.pc = "idle" => work = Resting
    /\ work.pc # "idle" => work.tag \in Tags
    /\ work.pc \notin {"idle", "failed"} => slot = "update"
    /\ slot \in {"leaked", "watch"} => work.pc = "idle"
    /\ task.now # None <=> work.pc = "extract"
    /\ work.pc = "extract" =>
           task.now.tag = work.tag /\ (work.tag \in Legacy => task.now.part # "catalog")

\* Until its boot tasks have run, a server does nothing.
ServerShape ==
    /\ server.up => server.version \in Versions
    /\ server.booted => server.up
    /\ ~server.booted => work = Resting /\ slot = "idle" /\ task = NoTask

\* The server and what runs in it.
ProcessTypes ==
    /\ server \in [up : BOOLEAN, version : Contents, booted : BOOLEAN]
    /\ slot \in {"idle", "update", "leaked", "watch"}
    /\ work \in [pc : {"idle", "resolve", "download", "extract", "script", "spawn",
                       "package", "install", "failed"}, tag : Tags \cup {None}]
    /\ task \in [now : Extractions \cup {None}, late : SUBSET Extractions]
    /\ WorkShape
    /\ ServerShape

\* The checks, of a booted server only.
CheckTypes ==
    /\ check \in [Checks -> [pc : {"idle", "new", "ask", "wait"}, channel : Channels \cup {None},
                             answer : Tags \cup {None}]]
    /\ \A c \in Checks : check[c].pc = "wait" => check[c].channel \in Channels
    /\ ~server.booted => \A c \in Checks : check[c] = NoCheck

\* The settings, the history and the counters.
OtherTypes ==
    /\ channel \in Channels
    /\ swept \in BOOLEAN /\ cut \in BOOLEAN /\ orphaned \in BOOLEAN /\ torn \in BOOLEAN
    /\ failed \in [copy : SUBSET Parts, move : SUBSET Parts, back : SUBSET Parts]
    /\ count \in [starts : 0 .. MaxStarts, mishaps : 0 .. MaxMishaps,
                  switches : 0 .. MaxSwitches]

\* The type invariant.
Shape ==
    /\ FileTypes /\ HelperShape /\ DirTypes /\ PackageTypes
    /\ ProcessTypes /\ CheckTypes /\ OtherTypes

-----------------------------------------------------------------------------
(* What each step leaves alone.                                            *)

\* Only the script, the package manager and a power cut touch what is installed.
LEMMA FilesFrame ==
    ASSUME [Next]_vars
    PROVE  \/ UNCHANGED <<packaged, installed, backup, before, helper, cut, wounds>>
           \/ Spawn \/ HelperStep \/ UnitInstall \/ PowerCut
           \/ StoppedInstalling /\ UNCHANGED <<packaged, backup, before, helper, cut, failed>>
  <1> DEFINE F == UNCHANGED <<packaged, installed, backup, before, helper, cut, wounds>>
  <1> USE DEF fileVars, packageVars, processVars, history
  <1>1. ASSUME NEW t \in Tags, StartUpdate(t) PROVE F
    BY <1>1 DEF StartUpdate
  <1>2. UpdateStep \/ LateExtracted \/ Leave \/ WatchEnds => F \/ Spawn
    BY DEF UpdateStep, Resolve, Download, Extracted, WriteScript, DownloadPackage,
        InstallPackage, InstallRefused, StepFails, TimeOut, CleanUp, LateExtracted, Leave,
        WatchEnds
  <1>3. UnitStep \/ GraceEnds =>
           \/ F
           \/ UnitInstall
           \/ StoppedInstalling /\ UNCHANGED <<packaged, backup, before, helper, cut, failed>>
    <2>1. UnitInstallFails \/ UnitStopped \/ UnitKilled
             => StoppedInstalling /\ UNCHANGED <<packaged, backup, before, helper, cut, failed>>
      BY DEF UnitInstallFails, UnitStopped, UnitKilled, UnitWrites
    <2>2. UnitStart \/ UnitExit \/ GraceEnds => F
      BY DEF UnitStart, UnitExit, GraceEnds
    <2>3. UnitHealthy \/ UnitUnhealthy => F
      BY DEF UnitHealthy, UnitUnhealthy, UnitWrites, wounds
    <2> QED
      BY <2>1, <2>2, <2>3 DEF UnitStep
  <1>4. Crash \/ ServiceStarts \/ BootTasks \/ LoopStart \/ LoopAnswer => F
    BY DEF Crash, ServiceStarts, BootTasks, LoopStart, LoopAnswer, Consider
  <1>5. ASSUME NEW c \in Checks, CheckStep(c) PROVE F
    BY <1>5 DEF CheckStep, ManualStart, Consider, Asked, ManualAnswer, CheckFails
  <1>6. ASSUME NEW c \in Manuals, NEW ch \in Channels, SaveChannel(c, ch) PROVE F
    BY <1>6 DEF SaveChannel
  <1>7. UNCHANGED vars => F
    BY DEF vars
  <1> QED
    BY <1>1, <1>2, <1>3, <1>4, <1>5, <1>6, <1>7 DEF Next

\* Who touches the unit and update-result.
LEMMA PackageFrame ==
    ASSUME [Next]_vars
    PROVE  \/ UNCHANGED <<unit, result, fresh, packaged>>
           \/ \E t \in Tags : StartUpdate(t)
           \/ Resolve \/ InstallPackage \/ InstallRefused \/ CleanUp \/ WatchEnds
           \/ UnitStep \/ GraceEnds \/ PowerCut
           \/ \E c \in Checks : Asked(c)
  <1> DEFINE F == UNCHANGED <<unit, result, fresh, packaged>>
  <1> USE DEF fileVars, packageVars, processVars, history
  <1>1. UpdateStep \/ LateExtracted \/ Leave
          => F \/ Resolve \/ InstallPackage \/ InstallRefused \/ CleanUp
    BY DEF UpdateStep, Download, Extracted, WriteScript, DownloadPackage, Spawn, StepFails,
        TimeOut, LateExtracted, Leave
  <1>2. HelperStep => F
    BY DEF HelperStep, HelperBackup, HelperSwap, HelperSwapFails, HelperRestart, HelperHealthy,
        HelperUnhealthy, HelperRestore, HelperRestartAgain
  <1>4. Crash \/ ServiceStarts \/ BootTasks \/ LoopStart \/ LoopAnswer => F
    BY DEF Crash, ServiceStarts, BootTasks, LoopStart, LoopAnswer, Consider
  <1>5. ASSUME NEW c \in Checks, CheckStep(c) PROVE F \/ Asked(c)
    BY <1>5 DEF CheckStep, ManualStart, Consider, ManualAnswer, CheckFails
  <1>6. ASSUME NEW c \in Manuals, NEW ch \in Channels, SaveChannel(c, ch) PROVE F
    BY <1>6 DEF SaveChannel
  <1>7. UNCHANGED vars => F
    BY DEF vars
  <1> QED
    BY <1>1, <1>2, <1>4, <1>5, <1>6, <1>7 DEF Next

\* Who touches UPDATE_DIR and the script in it.
LEMMA DirFrame ==
    ASSUME [Next]_vars
    PROVE  \/ UNCHANGED <<dir, script>>
           \/ \E t \in Tags : StartUpdate(t)
           \/ Download \/ Extracted \/ WriteScript \/ DownloadPackage \/ CleanUp \/ LateExtracted
           \/ HelperSwap \/ HelperHealthy \/ HelperRestartAgain
           \/ UnitExit \/ UnitStopped \/ BootTasks \/ LoopAnswer
           \/ \E c \in Checks : ManualStart(c) \/ Asked(c) \/ ManualAnswer(c)
  <1> DEFINE F == UNCHANGED <<dir, script>>
  <1> USE DEF fileVars, packageVars, processVars, history
  <1>1. UpdateStep \/ Leave \/ WatchEnds
          => F \/ Download \/ Extracted \/ WriteScript \/ DownloadPackage \/ CleanUp
    BY DEF UpdateStep, Resolve, Spawn, InstallPackage, InstallRefused, StepFails, TimeOut,
        Leave, WatchEnds
  <1>2. HelperStep => F \/ HelperSwap \/ HelperHealthy \/ HelperRestartAgain
    BY DEF HelperStep, HelperBackup, HelperSwapFails, HelperRestart, HelperUnhealthy, HelperRestore
  <1>3. UnitStep \/ GraceEnds => F \/ UnitExit \/ UnitStopped
    BY DEF UnitStep, UnitStart, UnitInstall, UnitInstallFails, UnitHealthy, UnitUnhealthy,
        UnitKilled, UnitWrites, GraceEnds
  <1>4. Crash \/ PowerCut \/ ServiceStarts \/ LoopStart => F
    BY DEF Crash, PowerCut, ServiceStarts, LoopStart
  <1>5. ASSUME NEW c \in Checks, CheckStep(c)
        PROVE  F \/ ManualStart(c) \/ Asked(c) \/ ManualAnswer(c)
    BY <1>5 DEF CheckStep, CheckFails
  <1>6. ASSUME NEW c \in Manuals, NEW ch \in Channels, SaveChannel(c, ch) PROVE F
    BY <1>6 DEF SaveChannel
  <1>7. UNCHANGED vars => F
    BY DEF vars
  <1> QED
    BY <1>1, <1>2, <1>3, <1>4, <1>5, <1>6, <1>7 DEF Next

\* Who touches the server, the slot, start_update and its extractions.
LEMMA ProcessFrame ==
    ASSUME [Next]_vars
    PROVE  \/ UNCHANGED <<server, slot, work, task>>
           \/ \E t \in Tags : StartUpdate(t)
           \/ UpdateStep \/ LateExtracted \/ Leave \/ WatchEnds
           \/ HelperRestart \/ HelperRestartAgain \/ UnitInstall
           \/ Crash \/ PowerCut \/ ServiceStarts \/ BootTasks
  <1> DEFINE F == UNCHANGED <<server, slot, work, task>>
  <1> USE DEF fileVars, packageVars, processVars, history
  <1>2. HelperStep => F \/ HelperRestart \/ HelperRestartAgain
    BY DEF HelperStep, HelperBackup, HelperSwap, HelperSwapFails, HelperHealthy, HelperUnhealthy, HelperRestore
  <1>3. UnitStep \/ GraceEnds => F \/ UnitInstall
    BY DEF UnitStep, UnitStart, UnitInstallFails, UnitHealthy, UnitUnhealthy, UnitExit,
        UnitStopped, UnitKilled, UnitWrites, GraceEnds
  <1>4. LoopStart \/ LoopAnswer => F
    BY DEF LoopStart, LoopAnswer, Consider
  <1>5. ASSUME NEW c \in Checks, CheckStep(c) PROVE F
    BY <1>5 DEF CheckStep, ManualStart, Consider, Asked, ManualAnswer, CheckFails
  <1>6. ASSUME NEW c \in Manuals, NEW ch \in Channels, SaveChannel(c, ch) PROVE F
    BY <1>6 DEF SaveChannel
  <1>7. UNCHANGED vars => F
    BY DEF vars
  <1> QED
    BY <1>2, <1>3, <1>4, <1>5, <1>6, <1>7 DEF Next

\* Who touches the checks, and what happens to booted meanwhile.
LEMMA CheckFrame ==
    ASSUME [Next]_vars
    PROVE  \/ UNCHANGED check /\ (server'.booted <=> server.booted)
           \/ UNCHANGED check /\ server' = [server EXCEPT !.booted = TRUE]
           \/ UNCHANGED check /\ server.booted' = FALSE /\ ServiceStarts
           \/ check' = [c \in Checks |-> NoCheck]
           \/ LoopStart \/ LoopAnswer
           \/ \E c \in Checks : CheckStep(c)
           \/ \E c \in Manuals, ch \in Channels : SaveChannel(c, ch)
  <1> DEFINE F == UNCHANGED <<server, check>>
  <1> USE DEF fileVars, packageVars, processVars, history, Restarted
  <1>0. ASSUME NEW t \in Tags, StartUpdate(t) PROVE F
    BY <1>0 DEF StartUpdate
  <1>1. UpdateStep \/ LateExtracted \/ Leave \/ WatchEnds => F
    BY DEF UpdateStep, Resolve, Download, Extracted, WriteScript, DownloadPackage,
        InstallPackage, Spawn, InstallRefused, StepFails, TimeOut, CleanUp, LateExtracted,
        Leave, WatchEnds
  <1>2. HelperStep => F \/ check' = [c \in Checks |-> NoCheck]
    BY DEF HelperStep, HelperBackup, HelperSwap, HelperSwapFails, HelperHealthy, HelperUnhealthy,
        HelperRestore, HelperRestart, HelperRestartAgain
  <1>3. UnitStep \/ GraceEnds => F \/ check' = [c \in Checks |-> NoCheck]
    BY DEF UnitStep, UnitStart, UnitInstall, UnitInstallFails, UnitHealthy, UnitUnhealthy,
        UnitExit, UnitStopped, UnitKilled, UnitWrites, GraceEnds
  <1>4. Crash \/ PowerCut => check' = [c \in Checks |-> NoCheck]
    BY DEF Crash, PowerCut
  <1>5. ServiceStarts => UNCHANGED check /\ server'.booted = FALSE
    BY DEF ServiceStarts, Starts
  <1>6. BootTasks => UNCHANGED check /\ server' = [server EXCEPT !.booted = TRUE]
    BY DEF BootTasks
  <1>7. UNCHANGED vars => F
    BY DEF vars
  <1> QED
    BY <1>0, <1>1, <1>2, <1>3, <1>4, <1>5, <1>6, <1>7 DEF Next

-----------------------------------------------------------------------------
(* Types.                                                                  *)

\* Releases are versions, and None is none of them.
LEMMA UpdateTypes ==
    /\ \A t \in Tags : t \in Versions /\ t \in Nat
    /\ \A t \in Versions : t \in Nat /\ (t # 0 => t \in Tags)
    /\ 0 \in Versions
    /\ None \notin Versions /\ None \notin Parts /\ None \notin Tags
    /\ None \in Contents /\ Partial \in Contents /\ \A t \in Versions : t \in Contents
    /\ \A v \in Contents \ {None, Partial} : v \in Versions
    /\ Partial \notin Versions /\ None # Partial
  BY UpdateAssumption DEF UpdateAssumption, Tags, Versions, Contents, Partial

\* The files keep their types: a part that is moved was staged or backed up.
LEMMA FileTypesStep == ASSUME Shape, [Next]_vars PROVE FileTypes'
  <1> USE UpdateTypes DEF Shape, FileTypes, Same
  <1>1. CASE UNCHANGED <<packaged, installed, backup, before, helper, cut, wounds>>
    BY <1>1
  <1>2. CASE Spawn
    BY <1>2 DEF Spawn, fileVars
  <1>3. CASE HelperSwap
    <2>1. dir.staged \in [Parts -> Contents]
      BY DEF DirTypes, Dirs
    <2> QED
      BY <1>3, <2>1 DEF HelperSwap, history
  <1>3a. CASE HelperSwapFails
    <2>1. PICK v \in {None, Partial} : installed' = [installed EXCEPT ![Head(helper.left)] = v]
      BY <1>3a DEF HelperSwapFails
    <2>2. v \in Contents
      OBVIOUS
    <2>3. installed' \in [Parts -> Contents]
      BY <2>1, <2>2
    <2> QED
      BY <1>3a, <2>3 DEF HelperSwapFails
  <1>3b. CASE HelperBackup
    BY <1>3b DEF HelperBackup
  <1>3c. CASE HelperRestore
    <2>1. UNCHANGED before
      BY <1>3c DEF HelperRestore
    <2>2. PICK F \in SUBSET Parts :
             /\ installed' = [p \in Parts |-> CASE backup[p] = None -> installed[p]
                                               [] p \in F -> None
                                               [] OTHER -> backup[p]]
             /\ backup' = [p \in Parts |-> IF p \in F THEN backup[p] ELSE None]
      BY <1>3c DEF HelperRestore
    <2> QED
      BY <2>1, <2>2
  <1>4. CASE HelperRestart \/ HelperHealthy \/ HelperUnhealthy \/ HelperRestartAgain
    BY <1>4 DEF HelperRestart, HelperHealthy, HelperUnhealthy, HelperRestartAgain, HelperDone,
        history, fileVars
  <1>5. CASE UnitInstall
    <2>1. unit.tag \in Versions
      BY <1>5 DEF UnitInstall, PackageTypes, UnitShape, NoUnit
    <2> QED
      BY <1>5, <2>1 DEF UnitInstall
  <1>6. ASSUME StoppedInstalling PROVE installed' \in [Parts -> Contents]
    <2>1. CASE UNCHANGED installed
      BY <2>1
    <2>2. CASE unit.pc = "install"
      <3>1. unit.tag \in Contents
        BY <2>2 DEF PackageTypes, UnitShape, NoUnit
      <3> QED
        BY <1>6, <2>2, <3>1 DEF StoppedInstalling
    <2> QED
      BY <1>6, <2>1, <2>2 DEF StoppedInstalling
  <1>7. CASE PowerCut
    BY <1>6, <1>7 DEF PowerCut
  <1>8. CASE StoppedInstalling /\ UNCHANGED <<packaged, backup, before, helper, cut, failed>>
    BY <1>6, <1>8
  <1> QED
    BY <1>1, <1>2, <1>3, <1>3a, <1>3b, <1>3c, <1>4, <1>5, <1>7, <1>8, FilesFrame DEF HelperStep

\* The parts of a release, taken one by one.
LEMMA ListShapes ==
    ASSUME NEW t \in Tags
    PROVE  /\ PartsOf(t) \in Lists(t)
           /\ \A l \in Lists(t) :
                 /\ l \in Seq(Parts) /\ Len(l) <= 3
                 /\ Head(l) \in Parts
                 /\ IF Len(l) = 1 THEN Tail(l) = <<>> ELSE Tail(l) \in Lists(t)
  <1>1. PartsOf(t) \in Lists(t)
    BY DEF PartsOf, Lists
  <1>2. ASSUME NEW x \in Parts, NEW y \in Parts, NEW z \in Parts
        PROVE  /\ <<x, y, z>> \in Seq(Parts) /\ <<x, y>> \in Seq(Parts) /\ <<x>> \in Seq(Parts)
               /\ Len(<<x, y, z>>) = 3 /\ Len(<<x, y>>) = 2 /\ Len(<<x>>) = 1
               /\ Head(<<x, y, z>>) = x /\ Head(<<x, y>>) = x /\ Head(<<x>>) = x
               /\ Tail(<<x, y, z>>) = <<y, z>> /\ Tail(<<x, y>>) = <<y>> /\ Tail(<<x>>) = <<>>
    OBVIOUS
  <1>3. PICK b \in Parts, s \in Parts, c \in Parts : b = "binary" /\ s = "site" /\ c = "catalog"
    BY DEF Parts
  <1>4. CASE t \in Legacy
    <2>1. Lists(t) = {<<b, s>>, <<s>>}
      BY <1>3, <1>4 DEF Lists
    <2>2. <<s>> \in Lists(t)
      BY <2>1
    <2> QED
      BY <1>1, <1>2, <2>1, <2>2
  <1>5. CASE t \notin Legacy
    <2>1. Lists(t) = {<<b, s, c>>, <<s, c>>, <<c>>}
      BY <1>3, <1>5 DEF Lists
    <2>2. <<s, c>> \in Lists(t) /\ <<c>> \in Lists(t)
      BY <2>1
    <2> QED
      BY <1>1, <1>2, <2>1, <2>2
  <1> QED
    BY <1>4, <1>5

\* The script has parts to move exactly while it swaps.
LEMMA HelperShapeStep == ASSUME Shape, [Next]_vars PROVE HelperShape'
  <1> USE UpdateTypes DEF Shape
  <1>1. CASE UNCHANGED <<packaged, installed, backup, before, helper, cut, wounds>>
    BY <1>1 DEF HelperShape
  <1>2. CASE Spawn
    BY <1>2 DEF Spawn, HelperShape, DirTypes, ScriptPcs
  <1>3. CASE HelperSwap \/ HelperSwapFails
    <2>1. PICK t \in Tags : \E l \in Lists(t) : helper = [pc |-> "swap", tag |-> t, left |-> l]
      BY <1>3 DEF HelperSwap, HelperSwapFails, HelperShape, NoScript, ScriptPcs
    <2>1a. PICK l \in Lists(t) : helper = [pc |-> "swap", tag |-> t, left |-> l]
      BY <2>1
    <2>2. helper' = [pc |-> IF Len(l) = 1 THEN "restart" ELSE "swap", tag |-> t, left |-> Tail(l)]
      BY <1>3, <2>1a DEF HelperSwap, HelperSwapFails, NextSwap
    <2> QED
      BY <2>2, ListShapes DEF HelperShape, ScriptPcs
  <1>4. CASE HelperBackup
    <2>1. PICK t \in Tags : helper = [pc |-> "backup", tag |-> t, left |-> <<>>]
      BY <1>4 DEF HelperBackup, HelperShape, NoScript, ScriptPcs
    <2>2. helper' = [pc |-> "swap", tag |-> t, left |-> PartsOf(t)]
      BY <1>4, <2>1 DEF HelperBackup
    <2> QED
      BY <2>2, ListShapes DEF HelperShape
  <1>5. CASE HelperRestart \/ HelperUnhealthy \/ HelperRestore
    <2>1. PICK t \in Tags, pc \in ScriptPcs \ {"none", "swap"} :
             helper = [pc |-> pc, tag |-> t, left |-> <<>>]
      BY <1>5 DEF HelperRestart, HelperUnhealthy, HelperRestore, HelperShape, NoScript,
          ScriptPcs
    <2>2. \E q \in {"poll", "restore", "again"} : helper' = [pc |-> q, tag |-> t, left |-> <<>>]
      BY <1>5, <2>1 DEF HelperRestart, HelperUnhealthy, HelperRestore
    <2> QED
      BY <2>2 DEF HelperShape, ScriptPcs
  <1>6. CASE HelperHealthy \/ HelperRestartAgain \/ PowerCut
    BY <1>6 DEF HelperHealthy, HelperRestartAgain, HelperDone, PowerCut, HelperShape
  <1>7. CASE UnitInstall
    BY <1>7 DEF UnitInstall, HelperShape
  <1>8. CASE UNCHANGED helper
    BY <1>8 DEF HelperShape
  <1> QED
    BY <1>1, <1>2, <1>3, <1>4, <1>5, <1>6, <1>7, <1>8, FilesFrame DEF HelperStep

\* The unit has a release from its request to its end.
LEMMA PackageTypesStep == ASSUME Shape, [Next]_vars PROVE PackageTypes'
  <1> USE UpdateTypes DEF Shape, PackageTypes
  <1>0. Settle \in {"absent", "starting", "running", "ok", "failed"}
    BY DEF Settle
  <1>1. CASE UNCHANGED <<unit, result, fresh, packaged>>
    BY <1>1 DEF UnitShape
  <1>2. ASSUME \/ \E t \in Tags : StartUpdate(t)
               \/ Resolve \/ InstallRefused \/ CleanUp \/ WatchEnds \/ GraceEnds
               \/ \E c \in Checks : Asked(c)
        PROVE  PackageTypes'
    BY <1>0, <1>2 DEF StartUpdate, Resolve, InstallRefused, CleanUp, WatchEnds, GraceEnds,
        Asked, UnitShape
  <1>3. CASE InstallPackage
    <2>1. work.tag \in Tags
      BY <1>3 DEF InstallPackage, At, ProcessTypes, WorkShape
    <2> QED
      BY <1>3, <2>1 DEF InstallPackage, UnitShape
  <1>4. CASE UnitStart \/ UnitInstall \/ UnitInstallFails \/ UnitHealthy \/ UnitUnhealthy
    <2>1. PICK t \in Tags, pc \in {"pending", "install", "poll", "exit"} :
             unit = [pc |-> pc, tag |-> t]
      BY <1>4 DEF UnitStart, UnitInstall, UnitInstallFails, UnitHealthy, UnitUnhealthy,
          UnitShape, NoUnit
    <2>2. \E q \in {"install", "poll", "exit"} : unit' = [pc |-> q, tag |-> t]
      BY <1>4, <2>1 DEF UnitStart, UnitInstall, UnitInstallFails, UnitHealthy, UnitUnhealthy,
          UnitWrites
    <2> QED
      BY <1>4, <2>2 DEF UnitStart, UnitInstall, UnitInstallFails, UnitHealthy, UnitUnhealthy,
          UnitWrites, UnitShape
  <1>5. CASE UnitExit \/ UnitStopped \/ UnitKilled \/ PowerCut
    BY <1>5 DEF UnitExit, UnitStopped, UnitKilled, PowerCut, UnitShape
  <1> QED
    BY <1>1, <1>2, <1>3, <1>4, <1>5, PackageFrame DEF UnitStep

\* What follows a part in a release.
LEMMA NextPart ==
    ASSUME NEW t \in Tags
    PROVE  /\ PartAfter(t, "binary") = "site"
           /\ PartAfter(t, "site") = IF t \in Legacy THEN None ELSE "catalog"
           /\ t \notin Legacy => PartAfter(t, "catalog") = None
  <1>1. CASE t \in Legacy
    BY <1>1 DEF PartAfter, PartsOf
  <1>2. CASE t \notin Legacy
    BY <1>2 DEF PartAfter, PartsOf
  <1> QED
    BY <1>1, <1>2

\* What a check may offer is a release, newer than a version that is at least 0.
LEMMA OfferTypes ==
    ASSUME Shape, server.booted, NEW ch \in Channels
    PROVE  Offer(ch) \in Tags \cup {None}
  <1>1. server.version \in Nat /\ Latest[ch] \in Versions /\ Latest[ch] \in Nat
    BY UpdateAssumption, UpdateTypes DEF UpdateAssumption, Shape, ProcessTypes, ServerShape
  <1>2. server.version >= 0
    BY <1>1
  <1> QED
    BY <1>1, <1>2, UpdateTypes DEF Offer

\* An empty directory, and none at all, are directories.
LEMMA NoDirTypes ==
    /\ NoDir \in Dirs
    /\ NoDir.exists = FALSE
    /\ [NoDir EXCEPT !.exists = TRUE] \in Dirs
    /\ [NoDir EXCEPT !.exists = TRUE].exists = TRUE
  <1>1. Same(None) \in [Parts -> Tags \cup {None}]
    BY DEF Same
  <1> QED
    BY <1>1 DEF NoDir, Dirs

\* Writing an answer into a directory, or into none, gives a directory.
LEMMA WrittenTypes ==
    ASSUME NEW v \in Tags \cup {None}, DirTypes, NEW d \in {dir, NoDir}
    PROVE  /\ Written(d, v) \in Dirs
           /\ ~Written(d, v).exists => Written(d, v) = NoDir
  <1>1. d \in Dirs /\ (~d.exists => d = NoDir)
    BY NoDirTypes DEF DirTypes
  <1>2. [d EXCEPT !.exists = TRUE, !.offer = v] \in Dirs
           /\ [d EXCEPT !.exists = TRUE, !.offer = v].exists
    BY <1>1 DEF Dirs
  <1> QED
    BY <1>1, <1>2 DEF Written

\* A check that goes on leaves a directory.
LEMMA ProceedTypes ==
    ASSUME Shape, NEW c, NEW rec, NEW active \in BOOLEAN, NEW v \in Tags \cup {None},
           Proceed(c, rec, active, v)
    PROVE  DirTypes'
  <1>1. \E d \in {dir, NoDir} : dir' = Written(d, v)
    BY DEF Proceed
  <1>2. script' \in Tags \cup {None}
    BY DEF Proceed, Shape, DirTypes
  <1> QED
    BY <1>1, <1>2, WrittenTypes DEF DirTypes, Shape

\* So does one that looks first.
LEMMA ConsiderTypes ==
    ASSUME Shape, NEW c, NEW rec, NEW asked, NEW v \in Tags \cup {None},
           Consider(c, rec, v, asked)
    PROVE  DirTypes'
  <1>1. CASE slot = "idle" /\ Undecided
    BY <1>1 DEF Consider, Shape, DirTypes
  <1>2. CASE ~(slot = "idle" /\ Undecided)
    <2>1. Proceed(c, rec, slot # "idle" \/ Grace, v)
      BY <1>2 DEF Consider
    <2>2. (slot # "idle" \/ Grace) \in BOOLEAN
      BY DEF Grace, Shape, PackageTypes
    <2> QED
      BY <2>1, <2>2, ProceedTypes
  <1> QED
    BY <1>1, <1>2

\* Only a server whose boot tasks have run checks anything.
LEMMA ChecksAreBooted ==
    ASSUME Shape, NEW c \in Checks, check[c].pc # "idle"
    PROVE  server.booted
  BY DEF Shape, CheckTypes, NoCheck

\* UPDATE_DIR stays a directory, or none with nothing in it.
LEMMA DirTypesStep == ASSUME Shape, [Next]_vars PROVE DirTypes'
  <1> USE UpdateTypes DEF Shape
  <1>0. "loop" \in Checks /\ Manuals \subseteq Checks
    BY DEF Checks
  <1>1. CASE UNCHANGED <<dir, script>>
    BY <1>1 DEF DirTypes
  <1>2. ASSUME NEW t \in Tags, StartUpdate(t) PROVE DirTypes'
    BY <1>2, NoDirTypes DEF StartUpdate, NewDir, DirTypes
  <1>3. CASE Download
    BY <1>3 DEF Download, DirTypes, Dirs, ProcessTypes
  <1>4. CASE Extracted \/ LateExtracted
    <2>1. \/ UNCHANGED dir
          \/ \E x \in Extractions : dir' = Unpacked(x)
      BY <1>4 DEF Extracted, LateExtracted, ProcessTypes
    <2>2. ASSUME NEW x \in Extractions, dir' = Unpacked(x) PROVE DirTypes'
      BY <1>4, <2>2 DEF Unpacked, DirTypes, Dirs, Extractions, Extracted, LateExtracted
    <2> QED
      BY <1>4, <2>1, <2>2 DEF DirTypes, Extracted, LateExtracted
  <1>5. CASE WriteScript \/ DownloadPackage
    BY <1>5 DEF WriteScript, DownloadPackage, DirTypes, Dirs, ProcessTypes
  <1>6. CASE CleanUp \/ HelperHealthy \/ HelperRestartAgain \/ BootTasks
    BY <1>6, NoDirTypes DEF CleanUp, HelperHealthy, HelperRestartAgain, BootTasks, HelperDone,
        Nuke, DirTypes
  <1>7. CASE HelperSwap
    <2>1. Head(helper.left) \in Parts
      BY <1>7, ListShapes DEF HelperSwap, HelperShape, NoScript, ScriptPcs
    <2>2. dir' = [dir EXCEPT !.staged[Head(helper.left)] = None] /\ UNCHANGED script
      BY <1>7 DEF HelperSwap
    <2>3. dir' \in Dirs /\ dir'.exists = dir.exists
      BY <2>1, <2>2 DEF DirTypes, Dirs
    <2>4. ~dir.exists => dir' = dir
      <3> SUFFICES ASSUME ~dir.exists PROVE dir' = dir
        OBVIOUS
      <3>1. dir = NoDir /\ dir.staged = Same(None)
        BY DEF DirTypes, NoDir
      <3>2. dir.staged[Head(helper.left)] = None
        BY <2>1, <3>1 DEF Same
      <3> QED
        BY <2>1, <2>2, <3>2 DEF DirTypes, Dirs
    <2> QED
      BY <2>2, <2>3, <2>4 DEF DirTypes
  <1>8. CASE UnitExit \/ UnitStopped
    BY <1>8 DEF UnitExit, UnitStopped, UnitRemoves, DirTypes, Dirs, NoDir
  <1>9. CASE LoopAnswer
    <2>1. Offer(check["loop"].channel) \in Tags \cup {None}
      BY <1>0, <1>9, ChecksAreBooted, OfferTypes DEF LoopAnswer, CheckTypes
    <2>2. \/ UNCHANGED <<dir, script>>
          \/ \E rec, asked : Consider("loop", rec, Offer(check["loop"].channel), asked)
      BY <1>9 DEF LoopAnswer, fileVars
    <2> QED
      BY <2>1, <2>2, ConsiderTypes DEF DirTypes
  <1>10. ASSUME NEW c \in Checks, ManualStart(c) PROVE DirTypes'
    <2>1. None \in Tags \cup {None}
      OBVIOUS
    <2>2. \E rec, asked : Consider(c, rec, None, asked)
      BY <1>10 DEF ManualStart
    <2> QED
      BY <2>1, <2>2, ConsiderTypes
  <1>11. ASSUME NEW c \in Checks, Asked(c) PROVE DirTypes'
    <2>1. check[c].answer \in Tags \cup {None} /\ (UnitActive \/ Grace) \in BOOLEAN
      BY DEF CheckTypes, UnitActive, Grace, PackageTypes
    <2>2. \E rec : Proceed(c, rec, UnitActive \/ Grace, check[c].answer)
      BY <1>11 DEF Asked
    <2> QED
      BY <2>1, <2>2, ProceedTypes
  <1>12. ASSUME NEW c \in Checks, ManualAnswer(c) PROVE DirTypes'
    <2>1. Offer(check[c].channel) \in Tags \cup {None}
      BY <1>12, ChecksAreBooted, OfferTypes DEF ManualAnswer, CheckTypes
    <2> QED
      BY <1>12, <2>1, WrittenTypes DEF ManualAnswer, DirTypes
  <1> QED
    BY <1>1, <1>2, <1>3, <1>4, <1>5, <1>6, <1>7, <1>8, <1>9, <1>10, <1>11, <1>12, DirFrame

\* A server that ends, or starts, has nothing under way.
LEMMA RestartTypes ==
    ASSUME Shape, NEW v \in Contents, Restarted(Starts(v)) \/ Restarted(Down)
    PROVE  ProcessTypes' /\ ~server'.booted /\ check' = [c \in Checks |-> NoCheck]
  <1>1. Resting = [pc |-> "idle", tag |-> None] /\ NoTask.now = None /\ NoTask.late = {}
        /\ NoTask \in [now : Extractions \cup {None}, late : SUBSET Extractions]
    BY DEF Resting, NoTask
  <1>2. /\ Starts(v) \in [up : BOOLEAN, version : Contents, booted : BOOLEAN]
        /\ Starts(v).up => Starts(v).version \in Versions
        /\ ~Starts(v).booted
    BY UpdateTypes DEF Starts
  <1>3. Down \in [up : BOOLEAN, version : Contents, booted : BOOLEAN]
           /\ ~Down.up /\ ~Down.booted
    BY UpdateTypes DEF Down
  <1>4. /\ slot' = "idle" /\ work' = Resting /\ task' = NoTask
        /\ check' = [c \in Checks |-> NoCheck]
        /\ server' \in {Starts(v), Down}
    BY DEF Restarted
  <1> QED
    BY <1>1, <1>2, <1>3, <1>4 DEF ProcessTypes, WorkShape, ServerShape

\* start_update, its extraction, the slot and the server go on in step.
LEMMA ProcessTypesStep == ASSUME Shape, [Next]_vars PROVE ProcessTypes'
  <1> USE UpdateTypes DEF Shape
  <1>1. CASE UNCHANGED <<server, slot, work, task>>
    BY <1>1 DEF ProcessTypes, WorkShape, ServerShape
  <1>2. ASSUME NEW t \in Tags, StartUpdate(t) PROVE ProcessTypes'
    BY <1>2 DEF StartUpdate, NewDir, ProcessTypes, WorkShape, ServerShape, Resting
  <1>3. CASE Resolve \/ WriteScript \/ DownloadPackage \/ InstallRefused
    BY <1>3 DEF Resolve, WriteScript, DownloadPackage, InstallRefused, At, To, ProcessTypes,
        WorkShape, ServerShape, Resting
  <1>4. CASE Download
    <2>1. [tag |-> work.tag, part |-> "binary"] \in Extractions
      BY <1>4 DEF Download, At, ProcessTypes, WorkShape, Extractions, Parts
    <2>2. [tag |-> work.tag, part |-> "binary"] # None
      BY <2>1, UpdateAssumption DEF UpdateAssumption
    <2> QED
      BY <1>4, <2>1, <2>2 DEF Download, At, To, Extracting, ProcessTypes, WorkShape,
          ServerShape, Resting
  <1>5. CASE Extracted
    <2>1. task.now \in Extractions /\ work.pc = "extract" /\ task.now.tag = work.tag
             /\ work.tag \in Tags
      BY <1>5 DEF Extracted, ProcessTypes, WorkShape
    <2> DEFINE next == PartAfter(task.now.tag, task.now.part)
    <2>2. next = None \/ (next \in Parts /\ (work.tag \in Legacy => next # "catalog"))
      BY <2>1, NextPart DEF ProcessTypes, WorkShape, Extractions, Parts
    <2>3. CASE next = None
      BY <1>5, <2>1, <2>3 DEF Extracted, Extracting, To, ProcessTypes, WorkShape, ServerShape,
          Resting
    <2>4. CASE next # None
      <3>1. PICK x : x = [task.now EXCEPT !.part = next]
        OBVIOUS
      <3>2. x \in Extractions /\ x.tag = work.tag /\ (work.tag \in Legacy => x.part # "catalog")
        BY <3>1, <2>1, <2>2, <2>4 DEF Extractions
      <3>3. x # None
        BY <3>2, UpdateAssumption DEF UpdateAssumption
      <3>4. task' = [task EXCEPT !.now = x] /\ UNCHANGED <<server, slot, work>>
        BY <1>5, <2>4, <3>1 DEF Extracted, Extracting
      <3> QED
        BY <2>1, <3>2, <3>3, <3>4 DEF ProcessTypes, WorkShape, ServerShape, Resting
    <2> QED
      BY <2>3, <2>4
  <1>6. CASE Spawn \/ InstallPackage \/ CleanUp \/ StepFails
    BY <1>6 DEF Spawn, InstallPackage, CleanUp, StepFails, At, To, Extracting, ProcessTypes,
        WorkShape, ServerShape, Resting
  <1>7. CASE TimeOut \/ Leave
    <2>1. Orphaned \in [now : Extractions \cup {None}, late : SUBSET Extractions]
             /\ Orphaned.now = None
      BY DEF Orphaned, ProcessTypes
    <2>2. UNCHANGED server /\ task' = Orphaned /\ slot' = "idle" /\ server.booted
      BY <1>7 DEF TimeOut, Leave, Awaiting, ProcessTypes, ServerShape, Resting
    <2> QED
      BY <1>7, <2>1, <2>2 DEF TimeOut, Leave, Awaiting, To, ProcessTypes, WorkShape,
          ServerShape, Resting
  <1>8. CASE LateExtracted
    BY <1>8 DEF LateExtracted, ProcessTypes, WorkShape, ServerShape, NoTask
  <1>9. CASE WatchEnds
    BY <1>9 DEF WatchEnds, ProcessTypes, WorkShape, ServerShape
  <1>10. CASE HelperRestart \/ HelperRestartAgain \/ UnitInstall \/ Crash \/ PowerCut
    <2>1. installed["binary"] \in Contents
      BY DEF FileTypes, Parts
    <2>2. unit.tag \in Contents
      BY DEF PackageTypes, UnitShape, NoUnit
    <2> QED
      BY <1>10, <2>1, <2>2, RestartTypes DEF HelperRestart, HelperRestartAgain, UnitInstall,
          Crash, PowerCut
  <1>11. CASE ServiceStarts
    <2>1. installed["binary"] \in Contents
      BY DEF FileTypes, Parts
    <2> QED
      BY <1>11, <2>1 DEF ServiceStarts, Starts, ProcessTypes, WorkShape, ServerShape
  <1>12. CASE BootTasks
    BY <1>12 DEF BootTasks, ProcessTypes, WorkShape, ServerShape
  <1> QED
    BY <1>1, <1>2, <1>3, <1>4, <1>5, <1>6, <1>7, <1>8, <1>9, <1>10, <1>11, <1>12, ProcessFrame
      DEF UpdateStep

\* A check that waits knows its channel, and only a booted server checks.
LEMMA CheckTypesStep == ASSUME Shape, [Next]_vars PROVE CheckTypes'
  <1> USE UpdateTypes DEF Shape
  <1> DEFINE Rec == [pc : {"idle", "new", "ask", "wait"}, channel : Channels \cup {None},
                     answer : Tags \cup {None}]
             Fit(r) == r \in Rec /\ (r.pc = "wait" => r.channel \in Channels)
  <1>0. /\ "loop" \in Checks /\ Manuals \subseteq Checks
        /\ server.booted \in BOOLEAN
        /\ \A c \in Checks : Fit(check[c])
    BY DEF Checks, ProcessTypes, CheckTypes
  <1>1. Fit(NoCheck) /\ Fit(Waiting) /\ Fit([NoCheck EXCEPT !.pc = "ask"])
    BY DEF NoCheck, Waiting, OtherTypes
  <1>2. ASSUME NEW c \in Checks, NEW r, Fit(r), check' = [check EXCEPT ![c] = r], server'.booted
        PROVE  CheckTypes'
    BY <1>2 DEF CheckTypes
  <1>3. CASE UNCHANGED check /\ (server'.booted <=> server.booted)
    BY <1>3 DEF CheckTypes
  <1>4. CASE UNCHANGED check /\ server' = [server EXCEPT !.booted = TRUE]
    BY <1>4 DEF CheckTypes, ProcessTypes
  <1>5. CASE UNCHANGED check /\ server'.booted = FALSE /\ ServiceStarts
    <2>1. ~server.booted
      BY <1>5 DEF ServiceStarts, ProcessTypes, ServerShape
    <2> QED
      BY <1>5, <2>1 DEF CheckTypes
  <1>6. CASE check' = [c \in Checks |-> NoCheck]
    BY <1>1, <1>6 DEF CheckTypes
  <1>7. CASE LoopStart
    BY <1>0, <1>1, <1>2, <1>7 DEF LoopStart
  <1>8. CASE LoopAnswer
    <2>1. server.booted /\ UNCHANGED server
      BY <1>0, <1>8, ChecksAreBooted DEF LoopAnswer, Consider
    <2>2. Offer(check["loop"].channel) \in Tags \cup {None}
      BY <1>0, <1>8, <2>1, OfferTypes DEF LoopAnswer, CheckTypes
    <2>3. PICK v \in Tags \cup {None} : v = Offer(check["loop"].channel)
      BY <2>2
    <2>4. Fit([NoCheck EXCEPT !.pc = "ask", !.answer = v])
      BY DEF NoCheck
    <2>5. \E r \in {NoCheck, [NoCheck EXCEPT !.pc = "ask", !.answer = v]} :
             check' = [check EXCEPT !["loop"] = r]
      BY <1>8, <2>3 DEF LoopAnswer, Consider, Proceed
    <2> QED
      <3>1. PICK r : Fit(r) /\ check' = [check EXCEPT !["loop"] = r]
        BY <1>1, <2>4, <2>5
      <3> HIDE DEF Fit
      <3> QED
        BY <1>0, <1>2, <2>1, <3>1
  <1>9. ASSUME NEW c \in Checks, CheckStep(c) PROVE CheckTypes'
    <2>1. server.booted /\ UNCHANGED server
      BY <1>9, ChecksAreBooted DEF CheckStep, ManualStart, Asked, ManualAnswer, CheckFails,
          Consider
    <2>2. \E r \in {NoCheck, Waiting, [NoCheck EXCEPT !.pc = "ask"]} :
             check' = [check EXCEPT ![c] = r]
      BY <1>9 DEF CheckStep, ManualStart, Asked, ManualAnswer, CheckFails, Consider, Proceed
    <2> QED
      BY <1>1, <1>2, <2>1, <2>2
  <1>10. ASSUME NEW c \in Manuals, NEW ch \in Channels, SaveChannel(c, ch) PROVE CheckTypes'
    <2>1. check' = [check EXCEPT ![c] = [NoCheck EXCEPT !.pc = "new"]] /\ server'.booted
      BY <1>0, <1>10 DEF SaveChannel, CheckTypes
    <2>2. Fit([NoCheck EXCEPT !.pc = "new"])
      BY DEF NoCheck
    <2> QED
      BY <1>0, <1>2, <2>1, <2>2
  <1> QED
    BY <1>3, <1>4, <1>5, <1>6, <1>7, <1>8, <1>9, <1>10, CheckFrame

\* What is counted stays within its bound.
LEMMA SpendTypes ==
    ASSUME OtherTypes, \/ FailsIf(TRUE) \/ Mishap \/ Spend("starts", MaxStarts)
                       \/ Spend("switches", MaxSwitches)
                       \/ \E F \in SUBSET Parts : SomeFail(F)
    PROVE  count' \in [starts : 0 .. MaxStarts, mishaps : 0 .. MaxMishaps,
                       switches : 0 .. MaxSwitches]
  <1>1. CASE FailsIf(TRUE) \/ Mishap \/ Spend("starts", MaxStarts) \/ Spend("switches", MaxSwitches)
    BY <1>1, UpdateAssumption DEF UpdateAssumption, OtherTypes, FailsIf, Mishap, Spend
  <1>2. ASSUME NEW F \in SUBSET Parts, SomeFail(F)
        PROVE  count' \in [starts : 0 .. MaxStarts, mishaps : 0 .. MaxMishaps,
                           switches : 0 .. MaxSwitches]
    <2>1. IsFiniteSet(Parts)
      <3>1. IsFiniteSet({} \cup {"binary"})
        BY FS_EmptySet, FS_AddElement
      <3>2. IsFiniteSet(({} \cup {"binary"}) \cup {"site"})
        BY <3>1, FS_AddElement
      <3>3. IsFiniteSet((({} \cup {"binary"}) \cup {"site"}) \cup {"catalog"})
        BY <3>2, FS_AddElement
      <3>4. Parts = (({} \cup {"binary"}) \cup {"site"}) \cup {"catalog"}
        BY DEF Parts
      <3> QED
        BY <3>3, <3>4
    <2>2. Cardinality(F) \in Nat
      BY <2>1, FS_Subset, FS_CardinalityType
    <2> QED
      BY <1>2, <2>2, UpdateAssumption DEF UpdateAssumption, OtherTypes, SomeFail
  <1> QED
    BY <1>1, <1>2

\* The channel, the history and the counters keep their types.
LEMMA OtherTypesStep == ASSUME Shape, [Next]_vars PROVE OtherTypes'
  <1> DEFINE Counted == UNCHANGED count \/ Mishap \/ Spend("starts", MaxStarts)
                             \/ Spend("switches", MaxSwitches)
                             \/ \E F \in SUBSET Parts : SomeFail(F)
             H == /\ swept' \in BOOLEAN /\ cut' \in BOOLEAN /\ orphaned' \in BOOLEAN
                  /\ torn' \in BOOLEAN
                  /\ failed' \in [copy : SUBSET Parts, move : SUBSET Parts, back : SUBSET Parts]
  <1> USE DEF wounds, Shape, OtherTypes, fileVars, packageVars, processVars, history, Restarted
  <1>1. ASSUME NEW t \in Tags, StartUpdate(t) PROVE UNCHANGED <<channel, history>> /\ Counted
    BY <1>1 DEF StartUpdate
  <1>2. UpdateStep \/ LateExtracted \/ Leave \/ WatchEnds => H /\ UNCHANGED channel /\ Counted
    BY DEF UpdateStep, Resolve, Download, Extracted, WriteScript, Spawn, DownloadPackage,
        InstallPackage, InstallRefused, StepFails, TimeOut, CleanUp, LateExtracted, Leave,
        WatchEnds, FailsIf
  <1>3. HelperStep => H /\ UNCHANGED channel /\ Counted
    <2>1. CASE HelperBackup
      <3>1. UNCHANGED <<channel, swept, cut, orphaned, torn>>
        BY <2>1 DEF HelperBackup
      <3>2. PICK F \in SUBSET Parts : SomeFail(F) /\ failed' = [failed EXCEPT !.copy = F]
        BY <2>1 DEF HelperBackup
      <3>3. failed' \in [copy : SUBSET Parts, move : SUBSET Parts, back : SUBSET Parts]
        BY <3>2
      <3> QED
        BY <3>1, <3>2, <3>3
    <2>2. CASE HelperSwapFails
      <3>1. Head(helper.left) \in Parts
        BY <2>2, ListShapes DEF HelperSwapFails, HelperShape, NoScript, ScriptPcs
      <3>2. /\ UNCHANGED <<channel, swept, cut, orphaned, torn>> /\ Mishap
            /\ failed' = [failed EXCEPT !.move = @ \cup {Head(helper.left)}]
        BY <2>2 DEF HelperSwapFails
      <3>3. failed' \in [copy : SUBSET Parts, move : SUBSET Parts, back : SUBSET Parts]
        BY <3>1, <3>2
      <3> QED
        BY <3>2, <3>3
    <2>3. CASE HelperRestore
      <3>1. UNCHANGED <<channel, swept, cut, orphaned, torn>>
        BY <2>3 DEF HelperRestore
      <3>2. PICK F \in SUBSET Parts : SomeFail(F) /\ failed' = [failed EXCEPT !.back = F]
        BY <2>3 DEF HelperRestore
      <3>3. failed' \in [copy : SUBSET Parts, move : SUBSET Parts, back : SUBSET Parts]
        BY <3>2
      <3> QED
        BY <3>1, <3>2, <3>3
    <2>4a. NoFailure \in [copy : SUBSET Parts, move : SUBSET Parts, back : SUBSET Parts]
      BY DEF NoFailure
    <2>4. CASE HelperHealthy \/ HelperRestartAgain
      <3>1. UNCHANGED <<channel, swept, count>> /\ failed' = NoFailure /\ orphaned' \in BOOLEAN
        BY <2>4 DEF HelperHealthy, HelperRestartAgain, HelperDone
      <3>2. torn' \in BOOLEAN
        BY <2>4 DEF HelperHealthy, HelperRestartAgain
      <3>3. cut' \in BOOLEAN
        BY <2>4 DEF HelperHealthy, HelperRestartAgain
      <3> QED
        BY <2>4a, <3>1, <3>2, <3>3
    <2>5. HelperSwap \/ HelperRestart \/ HelperUnhealthy => H /\ UNCHANGED channel /\ Counted
      BY DEF HelperSwap, HelperRestart, HelperUnhealthy, FailsIf
    <2> QED
      BY <2>1, <2>2, <2>3, <2>4, <2>5 DEF HelperStep
  <1>4a. StoppedInstalling => torn' \in BOOLEAN
    BY DEF StoppedInstalling
  <1>4. UnitStep \/ GraceEnds => H /\ UNCHANGED channel /\ Counted
    <2>1. UnitInstallFails \/ UnitStopped \/ UnitKilled => H /\ UNCHANGED channel /\ Counted
      BY <1>4a DEF UnitInstallFails, UnitStopped, UnitKilled, UnitWrites, FailsIf
    <2>2. UnitStart \/ UnitExit \/ GraceEnds => H /\ UNCHANGED channel /\ Counted
      BY DEF UnitStart, UnitExit, GraceEnds
    <2>3. UnitInstall \/ UnitHealthy \/ UnitUnhealthy => H /\ UNCHANGED channel /\ Counted
      BY DEF UnitInstall, UnitHealthy, UnitUnhealthy, UnitWrites, FailsIf
    <2> QED
      BY <2>1, <2>2, <2>3 DEF UnitStep
  <1>5. Crash \/ PowerCut \/ ServiceStarts \/ BootTasks => H /\ UNCHANGED channel /\ Counted
    <2>1. Crash \/ ServiceStarts => H /\ UNCHANGED channel /\ Counted
      BY DEF Crash, ServiceStarts
    <2>2. BootTasks => H /\ UNCHANGED channel /\ Counted
      BY DEF BootTasks
    <2>3. CASE PowerCut
      <3>1. /\ UNCHANGED <<channel, swept>> /\ orphaned' = FALSE /\ StoppedInstalling
            /\ cut' \in BOOLEAN /\ failed' = NoFailure /\ Mishap
        BY <2>3 DEF PowerCut
      <3>2. NoFailure \in [copy : SUBSET Parts, move : SUBSET Parts, back : SUBSET Parts]
        BY DEF NoFailure
      <3> QED
        BY <1>4a, <3>1, <3>2
    <2> QED
      BY <2>1, <2>2, <2>3
  <1>6. ASSUME NEW c \in Checks, CheckStep(c) PROVE UNCHANGED <<channel, history>> /\ Counted
    BY <1>6 DEF CheckStep, ManualStart, Consider, Asked, ManualAnswer, CheckFails
  <1>7. LoopStart \/ LoopAnswer => UNCHANGED <<channel, history>> /\ Counted
    BY DEF LoopStart, LoopAnswer, Consider
  <1>8. ASSUME NEW c \in Manuals, NEW ch \in Channels, SaveChannel(c, ch)
        PROVE  channel' \in Channels /\ UNCHANGED history /\ Counted
    BY <1>8 DEF SaveChannel
  <1>9. UNCHANGED vars => UNCHANGED <<channel, history>> /\ Counted
    BY DEF vars
  <1>10. channel' \in Channels /\ H /\ Counted
    BY <1>1, <1>2, <1>3, <1>4, <1>5, <1>6, <1>7, <1>8, <1>9 DEF Next
  <1> QED
    BY <1>10, SpendTypes

\* All that holds initially.
LEMMA ShapeInit == Init => Shape
  <1> SUFFICES ASSUME Init PROVE Shape
    OBVIOUS
  <1> USE UpdateTypes DEF Init
  <1>1. FileTypes
    BY DEF FileTypes, Same
  <1>2. HelperShape /\ PackageTypes
    BY DEF HelperShape, PackageTypes, UnitShape
  <1>3. DirTypes
    BY NoDirTypes DEF DirTypes
  <1>4. ProcessTypes
    BY DEF ProcessTypes, WorkShape, ServerShape, Resting, NoTask
  <1>5. CheckTypes
    BY DEF CheckTypes, NoCheck
  <1>6. OtherTypes
    <2>1. MaxStarts \in Nat /\ MaxMishaps \in Nat /\ MaxSwitches \in Nat /\ Selected \in Channels
      BY UpdateAssumption DEF UpdateAssumption
    <2>2. 0 \in 0 .. MaxStarts /\ 0 \in 0 .. MaxMishaps /\ 0 \in 0 .. MaxSwitches
      BY <2>1
    <2>3. count = [starts |-> 0, mishaps |-> 0, switches |-> 0]
      OBVIOUS
    <2>4. swept = FALSE /\ cut = FALSE /\ orphaned = FALSE /\ channel = Selected
      OBVIOUS
    <2>5. count \in [starts : 0 .. MaxStarts, mishaps : 0 .. MaxMishaps,
                     switches : 0 .. MaxSwitches]
      BY <2>2, <2>3
    <2>6. swept \in BOOLEAN /\ cut \in BOOLEAN /\ orphaned \in BOOLEAN /\ torn \in BOOLEAN
      BY <2>4
    <2>7. failed \in [copy : SUBSET Parts, move : SUBSET Parts, back : SUBSET Parts]
      BY DEF NoFailure
    <2> QED
      BY <2>1, <2>4, <2>5, <2>6, <2>7 DEF OtherTypes
  <1> QED
    BY <1>1, <1>2, <1>3, <1>4, <1>5, <1>6 DEF Shape

\* And after every step.
LEMMA ShapeNext == Shape /\ [Next]_vars => Shape'
  BY FileTypesStep, HelperShapeStep, DirTypesStep, PackageTypesStep, ProcessTypesStep,
     CheckTypesStep, OtherTypesStep
    DEF Shape

\* So it always holds.
LEMMA ShapeInvariant == Spec => []Shape
  BY ShapeInit, ShapeNext, PTL DEF Spec

\* Type correctness of the self-update (TypeOK of SelfUpdate).
THEOREM UpdateTypeCorrect == Spec => []TypeOK
  <1>1. ASSUME Shape PROVE TypeOK
    <2>1. /\ helper.pc \in ScriptPcs /\ helper.tag \in Tags \cup {None} /\ Len(helper.left) <= 3
      BY <1>1, ListShapes DEF Shape, HelperShape, NoScript, ScriptPcs
    <2>2. unit \in [pc : {"none", "pending", "install", "poll", "exit"}, tag : Tags \cup {None}]
      BY <1>1 DEF Shape, PackageTypes, UnitShape, NoUnit
    <2> QED
      BY <1>1, <2>1, <2>2 DEF Shape, FileTypes, DirTypes, Dirs, PackageTypes, ProcessTypes,
          CheckTypes, OtherTypes, TypeOK, ScriptPcs
  <1> QED
    BY <1>1, ShapeInvariant, PTL

-----------------------------------------------------------------------------
(* Archive updates and package updates keep out of each other's way.       *)

\* There is a script only without a package manager, and a unit only with one.
Mode ==
    /\ helper.pc # "none" => ~packaged
    /\ unit.pc # "none" => packaged
    /\ work.pc \in {"package", "install"} => packaged
    /\ work.pc \in {"download", "extract", "script", "spawn"} => ~packaged

\* Whether a package manager owns the binary never changes.
LEMMA PackagedStays == [Next]_vars => UNCHANGED packaged
  <1> SUFFICES ASSUME [Next]_vars PROVE UNCHANGED packaged
    OBVIOUS
  <1> USE DEF fileVars, packageVars, processVars, history
  <1>1. Spawn \/ HelperStep \/ UnitInstall \/ PowerCut => UNCHANGED packaged
    BY DEF Spawn, HelperStep, HelperBackup, HelperSwap, HelperSwapFails, HelperRestart, HelperHealthy,
        HelperUnhealthy, HelperRestore, HelperRestartAgain, UnitInstall, PowerCut
  <1> QED
    BY <1>1, FilesFrame

\* What start_update does when it is at work: it goes on, fails or ends.
LEMMA WorkMoves ==
    ASSUME Shape, [Next]_vars
    PROVE  \/ UNCHANGED work
           \/ work'.pc \in {"idle", "failed"}
           \/ \E t \in Tags : StartUpdate(t)
           \/ Resolve \/ Download \/ Extracted \/ WriteScript \/ DownloadPackage
  <1> USE DEF Restarted, Resting, processVars
  <1>1. Spawn \/ InstallPackage \/ InstallRefused \/ StepFails \/ TimeOut \/ CleanUp \/ Leave
          => work'.pc \in {"idle", "failed"}
    BY DEF Spawn, InstallPackage, InstallRefused, StepFails, TimeOut, CleanUp, Leave, To,
        Shape, ProcessTypes
  <1>2. HelperRestart \/ HelperRestartAgain \/ UnitInstall \/ Crash \/ PowerCut => work'.pc = "idle"
    BY DEF HelperRestart, HelperRestartAgain, UnitInstall, Crash, PowerCut
  <1>3. LateExtracted \/ WatchEnds \/ ServiceStarts \/ BootTasks => UNCHANGED work
    BY DEF LateExtracted, WatchEnds, ServiceStarts, BootTasks
  <1> QED
    BY <1>1, <1>2, <1>3, ProcessFrame DEF UpdateStep

\* start_update chooses by packaged, and what it starts is of that kind.
LEMMA ModeStep == Shape /\ Mode /\ [Next]_vars => Mode'
  <1> SUFFICES ASSUME Shape, Mode, [Next]_vars PROVE Mode'
    OBVIOUS
  <1> USE DEF Mode
  <1>0. UNCHANGED packaged
    BY PackagedStays
  <1>1. helper'.pc # "none" => ~packaged
    <2>1. Spawn => ~packaged
      BY DEF Spawn, At
    <2>2. HelperStep => ~packaged
      BY DEF HelperStep, HelperBackup, HelperSwap, HelperSwapFails, HelperRestart, HelperHealthy,
          HelperUnhealthy, HelperRestore, HelperRestartAgain
    <2>3. UnitInstall => UNCHANGED helper
      BY DEF UnitInstall
    <2>4. PowerCut => helper' = NoScript
      BY DEF PowerCut
    <2> QED
      BY <2>1, <2>2, <2>3, <2>4, FilesFrame DEF NoScript
  <1>2. unit'.pc # "none" => packaged
    <2>1. ASSUME \/ \E t \in Tags : StartUpdate(t)
                 \/ Resolve \/ InstallRefused \/ CleanUp \/ WatchEnds \/ GraceEnds
                 \/ \E c \in Checks : Asked(c)
          PROVE  UNCHANGED unit
      BY <2>1 DEF StartUpdate, Resolve, InstallRefused, CleanUp, WatchEnds, GraceEnds, Asked
    <2>2. InstallPackage => packaged
      BY DEF InstallPackage, At
    <2>3. UnitStep => packaged
      BY DEF UnitStep, UnitStart, UnitInstall, UnitInstallFails, UnitHealthy, UnitUnhealthy,
          UnitExit, UnitStopped, UnitKilled
    <2>4. PowerCut => unit' = NoUnit
      BY DEF PowerCut
    <2> QED
      BY <2>1, <2>2, <2>3, <2>4, PackageFrame DEF NoUnit
  <1>3. /\ work'.pc \in {"package", "install"} => packaged
        /\ work'.pc \in {"download", "extract", "script", "spawn"} => ~packaged
    <2>1. ASSUME NEW t \in Tags, StartUpdate(t) PROVE work'.pc \in {"resolve", "failed"}
      BY <2>1 DEF StartUpdate, NewDir
    <2>2. CASE Resolve
      BY <2>2 DEF Resolve, To, Shape, ProcessTypes
    <2>3. Download \/ WriteScript \/ DownloadPackage
            => \/ ~packaged /\ work'.pc \in {"extract", "spawn"}
               \/ packaged /\ work'.pc = "install"
      BY DEF Download, WriteScript, DownloadPackage, At, To, Shape, ProcessTypes
    <2>4. Extracted => ~packaged /\ work'.pc \in {"extract", "script"}
      BY DEF Extracted, To, Shape, ProcessTypes, WorkShape
    <2> QED
      BY <2>1, <2>2, <2>3, <2>4, WorkMoves
  <1> QED
    BY <1>0, <1>1, <1>2, <1>3

-----------------------------------------------------------------------------
(* update-result.                                                          *)

\* From the moment the unit is asked for until it ends, update-result names it,
\* and no second update gets past its first look.
Owned ==
    /\ unit.pc = "pending" => result = "starting" /\ fresh
    /\ HelperOwnsResult

\* Every server that reads update-result leaves it alone while its helper works.
LEMMA OwnedStep == Shape /\ Mode /\ Owned /\ [Next]_vars => Owned'
  <1> SUFFICES ASSUME Shape, Mode, Owned, [Next]_vars PROVE Owned'
    OBVIOUS
  <1> USE DEF Owned, HelperOwnsResult
  <1>1. CASE UNCHANGED <<unit, result, fresh, packaged>>
    <2>1. ASSUME NEW t \in Tags, StartUpdate(t) PROVE Owned'
      BY <1>1, <2>1 DEF StartUpdate, NewDir, PackageUpdateRunning, Grace, Undecided,
          UnitActive
    <2>2. CASE UNCHANGED work \/ work'.pc \in {"idle", "failed"}
      BY <1>1, <2>2
    <2>3. Resolve \/ Download \/ Extracted \/ WriteScript \/ DownloadPackage
             => work.pc \notin {"idle", "failed"}
      BY DEF Resolve, Download, Extracted, WriteScript, DownloadPackage, At, Shape,
          ProcessTypes, WorkShape
    <2> QED
      BY <1>1, <2>1, <2>2, <2>3, WorkMoves
  <1>2. ASSUME NEW t \in Tags, StartUpdate(t) PROVE Owned'
    BY <1>2 DEF StartUpdate, NewDir, PackageUpdateRunning, Grace, Undecided, UnitActive,
        Settle
  <1>3. CASE Resolve
    BY <1>3 DEF Resolve, At
  <1>4. CASE InstallPackage
    BY <1>4 DEF InstallPackage, Resting
  <1>5. CASE InstallRefused
    BY <1>5 DEF InstallRefused, At
  <1>6. ASSUME CleanUp \/ WatchEnds \/ \E c \in Checks : Asked(c) PROVE Owned'
    BY <1>6 DEF CleanUp, WatchEnds, Asked, Resting, Settle, Undecided, UnitActive
  <1>7. CASE UnitStep
    <2>1. CASE UnitInstall
      BY <2>1 DEF UnitInstall, Restarted, Resting, Shape, PackageTypes, UnitShape, NoUnit
    <2>2. UnitInstallFails \/ UnitHealthy \/ UnitUnhealthy => unit'.pc = "exit"
      BY DEF UnitInstallFails, UnitHealthy, UnitUnhealthy, UnitWrites, Shape, PackageTypes,
          UnitShape, NoUnit
    <2>3. UnitExit \/ UnitStopped \/ UnitKilled => unit'.pc = "none"
      BY DEF UnitExit, UnitStopped, UnitKilled, NoUnit
    <2>4. CASE UnitStart
      BY <2>4 DEF UnitStart, processVars, Shape, PackageTypes, UnitShape, NoUnit
    <2> QED
      BY <1>7, <2>1, <2>2, <2>3, <2>4 DEF UnitStep
  <1>8. CASE GraceEnds
    BY <1>8 DEF GraceEnds, processVars
  <1>9. CASE PowerCut
    BY <1>9 DEF PowerCut, NoUnit
  <1> QED
    BY <1>1, <1>2, <1>3, <1>4, <1>5, <1>6, <1>7, <1>8, <1>9, PackageFrame

\* Once ok, the result stays until the next update starts a new one.
LEMMA OkStays ==
    ASSUME Shape, Owned, [Next]_vars, result = "ok", result' # "ok"
    PROVE  work.pc \in {"resolve", "install"}
  <1>1. Settle = "ok"
    BY DEF Settle, Undecided
  <1>2. ASSUME \/ \E t \in Tags : StartUpdate(t)
               \/ CleanUp \/ WatchEnds \/ GraceEnds \/ PowerCut
               \/ \E c \in Checks : Asked(c)
        PROVE  result' = "ok"
    BY <1>1, <1>2 DEF StartUpdate, CleanUp, WatchEnds, Asked, GraceEnds, PowerCut
  <1>3. UnitStep => FALSE
    <2>1. unit.pc \notin {"pending", "install", "poll"}
      BY DEF Owned, HelperOwnsResult
    <2> QED
      BY <2>1 DEF UnitStep, UnitStart, UnitInstall, UnitInstallFails, UnitHealthy,
          UnitUnhealthy, UnitExit, UnitStopped, UnitKilled
  <1> QED
    BY <1>2, <1>3, PackageFrame DEF Resolve, InstallPackage, InstallRefused, At

\* Success that the package helper has recorded is never replaced by a server or a
\* check that had read the file before (ResultIsKept).
THEOREM ResultKept == Spec => ResultIsKept
  <1>1. Init => Mode /\ Owned
    BY DEF Init, Mode, Owned, HelperOwnsResult, NoScript, NoUnit, Resting
  <1>2. Shape /\ Owned /\ [Next]_vars
          => [result = "ok" /\ result' # "ok" => work.pc \in {"resolve", "install"}]_vars
    BY OkStays
  <1> QED
    BY <1>1, <1>2, ShapeInvariant, ModeStep, OwnedStep, PTL DEF Spec, ResultIsKept

\* While the package helper works no restarted server, check or second update declares
\* it dead, and no second update gets past its first look (HelperOwnsResult).
THEOREM HelperOwns == Spec => []HelperOwnsResult
  <1>1. Init => Mode /\ Owned
    BY DEF Init, Mode, Owned, HelperOwnsResult, NoScript, NoUnit, Resting
  <1>2. Owned => HelperOwnsResult
    BY DEF Owned
  <1> QED
    BY <1>1, <1>2, ShapeInvariant, ModeStep, OwnedStep, PTL DEF Spec

-----------------------------------------------------------------------------
(* Rollback.                                                               *)

\* A script that has just begun has failed at nothing.
Unhurt == helper.pc \in {"none", "backup"} => failed = NoFailure

\* From the script's start to the restore, what it would go back to is, part by
\* part that it could copy, what it found; outside, there are no .bak files,
\* which would spoil the next backup.
BackedUp ==
    ~cut =>
        /\ helper.pc \in {"none", "backup"} => backup = Same(None)
        /\ helper.pc = "backup" => before = installed
        /\ helper.pc \in {"swap", "restart", "poll", "restore"} =>
              \A p \in Parts \ failed.copy : backup[p] = before[p]
        /\ helper.pc = "again" /\ failed.back = {} => backup = Same(None)
        /\ RollbackRestores

\* The end of a script, or of the power, forgets what failed.
LEMMA UnhurtStep == Shape /\ Unhurt /\ [Next]_vars => Unhurt'
  <1> SUFFICES ASSUME Shape, Unhurt, [Next]_vars PROVE Unhurt'
    OBVIOUS
  <1> USE DEF Unhurt
  <1>0. HelperShape
    BY DEF Shape
  <1>1. CASE UNCHANGED <<helper, failed>>
    BY <1>1
  <1>2. CASE Spawn
    BY <1>2 DEF Spawn, wounds, NoScript
  <1>3. CASE HelperBackup \/ HelperSwap \/ HelperSwapFails \/ HelperRestart \/ HelperUnhealthy
                \/ HelperRestore
    <2>1. helper'.pc \notin {"none", "backup"}
      BY <1>0, <1>3 DEF HelperBackup, HelperSwap, HelperSwapFails, NextSwap, HelperRestart,
          HelperUnhealthy, HelperRestore, HelperShape, NoScript, ScriptPcs
    <2> QED
      BY <2>1
  <1>4. CASE HelperHealthy \/ HelperRestartAgain \/ PowerCut
    BY <1>4 DEF HelperHealthy, HelperRestartAgain, HelperDone, PowerCut
  <1>5. CASE UnitInstall
    BY <1>5 DEF UnitInstall
  <1> QED
    BY <1>1, <1>2, <1>3, <1>4, <1>5, FilesFrame DEF HelperStep, wounds

\* Each step of the script keeps the backup what a rollback needs.
LEMMA BackedUpStep == Shape /\ Mode /\ Unhurt /\ BackedUp /\ [Next]_vars => BackedUp'
  <1> SUFFICES ASSUME Shape, Mode, Unhurt, BackedUp, [Next]_vars, ~cut' PROVE BackedUp'
    BY DEF BackedUp
  <1> USE DEF BackedUp, RollbackRestores
  <1>0. /\ FileTypes /\ HelperShape
        /\ failed \in [copy : SUBSET Parts, move : SUBSET Parts, back : SUBSET Parts]
    BY DEF Shape, OtherTypes
  <1>1. CASE UNCHANGED <<packaged, installed, backup, before, helper, cut, wounds>>
    BY <1>1 DEF wounds
  <1>2. CASE Spawn
    BY <1>2 DEF Spawn, fileVars, NoScript, wounds
  <1>3. CASE HelperBackup
    <2>1. /\ helper.pc = "backup" /\ helper'.pc = "swap" /\ UNCHANGED <<before, cut>>
          /\ before = installed /\ backup = Same(None)
      BY <1>0, <1>3 DEF HelperBackup, HelperShape, NoScript
    <2>2. \A p \in Parts \ failed'.copy : backup'[p] = installed[p]
      <3>1. PICK F \in SUBSET Parts :
               /\ failed' = [failed EXCEPT !.copy = F]
               /\ \A p \in Parts :
                    CASE installed[p] = None \/ (p = "site" /\ backup[p] # None)
                           -> backup'[p] = backup[p]
                      [] p \in F -> backup'[p] \in {backup[p], Partial}
                      [] OTHER -> backup'[p] = installed[p]
        BY <1>3 DEF HelperBackup
      <3>2. failed'.copy = F
        BY <1>0, <3>1
      <3> QED
        BY <2>1, <3>1, <3>2 DEF Same
    <2> QED
      BY <2>1, <2>2
  <1>4. CASE HelperSwap \/ HelperSwapFails \/ HelperRestart \/ HelperUnhealthy
    <2>1. helper'.pc \in {"swap", "restart", "poll", "restore"}
      BY <1>0, <1>4 DEF HelperSwap, HelperSwapFails, NextSwap, HelperRestart, HelperUnhealthy,
          HelperShape, NoScript, ScriptPcs
    <2>2. UNCHANGED <<backup, before, cut>> /\ helper.pc \in {"swap", "restart", "poll", "restore"}
      BY <1>4 DEF HelperSwap, HelperSwapFails, HelperRestart, HelperUnhealthy, history, fileVars
    <2>3. failed'.copy = failed.copy
      BY <1>0, <1>4 DEF HelperSwap, HelperSwapFails, HelperRestart, HelperUnhealthy, history, wounds
    <2> QED
      BY <2>1, <2>2, <2>3
  <1>5. CASE HelperRestore
    <2>1. helper.pc = "restore" /\ helper'.pc = "again" /\ UNCHANGED <<before, cut>>
      BY <1>0, <1>5 DEF HelperRestore, HelperShape, NoScript
    <2>2. PICK F \in SUBSET Parts :
             /\ failed' = [failed EXCEPT !.back = F]
             /\ installed' = [p \in Parts |-> CASE backup[p] = None -> installed[p]
                                               [] p \in F -> None
                                               [] OTHER -> backup[p]]
             /\ backup' = [p \in Parts |-> IF p \in F THEN backup[p] ELSE None]
      BY <1>5 DEF HelperRestore
    <2>3. failed'.back = F /\ failed'.copy = failed.copy
      BY <1>0, <2>2
    <2>4. \A p \in Parts \ failed.copy : backup[p] = before[p]
      BY <2>1
    <2>5. \A p \in Parts \ (failed'.copy \cup failed'.back) :
             before[p] # None => installed'[p] = before[p]
      BY <2>2, <2>3, <2>4
    <2>6. failed'.back = {} => backup' = Same(None)
      BY <2>2, <2>3 DEF Same
    <2> QED
      BY <2>1, <2>5, <2>6
  <1>6. CASE HelperHealthy
    BY <1>6 DEF HelperHealthy, HelperDone, NoScript
  <1>6a. CASE HelperRestartAgain
    <2>1. failed.back = {} /\ ~cut /\ helper.pc = "again"
      BY <1>6a DEF HelperRestartAgain
    <2> QED
      BY <1>6a, <2>1 DEF HelperRestartAgain, HelperDone, NoScript
  <1>7. CASE UnitInstall
    BY <1>7 DEF UnitInstall, Mode
  <1>8. CASE PowerCut
    BY <1>8 DEF PowerCut, NoScript
  <1>9. CASE StoppedInstalling /\ UNCHANGED <<packaged, backup, before, helper, cut, failed>>
    <2>1. UNCHANGED installed \/ helper.pc = "none"
      BY <1>9 DEF StoppedInstalling, Mode
    <2> QED
      BY <1>9, <2>1
  <1> QED
    BY <1>1, <1>2, <1>3, <1>4, <1>5, <1>6, <1>6a, <1>7, <1>8, <1>9, FilesFrame DEF HelperStep

\* A script that gives up leaves every part that it could copy as it found it, whichever
\* other copies and whichever moves of the swap failed, unless an earlier one
\* did not get to its end or the .bak could not be put back (RollbackRestores).
THEOREM RollbackIsComplete == Spec => []RollbackRestores
  <1>1. Init => Mode /\ Unhurt /\ BackedUp
    BY DEF Init, Mode, Unhurt, BackedUp, RollbackRestores, NoScript, NoUnit, Resting
  <1>2. Shape /\ BackedUp => RollbackRestores
    BY DEF BackedUp, RollbackRestores
  <1> QED
    BY <1>1, <1>2, ShapeInvariant, ModeStep, UnhurtStep, BackedUpStep, PTL DEF Spec

-----------------------------------------------------------------------------
(* What an install still needs.                                            *)

\* The package is there until the package manager has it.
PackageKept == ~swept /\ unit.pc \in {"pending", "install"} => dir.package = unit.tag

\* Only boot tasks remove what an install still needs, and that is not forgotten.
LEMMA SweptStays ==
    ASSUME Shape, [Next]_vars
    PROVE  swept \in BOOLEAN /\ swept' \in BOOLEAN /\ (swept => swept')
           /\ (UNCHANGED swept \/ BootTasks)
  <1> USE DEF fileVars, packageVars, processVars, history, Restarted
  <1>0. swept \in BOOLEAN
    BY DEF Shape, OtherTypes
  <1>1. ASSUME NEW t \in Tags, StartUpdate(t) PROVE UNCHANGED swept
    BY <1>1 DEF StartUpdate
  <1>2. UpdateStep \/ LateExtracted \/ Leave \/ WatchEnds => UNCHANGED swept
    BY DEF UpdateStep, Resolve, Download, Extracted, WriteScript, Spawn, DownloadPackage,
        InstallPackage, InstallRefused, StepFails, TimeOut, CleanUp, LateExtracted, Leave,
        WatchEnds
  <1>3. HelperStep => UNCHANGED swept
    BY DEF HelperStep, HelperBackup, HelperSwap, HelperSwapFails, HelperRestart, HelperHealthy,
        HelperUnhealthy, HelperRestore, HelperRestartAgain
  <1>4. UnitStep \/ GraceEnds => UNCHANGED swept
    BY DEF UnitStep, UnitStart, UnitInstall, UnitInstallFails, UnitHealthy, UnitUnhealthy,
        UnitExit, UnitStopped, UnitKilled, UnitWrites, GraceEnds
  <1>5. Crash \/ PowerCut \/ ServiceStarts => UNCHANGED swept
    BY DEF Crash, PowerCut, ServiceStarts
  <1>6. ASSUME NEW c \in Checks, CheckStep(c) PROVE UNCHANGED swept
    BY <1>6 DEF CheckStep, ManualStart, Consider, Asked, ManualAnswer, CheckFails
  <1>7. LoopStart \/ LoopAnswer => UNCHANGED swept
    BY DEF LoopStart, LoopAnswer, Consider
  <1>8. ASSUME NEW c \in Manuals, NEW ch \in Channels, SaveChannel(c, ch) PROVE UNCHANGED swept
    BY <1>8 DEF SaveChannel
  <1>9. UNCHANGED vars => UNCHANGED swept
    BY DEF vars
  <1>10. BootTasks => swept' \in BOOLEAN /\ (swept => swept')
    BY <1>0 DEF BootTasks
  <1> QED
    BY <1>0, <1>1, <1>2, <1>3, <1>4, <1>5, <1>6, <1>7, <1>8, <1>9, <1>10 DEF Next

\* A check that found an install active removes nothing.
LEMMA ProceedKeeps ==
    ASSUME Shape, NEW c, NEW rec, NEW v, Proceed(c, rec, TRUE, v)
    PROVE  dir'.archives = dir.archives /\ dir'.staged = dir.staged /\ dir'.package = dir.package
           /\ script' = script
  BY DEF Proceed, Written, Shape, DirTypes, Dirs

\* Nor does one that looks first remove anything then.
LEMMA ConsiderKeeps ==
    ASSUME Shape, NEW c, NEW rec, NEW v, NEW asked, Consider(c, rec, v, asked),
           slot # "idle" \/ Grace \/ Undecided
    PROVE  dir'.archives = dir.archives /\ dir'.staged = dir.staged /\ dir'.package = dir.package
           /\ script' = script
  <1>1. CASE slot = "idle" /\ Undecided
    BY <1>1 DEF Consider
  <1>2. CASE ~(slot = "idle" /\ Undecided)
    <2>1. (slot # "idle" \/ Grace) = TRUE
      BY <1>2 DEF Grace, Undecided
    <2>2. Proceed(c, rec, TRUE, v)
      BY <1>2, <2>1 DEF Consider
    <2> QED
      BY <2>2, ProceedKeeps
  <1> QED
    BY <1>1, <1>2

\* Every step that could remove the package finds update-result or the slot in use.
LEMMA PackageKeptStep == Shape /\ Mode /\ Owned /\ PackageKept /\ [Next]_vars => PackageKept'
  <1> SUFFICES ASSUME Shape, Mode, Owned, PackageKept, [Next]_vars, ~swept',
                      unit'.pc \in {"pending", "install"}
               PROVE  dir'.package = unit'.tag
    BY DEF PackageKept
  <1>0. ~swept
    BY SweptStays
  <1>1. CASE InstallPackage
    BY <1>1 DEF InstallPackage, fileVars
  <1>2. /\ unit.pc \in {"pending", "install"} \/ InstallPackage
        /\ unit'.tag = unit.tag \/ InstallPackage
    <2>1. ASSUME \/ \E t \in Tags : StartUpdate(t)
                 \/ Resolve \/ InstallRefused \/ CleanUp \/ WatchEnds \/ GraceEnds
                 \/ \E c \in Checks : Asked(c)
          PROVE  UNCHANGED unit
      BY <2>1 DEF StartUpdate, Resolve, InstallRefused, CleanUp, WatchEnds, GraceEnds, Asked
    <2>2. UnitStart => unit.pc = "pending" /\ unit'.tag = unit.tag
      BY DEF UnitStart, Shape, PackageTypes, UnitShape, NoUnit
    <2>3. UnitInstall \/ UnitInstallFails \/ UnitHealthy \/ UnitUnhealthy \/ UnitExit
             \/ UnitStopped \/ UnitKilled
             => unit'.pc \in {"poll", "exit", "none"}
      BY DEF UnitInstall, UnitInstallFails, UnitHealthy, UnitUnhealthy, UnitExit, UnitStopped,
          UnitKilled, UnitWrites, Shape, PackageTypes, UnitShape, NoUnit
    <2>4. PowerCut => unit'.pc = "none"
      BY DEF PowerCut, NoUnit
    <2> QED
      BY <2>1, <2>2, <2>3, <2>4, PackageFrame DEF UnitStep
  <1>3. CASE unit.pc \in {"pending", "install"} /\ unit'.tag = unit.tag
    <2>1. /\ dir.package = unit.tag /\ packaged
          /\ work.pc \in {"idle", "failed"}
          /\ helper.pc = "none"
          /\ Grace \/ (Undecided /\ UnitActive)
      BY <1>0, <1>3 DEF PackageKept, Mode, Owned, HelperOwnsResult, Grace, Undecided,
          UnitActive
    <2>2. PackageUpdateRunning
      BY <2>1 DEF PackageUpdateRunning
    <2> SUFFICES dir'.package = dir.package
      BY <1>3, <2>1
    <2>3. ASSUME (\E t \in Tags : StartUpdate(t)) \/ CleanUp PROVE dir' = dir
      BY <2>2, <2>3 DEF StartUpdate, CleanUp
    <2>4. ~Download /\ ~Extracted /\ ~WriteScript /\ ~DownloadPackage
      BY <2>1 DEF Download, Extracted, WriteScript, DownloadPackage, At, Shape, ProcessTypes,
          WorkShape
    <2>5. ~HelperSwap /\ ~HelperHealthy /\ ~HelperRestartAgain
      BY <2>1 DEF HelperSwap, HelperHealthy, HelperRestartAgain
    <2>6. UnitExit \/ UnitStopped => unit'.pc = "none"
      BY DEF UnitExit, UnitStopped, NoUnit
    <2>7. BootTasks => swept'
      BY <1>3 DEF BootTasks
    <2>8. LateExtracted => dir'.package = dir.package
      BY DEF LateExtracted, Unpacked, Shape, DirTypes, Dirs
    <2>9. ASSUME NEW c \in Checks, ManualStart(c) \/ Asked(c) \/ ManualAnswer(c)
          PROVE  dir'.package = dir.package
      <3>1. CASE ManualStart(c)
        BY <2>1, <3>1, ConsiderKeeps DEF ManualStart
      <3>2. CASE Asked(c)
        <4>1. (UnitActive \/ Grace) = TRUE
          BY <2>1 DEF UnitActive, Grace
        <4> QED
          BY <3>2, <4>1, ProceedKeeps DEF Asked
      <3>3. CASE ManualAnswer(c)
        BY <3>3 DEF ManualAnswer, Written, Shape, DirTypes, Dirs
      <3> QED
        BY <2>9, <3>1, <3>2, <3>3
    <2>10. LoopAnswer => dir'.package = dir.package
      <3>1. \A rec, v, asked : Consider("loop", rec, v, asked) => dir'.package = dir.package
        BY <2>1, ConsiderKeeps
      <3> QED
        BY <3>1 DEF LoopAnswer, fileVars
    <2> QED
      BY <2>3, <2>4, <2>5, <2>6, <2>7, <2>8, <2>9, <2>10, DirFrame
  <1> QED
    BY <1>1, <1>2, <1>3

\* The script has yet to move files, and nothing has removed them.
ScriptNeeds == helper.pc \in {"backup", "swap"} /\ ~swept

\* While start_update works no extraction of an earlier one goes on, and from
\* its own extraction to the end of the swap nobody else can remove a file:
\* no check is past its look, and the slot is leaked or the server not yet booted.
Private ==
    /\ ScriptNeeds => slot = "leaked" \/ ~server.booted
    /\ work.pc \notin {"idle", "failed"} \/ ScriptNeeds => task.late = {}
    /\ work.pc \in {"extract", "script", "spawn"} \/ ScriptNeeds => NoCheckDecides

\* The need begins with the script, and boot tasks end it.
LEMMA NeedsBegin ==
    ASSUME Shape, [Next]_vars, ScriptNeeds'
    PROVE  ~BootTasks /\ (ScriptNeeds \/ Spawn)
  <1> USE DEF ScriptNeeds
  <1>1. ~swept
    BY SweptStays
  <1>2. ASSUME BootTasks PROVE FALSE
    BY <1>2 DEF BootTasks
  <1>3. HelperBackup \/ HelperSwap \/ HelperSwapFails => helper.pc \in {"backup", "swap"}
    BY DEF HelperBackup, HelperSwap, HelperSwapFails
  <1>4. HelperRestart \/ HelperUnhealthy \/ HelperRestore \/ HelperHealthy
           \/ HelperRestartAgain \/ PowerCut
          => helper'.pc \notin {"backup", "swap"}
    BY DEF HelperRestart, HelperUnhealthy, HelperRestore, HelperHealthy, HelperRestartAgain,
        HelperDone, PowerCut, NoScript, Shape, HelperShape, ScriptPcs
  <1>5. UnitInstall => UNCHANGED helper
    BY DEF UnitInstall
  <1> QED
    BY <1>1, <1>2, <1>3, <1>4, <1>5, FilesFrame DEF HelperStep

\* A script that still needs its files leaves start_update at rest.
LEMMA NeedsRest ==
    ASSUME Shape, Private, ScriptNeeds
    PROVE  work = Resting /\ task.now = None /\ slot # "update" /\ slot # "watch"
           /\ ~(server.booted /\ slot = "idle")
  BY DEF Shape, Private, ProcessTypes, WorkShape, ServerShape, Resting, NoTask

\* start_update is only under way after its claim.
LEMMA WorkBegins ==
    ASSUME Shape, [Next]_vars, work'.pc \notin {"idle", "failed"}
    PROVE  work.pc \notin {"idle", "failed"} \/ \E t \in Tags : StartUpdate(t)
  BY WorkMoves DEF Resolve, Download, Extracted, WriteScript, DownloadPackage, At, Shape,
      ProcessTypes, WorkShape

\* The slot stays leaked until the server goes.
LEMMA AloneStep ==
    ASSUME Shape, Private, [Next]_vars, ScriptNeeds'
    PROVE  slot' = "leaked" \/ ~server'.booted
  <1>0. ~BootTasks /\ (ScriptNeeds \/ Spawn)
    BY NeedsBegin
  <1>1. CASE Spawn
    BY <1>1 DEF Spawn
  <1>2. CASE ScriptNeeds
    <2>1. work = Resting /\ slot # "watch" /\ ~(server.booted /\ slot = "idle")
      BY <1>2, NeedsRest
    <2>2. slot = "leaked" \/ ~server.booted
      BY <1>2 DEF Private
    <2>3. CASE UNCHANGED <<server, slot, work, task>>
      BY <2>2, <2>3
    <2>4. ASSUME NEW t \in Tags, StartUpdate(t) PROVE FALSE
      BY <2>1, <2>4 DEF StartUpdate
    <2>5. CASE UpdateStep \/ Leave \/ WatchEnds
      <3>1. ~Extracted
        BY <1>2, NeedsRest DEF Extracted
      <3> QED
        BY <2>1, <2>5, <3>1 DEF UpdateStep, Resolve, Download, WriteScript, Spawn,
            DownloadPackage, InstallPackage, InstallRefused, StepFails, TimeOut, CleanUp,
            Leave, WatchEnds, At, Awaiting, Resting
    <2>6. CASE LateExtracted
      BY <2>2, <2>6 DEF LateExtracted
    <2>7. CASE HelperRestart \/ HelperRestartAgain \/ UnitInstall \/ Crash \/ PowerCut
      <3>1. installed["binary"] \in Contents /\ unit.tag \in Contents /\ None \in Contents
        BY UpdateTypes DEF Shape, FileTypes, Parts, PackageTypes, UnitShape, NoUnit
      <3> QED
        BY <2>7, <3>1, RestartTypes DEF HelperRestart, HelperRestartAgain, UnitInstall, Crash,
            PowerCut
    <2>8. CASE ServiceStarts
      BY <2>8 DEF ServiceStarts, Starts
    <2> QED
      BY <1>0, <2>3, <2>4, <2>5, <2>6, <2>7, <2>8, ProcessFrame
  <1> QED
    BY <1>0, <1>1, <1>2

\* Only a request that ends leaves an extraction behind.
LEMMA NoneLateStep ==
    ASSUME ~Overruns, Shape, Private, [Next]_vars,
           work'.pc \notin {"idle", "failed"} \/ ScriptNeeds'
    PROVE  task'.late = {}
  <1>0. Resting.pc = "idle"
    BY DEF Resting
  <1>1. ASSUME NEW t \in Tags, StartUpdate(t) PROVE task'.late = {}
    BY <1>1 DEF StartUpdate
  <1>2. CASE ~\E t \in Tags : StartUpdate(t)
    <2>1. ScriptNeeds \/ work.pc \notin {"idle", "failed"}
      BY <1>2, NeedsBegin, WorkBegins DEF Spawn, At
    <2>2. task.late = {}
      BY <2>1 DEF Private
    <2>3. ScriptNeeds => work.pc = "idle"
      BY <1>0, NeedsRest
    <2>4. ~TimeOut /\ ~Leave
      <3> SUFFICES ASSUME TimeOut \/ Leave PROVE FALSE
        OBVIOUS
      <3>1. work'.pc \in {"idle", "failed"} /\ work.pc # "idle" /\ work.pc # "spawn"
        BY <1>0 DEF TimeOut, Leave, To, Awaiting, Shape, ProcessTypes
      <3>2. ScriptNeeds
        BY <3>1, NeedsBegin DEF Spawn, At
      <3> QED
        BY <2>3, <3>1, <3>2
    <2>5. UpdateStep \/ LateExtracted \/ Leave \/ WatchEnds => task'.late = {}
      BY <2>2, <2>4 DEF UpdateStep, Resolve, Download, Extracted, WriteScript, Spawn,
          DownloadPackage, InstallPackage, InstallRefused, StepFails, CleanUp, LateExtracted,
          WatchEnds, Extracting, Shape, ProcessTypes
    <2>6. HelperRestart \/ HelperRestartAgain \/ UnitInstall \/ Crash \/ PowerCut => task'.late = {}
      BY DEF HelperRestart, HelperRestartAgain, UnitInstall, Crash, PowerCut, Restarted,
          NoTask
    <2>7. ServiceStarts \/ BootTasks => task'.late = {}
      BY <2>2 DEF ServiceStarts, BootTasks
    <2> QED
      BY <1>2, <2>2, <2>5, <2>6, <2>7, ProcessFrame
  <1> QED
    BY <1>1, <1>2

\* A check only has to ask when it finds the slot free.
LEMMA AsksWhenIdle ==
    ASSUME Shape, [Next]_vars, NoCheckDecides, ~NoCheckDecides'
    PROVE  slot = "idle" /\ server.booted
  <1>0. "loop" \in Checks /\ Manuals \subseteq Checks /\ NoCheck.pc = "idle" /\ Waiting.pc = "wait"
    BY DEF Checks, NoCheck, Waiting
  <1>1. ASSUME NEW c \in Checks, NEW r, check' = [check EXCEPT ![c] = r], r.pc # "ask"
        PROVE  FALSE
    BY <1>1 DEF NoCheckDecides, Shape, CheckTypes
  <1>2. ASSUME UNCHANGED check PROVE FALSE
    BY <1>2 DEF NoCheckDecides
  <1>3. ASSUME check' = [c \in Checks |-> NoCheck] PROVE FALSE
    BY <1>0, <1>3 DEF NoCheckDecides
  <1>4. ASSUME LoopStart PROVE FALSE
    BY <1>0, <1>1, <1>4 DEF LoopStart
  <1>5. CASE LoopAnswer
    <2>1. server.booted
      BY <1>0, <1>5, ChecksAreBooted DEF LoopAnswer
    <2>2. slot = "idle" \/ check' = [check EXCEPT !["loop"] = NoCheck]
      BY <1>5 DEF LoopAnswer, Consider, Proceed
    <2> QED
      BY <1>0, <1>1, <2>1, <2>2
  <1>6. ASSUME NEW c \in Checks, CheckStep(c) PROVE slot = "idle" /\ server.booted
    <2>1. ~\E r \in {NoCheck, Waiting} : check' = [check EXCEPT ![c] = r]
      BY <1>0, <1>1
    <2>2. ManualStart(c)
      BY <1>6, <2>1 DEF CheckStep, Asked, ManualAnswer, CheckFails, Proceed
    <2> QED
      BY <2>1, <2>2 DEF ManualStart, Consider, Proceed
  <1>7. ASSUME NEW c \in Manuals, NEW ch \in Channels, SaveChannel(c, ch) PROVE FALSE
    <2>1. check' = [check EXCEPT ![c] = [NoCheck EXCEPT !.pc = "new"]]
      BY <1>0, <1>7 DEF SaveChannel, Shape, CheckTypes
    <2>2. PICK r : r = [NoCheck EXCEPT !.pc = "new"]
      OBVIOUS
    <2>3. r.pc = "new"
      BY <2>2 DEF NoCheck
    <2>4. c \in Checks /\ check' = [check EXCEPT ![c] = r]
      BY <1>0, <2>1, <2>2
    <2> QED
      BY <1>1, <2>3, <2>4
  <1> QED
    BY <1>2, <1>3, <1>4, <1>5, <1>6, <1>7, CheckFrame

\* A download only ends when no check is past its look, and none looks again.
LEMMA NoneAsksStep ==
    ASSUME Shape, Private, [Next]_vars,
           work'.pc \in {"extract", "script", "spawn"} \/ ScriptNeeds'
    PROVE  NoCheckDecides'
  <1>1. CASE Download
    BY <1>1 DEF Download, NoCheckDecides
  <1>2. CASE ~Download
    <2>1. ScriptNeeds \/ work.pc \in {"extract", "script", "spawn"}
      <3>1. ASSUME ScriptNeeds' PROVE ScriptNeeds \/ work.pc = "spawn"
        BY <3>1, NeedsBegin DEF Spawn, At
      <3>2. ASSUME work'.pc \in {"extract", "script", "spawn"}
            PROVE  work.pc \in {"extract", "script", "spawn"}
        <4>1. ASSUME NEW t \in Tags, StartUpdate(t) PROVE FALSE
          BY <3>2, <4>1 DEF StartUpdate, NewDir
        <4> QED
          BY <1>2, <3>2, <4>1, WorkMoves DEF Resolve, Extracted, WriteScript, DownloadPackage,
              At, To, Shape, ProcessTypes, WorkShape
      <3> QED
        BY <3>1, <3>2
    <2>2. NoCheckDecides
      BY <2>1 DEF Private
    <2>3. ~(slot = "idle" /\ server.booted)
      BY <2>1, NeedsRest DEF Shape, ProcessTypes, WorkShape
    <2> QED
      BY <2>2, <2>3, AsksWhenIdle
  <1> QED
    BY <1>1, <1>2

\* All of it, unless an extraction may outlive its request.
LEMMA PrivateStep == ~Overruns /\ Shape /\ Private /\ [Next]_vars => Private'
  BY AloneStep, NoneLateStep, NoneAsksStep DEF Private

\* The parts in a list.
Of(l) == {l[i] : i \in DOMAIN l}

\* The parts of a release as sets.
LEMMA ListElements ==
    ASSUME NEW t \in Tags
    PROVE  /\ Of(PartsOf(t)) = IF t \in Legacy THEN {"binary", "site"} ELSE Parts
           /\ \A l \in Lists(t) :
                 /\ Of(l) \subseteq Of(PartsOf(t))
                 /\ Head(l) \in Of(l)
                 /\ Of(Tail(l)) = Of(l) \ {Head(l)}
                 /\ Len(l) = 1 => Of(l) = {Head(l)}
  <1>1. ASSUME NEW x \in Parts, NEW y \in Parts, NEW z \in Parts
        PROVE  /\ Of(<<x, y, z>>) = {x, y, z} /\ Of(<<x, y>>) = {x, y} /\ Of(<<x>>) = {x}
                     /\ Of(<<>>) = {}
               /\ Len(<<x, y, z>>) = 3 /\ Len(<<x, y>>) = 2 /\ Len(<<x>>) = 1
               /\ Head(<<x, y, z>>) = x /\ Head(<<x, y>>) = x /\ Head(<<x>>) = x
               /\ Tail(<<x, y, z>>) = <<y, z>> /\ Tail(<<x, y>>) = <<y>> /\ Tail(<<x>>) = <<>>
    BY DEF Of
  <1>2. PICK b \in Parts, s \in Parts, c \in Parts : b = "binary" /\ s = "site" /\ c = "catalog"
    BY DEF Parts
  <1>3. b # s /\ b # c /\ s # c /\ Parts = {b, s, c}
    BY <1>2 DEF Parts
  <1>4. CASE t \in Legacy
    <2>1. Lists(t) = {<<b, s>>, <<s>>} /\ PartsOf(t) = <<b, s>>
      BY <1>2, <1>4 DEF Lists, PartsOf
    <2> QED
      BY <1>1, <1>2, <1>3, <1>4, <2>1
  <1>5. CASE t \notin Legacy
    <2>1. Lists(t) = {<<b, s, c>>, <<s, c>>, <<c>>} /\ PartsOf(t) = <<b, s, c>>
      BY <1>2, <1>5 DEF Lists, PartsOf
    <2> QED
      BY <1>1, <1>2, <1>3, <1>5, <2>1
  <1> QED
    BY <1>4, <1>5

\* Every part of release t is staged.
AllStaged(t) == \A p \in Of(PartsOf(t)) : dir.staged[p] = t

\* What start_update has extracted, and the script has yet to move, is there.
Staged ==
    ~swept =>
        /\ work.pc = "extract" /\ dir.archives = work.tag =>
              /\ task.now.part # "binary" => dir.staged["binary"] = work.tag
              /\ task.now.part = "catalog" => dir.staged["site"] = work.tag
        /\ work.pc = "script" /\ dir.staged["binary"] # None => AllStaged(work.tag)
        /\ work.pc = "spawn" /\ script # None => script = work.tag /\ AllStaged(work.tag)
        /\ helper.pc = "backup" => AllStaged(helper.tag)
        /\ helper.pc = "swap" => \A p \in Of(helper.left) : dir.staged[p] = helper.tag

\* What the directory can lose meanwhile: all of it, to an earlier script that ends; else
\* only what start_update or the script itself does.
LEMMA DirMoves ==
    ASSUME Shape, Mode, Private, [Next]_vars, ~swept',
           ScriptNeeds \/ work.pc \in {"extract", "script", "spawn"}
    PROVE  \/ dir'.archives = dir.archives /\ dir'.staged = dir.staged /\ script' = script
           \/ dir' = NoDir /\ script' = None /\ ~ScriptNeeds
           \/ Extracted \/ WriteScript \/ (HelperSwap /\ ScriptNeeds)
  <1> DEFINE Kept == dir'.archives = dir.archives /\ dir'.staged = dir.staged /\ script' = script
  <1>0. /\ task.late = {} /\ NoCheckDecides /\ ~packaged
        /\ server.booted => slot # "idle"
        /\ unit.pc = "none"
        /\ work.pc # "failed" /\ work.pc # "download" /\ work.pc # "package"
        /\ ~(work = Resting /\ slot = "idle" /\ server.booted)
    <2>1. CASE ScriptNeeds
      BY <2>1, NeedsRest DEF Private, Mode, ScriptNeeds, Resting
    <2>2. CASE work.pc \in {"extract", "script", "spawn"}
      BY <2>2 DEF Private, Mode, Shape, ProcessTypes, WorkShape, Resting
    <2> QED
      BY <2>1, <2>2
  <1>1. ASSUME NEW t \in Tags, StartUpdate(t) PROVE FALSE
    BY <1>0, <1>1 DEF StartUpdate
  <1>2. ~Download /\ ~DownloadPackage /\ ~CleanUp /\ ~LateExtracted
    BY <1>0 DEF Download, DownloadPackage, CleanUp, LateExtracted, At
  <1>3. HelperHealthy \/ HelperRestartAgain => dir' = NoDir /\ script' = None /\ ~ScriptNeeds
    BY DEF HelperHealthy, HelperRestartAgain, HelperDone, Nuke, ScriptNeeds
  <1>4. HelperSwap => ScriptNeeds
    BY SweptStays DEF HelperSwap, ScriptNeeds
  <1>5. ~UnitExit /\ ~UnitStopped
    BY <1>0 DEF UnitExit, UnitStopped
  <1>6. ~BootTasks
    <2>1. CASE ScriptNeeds
      BY <2>1 DEF BootTasks, ScriptNeeds
    <2>2. CASE work.pc \in {"extract", "script", "spawn"}
      BY <2>2 DEF BootTasks, Shape, ProcessTypes, ServerShape, Resting
    <2> QED
      BY <2>1, <2>2
  <1>7. ASSUME NEW c \in Checks, ManualStart(c) \/ Asked(c) \/ ManualAnswer(c) PROVE Kept
    <2>1. CASE ManualStart(c)
      BY <1>0, <2>1, ConsiderKeeps DEF ManualStart
    <2>2. ~Asked(c)
      BY <1>0 DEF Asked, NoCheckDecides
    <2>3. CASE ManualAnswer(c)
      BY <2>3 DEF ManualAnswer, Written, Shape, DirTypes, Dirs
    <2> QED
      BY <1>7, <2>1, <2>2, <2>3
  <1>8. LoopAnswer => Kept
    <2>1. "loop" \in Checks
      BY DEF Checks
    <2>2. LoopAnswer => slot # "idle"
      BY <1>0, <2>1, ChecksAreBooted DEF LoopAnswer
    <2>3. \A rec, v, asked : slot # "idle" /\ Consider("loop", rec, v, asked) => Kept
      BY ConsiderKeeps
    <2> QED
      BY <2>2, <2>3 DEF LoopAnswer, fileVars
  <1> QED
    BY <1>1, <1>2, <1>3, <1>4, <1>5, <1>6, <1>7, <1>8, DirFrame

\* How start_update reaches the steps from its extraction to the script's start.
LEMMA WorkReaches ==
    ASSUME Shape, [Next]_vars, work'.pc \in {"extract", "script", "spawn"}
    PROVE  \/ Download \/ Extracted \/ WriteScript
           \/ UNCHANGED work /\ task'.now = task.now
  <1> USE DEF Shape, ProcessTypes
  <1>1. ASSUME NEW t \in Tags, StartUpdate(t) PROVE FALSE
    BY <1>1 DEF StartUpdate, NewDir
  <1>2. Resolve \/ DownloadPackage => FALSE
    BY DEF Resolve, DownloadPackage, To
  <1>3. Download \/ Extracted \/ WriteScript \/ UNCHANGED work
    BY <1>1, <1>2, WorkMoves
  <1>4. CASE UNCHANGED work /\ ~Extracted /\ ~Download
    <2>1. CASE UNCHANGED <<server, slot, work, task>>
      BY <1>4, <2>1
    <2>2. UpdateStep \/ Leave \/ WatchEnds => task'.now = task.now
      BY <1>4 DEF UpdateStep, Resolve, WriteScript, Spawn, DownloadPackage, InstallPackage,
          InstallRefused, StepFails, TimeOut, CleanUp, Leave, WatchEnds, To, At, Resting
    <2>3. LateExtracted \/ ServiceStarts \/ BootTasks => task'.now = task.now
      BY DEF LateExtracted, ServiceStarts, BootTasks
    <2>4. HelperRestart \/ HelperRestartAgain \/ UnitInstall \/ Crash \/ PowerCut
             => work'.pc = "idle"
      BY DEF HelperRestart, HelperRestartAgain, UnitInstall, Crash, PowerCut, Restarted,
          Resting
    <2> QED
      BY <1>1, <1>4, <2>1, <2>2, <2>3, <2>4, ProcessFrame
  <1> QED
    BY <1>3, <1>4

\* How the script reaches its backup and its swap.
LEMMA ScriptMoves ==
    ASSUME Shape, [Next]_vars, helper'.pc \in {"backup", "swap"}
    PROVE  \/ Spawn \/ HelperBackup \/ HelperSwap \/ HelperSwapFails
           \/ UNCHANGED helper
  <1>1. HelperRestart \/ HelperUnhealthy \/ HelperRestore \/ HelperHealthy
           \/ HelperRestartAgain \/ PowerCut
          => helper'.pc \notin {"backup", "swap"}
    BY DEF HelperRestart, HelperUnhealthy, HelperRestore, HelperHealthy, HelperRestartAgain,
        HelperDone, PowerCut, NoScript, Shape, HelperShape, ScriptPcs
  <1>2. UnitInstall => UNCHANGED helper
    BY DEF UnitInstall
  <1> QED
    BY <1>1, <1>2, FilesFrame DEF HelperStep

\* The script at its backup and in its swap.
LEMMA ScriptAt ==
    ASSUME HelperShape
    PROVE  /\ helper.pc = "backup" => helper.tag \in Tags
                 /\ helper = [pc |-> "backup", tag |-> helper.tag, left |-> <<>>]
           /\ helper.pc = "swap" => /\ helper.tag \in Tags /\ helper.left \in Lists(helper.tag)
                                    /\ helper = [pc |-> "swap", tag |-> helper.tag,
                                                  left |-> helper.left]
  BY DEF HelperShape, NoScript, ScriptPcs

\* During an extraction the parts before it are there, or the archives are gone.
LEMMA StagedExtract ==
    ASSUME Shape, Mode, Private, Staged, [Next]_vars, ~swept',
           work'.pc = "extract", dir'.archives = work'.tag
    PROVE  /\ task'.now.part # "binary" => dir'.staged["binary"] = work'.tag
           /\ task'.now.part = "catalog" => dir'.staged["site"] = work'.tag
  <1>0. ~swept
    BY SweptStays
  <1>1. CASE Download
    BY <1>1 DEF Download, Extracting, Shape, ProcessTypes
  <1>2. CASE Extracted
    <2>1. /\ task.now \in Extractions /\ work.pc = "extract" /\ task.now.tag = work.tag
             /\ work.tag \in Tags
          /\ dir.archives = work.tag
          /\ work.tag \in Legacy => task.now.part # "catalog"
      BY <1>2 DEF Extracted, Shape, ProcessTypes, WorkShape
    <2>2. /\ task.now.part # "binary" => dir.staged["binary"] = work.tag
          /\ task.now.part = "catalog" => dir.staged["site"] = work.tag
      BY <1>0, <2>1 DEF Staged
    <2>3. dir'.staged = [dir.staged EXCEPT ![task.now.part] = work.tag]
      BY <1>2, <2>1 DEF Extracted, Unpacked, Shape, DirTypes, Dirs, Extractions
    <2>4. /\ work' = work
          /\ PartAfter(task.now.tag, task.now.part) # None
          /\ task'.now = [task.now EXCEPT !.part = PartAfter(task.now.tag, task.now.part)]
      BY <1>2, <2>1 DEF Extracted, Extracting, To, Shape, ProcessTypes
    <2>5. task'.now.part = PartAfter(work.tag, task.now.part)
      BY <2>1, <2>4 DEF Extractions
    <2>6. dir.staged \in [Parts -> Tags \cup {None}] /\ task.now.part \in Parts
      BY <2>1 DEF Shape, DirTypes, Dirs, Extractions
    <2>7. CASE task.now.part = "binary"
      BY <2>1, <2>3, <2>4, <2>5, <2>6, <2>7, NextPart
    <2>8. CASE task.now.part = "site"
      BY <2>1, <2>2, <2>3, <2>4, <2>5, <2>6, <2>8, NextPart DEF Parts
    <2>9. CASE task.now.part = "catalog"
      BY <2>1, <2>4, <2>5, <2>9, NextPart
    <2> QED
      BY <2>6, <2>7, <2>8, <2>9 DEF Parts
  <1>3. CASE UNCHANGED work /\ task'.now = task.now /\ ~Extracted
    <2>1. work.tag \in Tags
      BY <1>3 DEF Shape, ProcessTypes, WorkShape
    <2>2. dir'.archives = dir.archives /\ dir'.staged = dir.staged
      <3>1. ~WriteScript /\ ~ScriptNeeds
        BY <1>3, NeedsRest DEF WriteScript, At, Resting
      <3>2. dir' # NoDir
        BY <1>3, <2>1, UpdateTypes DEF NoDir
      <3> QED
        BY <1>3, <3>1, <3>2, DirMoves
    <2> QED
      BY <1>0, <1>3, <2>2 DEF Staged
  <1>4. ~WriteScript
    BY DEF WriteScript, To, Shape, ProcessTypes
  <1> QED
    BY <1>1, <1>2, <1>3, <1>4, WorkReaches

\* The last extraction completes the release.
LEMMA StagedScript ==
    ASSUME Shape, Mode, Private, Staged, [Next]_vars, ~swept',
           work'.pc = "script",
           dir'.staged["binary"] # None
    PROVE  AllStaged(work.tag)' /\ work'.tag = work.tag
  <1>0. ~swept
    BY SweptStays
  <1>1. CASE Extracted
    <2>1. /\ task.now \in Extractions /\ work.pc = "extract" /\ task.now.tag = work.tag
             /\ work.tag \in Tags
          /\ dir.archives = work.tag
          /\ work.tag \in Legacy => task.now.part # "catalog"
      BY <1>1 DEF Extracted, Shape, ProcessTypes, WorkShape
    <2>2. /\ task.now.part # "binary" => dir.staged["binary"] = work.tag
          /\ task.now.part = "catalog" => dir.staged["site"] = work.tag
      BY <1>0, <2>1 DEF Staged
    <2>3. dir'.staged = [dir.staged EXCEPT ![task.now.part] = work.tag]
      BY <1>1, <2>1 DEF Extracted, Unpacked, Shape, DirTypes, Dirs, Extractions
    <2>4. work'.tag = work.tag /\ PartAfter(work.tag, task.now.part) = None
      BY <1>1, <2>1 DEF Extracted, Extracting, To, Shape, ProcessTypes
    <2>5. dir.staged \in [Parts -> Tags \cup {None}] /\ task.now.part \in Parts
      BY <2>1 DEF Shape, DirTypes, Dirs, Extractions
    <2>6. task.now.part = IF work.tag \in Legacy THEN "site" ELSE "catalog"
      BY <2>1, <2>4, <2>5, NextPart, UpdateTypes DEF Parts
    <2>7. \A p \in Of(PartsOf(work.tag)) : dir'.staged[p] = work.tag
      BY <2>1, <2>2, <2>3, <2>5, <2>6, ListElements DEF Parts
    <2> QED
      BY <2>4, <2>7 DEF AllStaged
  <1>2. CASE UNCHANGED work /\ task'.now = task.now /\ ~Extracted
    <2>1. dir'.staged = dir.staged
      <3>1. ~WriteScript /\ ~ScriptNeeds
        BY <1>2, NeedsRest DEF WriteScript, To, At, Resting, Shape, ProcessTypes
      <3>2. dir' # NoDir
        BY DEF NoDir, Same, Parts
      <3> QED
        BY <1>2, <3>1, <3>2, DirMoves
    <2> QED
      BY <1>0, <1>2, <2>1 DEF Staged, AllStaged
  <1>3. ~Download /\ ~WriteScript
    BY DEF Download, WriteScript, To, Shape, ProcessTypes
  <1> QED
    BY <1>1, <1>2, <1>3, WorkReaches

\* The script is only written for a release that is complete.
LEMMA StagedSpawn ==
    ASSUME Shape, Mode, Private, Staged, [Next]_vars, ~swept',
           work'.pc = "spawn", script' # None
    PROVE  script' = work'.tag /\ AllStaged(work.tag)' /\ work'.tag = work.tag
  <1>0. ~swept
    BY SweptStays
  <1>1. CASE WriteScript
    <2>1. /\ work.pc = "script" /\ dir.staged["binary"] # None
          /\ script' = work.tag /\ work'.tag = work.tag /\ dir' = dir
      BY <1>1 DEF WriteScript, FilesGone, At, To, Shape, ProcessTypes
    <2> QED
      BY <1>0, <2>1 DEF Staged, AllStaged
  <1>2. CASE UNCHANGED work /\ task'.now = task.now /\ ~WriteScript
    <2>1. dir'.staged = dir.staged /\ script' = script
      <3>1. ~Extracted /\ ~ScriptNeeds
        BY <1>2, NeedsRest DEF Extracted, Resting, Shape, ProcessTypes, WorkShape
      <3> QED
        BY <1>2, <3>1, DirMoves
    <2> QED
      BY <1>0, <1>2, <2>1 DEF Staged, AllStaged
  <1>3. ~Download /\ ~Extracted
    BY DEF Download, Extracted, To, Shape, ProcessTypes, WorkShape
  <1> QED
    BY <1>1, <1>2, <1>3, WorkReaches

\* The script finds what it was written for, and takes one part after the other.
LEMMA StagedHelper ==
    ASSUME Shape, Mode, Private, Staged, [Next]_vars, ~swept'
    PROVE  /\ helper'.pc = "backup"
                 => \A p \in Of(PartsOf(helper'.tag)) : dir'.staged[p] = helper'.tag
           /\ helper'.pc = "swap" => \A p \in Of(helper'.left) : dir'.staged[p] = helper'.tag
  <1> SUFFICES ASSUME helper'.pc \in {"backup", "swap"}
               PROVE  /\ helper'.pc = "backup"
                            => \A p \in Of(PartsOf(helper'.tag)) : dir'.staged[p] = helper'.tag
                      /\ helper'.pc = "swap"
                            => \A p \in Of(helper'.left) : dir'.staged[p] = helper'.tag
    OBVIOUS
  <1>0. ~swept /\ HelperShape
    BY SweptStays DEF Shape
  <1>1. CASE Spawn
    <2>1. work.pc = "spawn" /\ dir' = dir
      BY <1>1 DEF Spawn, At, fileVars
    <2>2. CASE helper = NoScript /\ script # None
      <3>1. helper' = [pc |-> "backup", tag |-> work.tag, left |-> <<>>] /\ AllStaged(work.tag)
        BY <1>0, <1>1, <2>1, <2>2 DEF Spawn, Staged
      <3> QED
        BY <2>1, <3>1 DEF AllStaged
    <2>3. CASE ~(helper = NoScript /\ script # None)
      <3>1. ScriptNeeds
        BY <1>0, <1>1, <2>3 DEF Spawn, ScriptNeeds
      <3> QED
        BY <2>1, <3>1, NeedsRest DEF Resting
    <2> QED
      BY <2>2, <2>3
  <1>2. CASE HelperBackup
    <2>1. /\ helper.pc = "backup" /\ dir' = dir
          /\ helper'.pc = "swap" /\ helper'.left = PartsOf(helper.tag) /\ helper'.tag = helper.tag
      BY <1>0, <1>2, ScriptAt DEF HelperBackup
    <2> QED
      BY <1>0, <2>1 DEF Staged, AllStaged
  <1>3. CASE HelperSwap
    <2>1. /\ helper.pc = "swap" /\ helper.tag \in Tags /\ helper.left \in Lists(helper.tag)
          /\ dir' = [dir EXCEPT !.staged[Head(helper.left)] = None]
          /\ helper'.tag = helper.tag /\ helper'.left = Tail(helper.left)
                /\ helper'.pc \in {"swap", "restart"}
      BY <1>0, <1>3, ScriptAt DEF HelperSwap, NextSwap
    <2>2. \A p \in Of(helper.left) : dir.staged[p] = helper.tag
      BY <1>0, <2>1 DEF Staged
    <2>3. dir'.staged = [dir.staged EXCEPT ![Head(helper.left)] = None]
             /\ dir.staged \in [Parts -> Tags \cup {None}]
      BY <2>1 DEF Shape, DirTypes, Dirs
    <2>4. Of(helper'.left) = Of(helper.left) \ {Head(helper.left)}
             /\ Of(helper.left) \subseteq Parts
      BY <2>1, ListElements DEF Parts
    <2>5. \A p \in Of(helper'.left) : dir'.staged[p] = helper'.tag
      BY <2>1, <2>2, <2>3, <2>4
    <2> QED
      BY <2>1, <2>5
  <1>3a. CASE HelperSwapFails
    <2>1. /\ helper.pc = "swap" /\ helper.tag \in Tags /\ helper.left \in Lists(helper.tag)
          /\ dir' = dir
          /\ helper'.tag = helper.tag /\ helper'.left = Tail(helper.left)
                /\ helper'.pc \in {"swap", "restart"}
      BY <1>0, <1>3a, ScriptAt DEF HelperSwapFails, NextSwap
    <2>2. \A p \in Of(helper.left) : dir.staged[p] = helper.tag
      BY <1>0, <2>1 DEF Staged
    <2>3. Of(helper'.left) \subseteq Of(helper.left)
      BY <2>1, ListElements DEF Parts
    <2> QED
      BY <2>1, <2>2, <2>3
  <1>4. CASE UNCHANGED helper /\ ~Spawn /\ ~HelperSwap
    <2>1. ScriptNeeds /\ ~swept
      BY <1>0, <1>4 DEF ScriptNeeds
    <2>2. dir'.staged = dir.staged
      <3>1. ~Extracted /\ ~WriteScript
        BY <2>1, NeedsRest DEF Extracted, WriteScript, At, Resting, Shape, ProcessTypes,
            WorkShape
      <3> QED
        BY <1>4, <2>1, <3>1, DirMoves
    <2> QED
      BY <1>0, <1>4, <2>2 DEF Staged, AllStaged
  <1> QED
    BY <1>1, <1>2, <1>3, <1>3a, <1>4, ScriptMoves

\* All of it after every step.
LEMMA StagedStep == Shape /\ Mode /\ Private /\ Staged /\ [Next]_vars => Staged'
  <1> SUFFICES ASSUME Shape, Mode, Private, Staged, [Next]_vars, ~swept' PROVE Staged'
    BY DEF Staged
  <1>1. work'.pc = "script" /\ dir'.staged["binary"] # None => AllStaged(work.tag)'
    BY StagedScript DEF AllStaged
  <1> QED
    BY <1>1, StagedExtract, StagedSpawn, StagedHelper DEF Staged, AllStaged

\* All of it holds initially.
LEMMA InstallInit == Init => Mode /\ Owned /\ PackageKept /\ BackedUp /\ Private /\ Staged
  <1> SUFFICES ASSUME Init PROVE Mode /\ Owned /\ PackageKept /\ BackedUp /\ Private /\ Staged
    OBVIOUS
  <1> USE DEF Init, NoScript, NoUnit, Resting
  <1>1. Mode /\ Owned /\ PackageKept
    BY DEF Mode, Owned, HelperOwnsResult, PackageKept
  <1>2. BackedUp
    BY DEF BackedUp, RollbackRestores
  <1>3. Private /\ Staged
    BY DEF Private, ScriptNeeds, Staged
  <1> QED
    BY <1>1, <1>2, <1>3

\* The package stays until the package manager has it, and the staged files until the
\* script has moved them (NeededIsKept), unless an extraction may outlive its
\* request and make the directory again.
THEOREM NeededFilesStay == ~Overruns => (Spec => []NeededIsKept)
  <1> SUFFICES ASSUME ~Overruns PROVE Spec => []NeededIsKept
    OBVIOUS
  <1>1. Shape /\ PackageKept /\ Staged => NeededIsKept
    <2> SUFFICES ASSUME Shape, PackageKept, Staged, ~swept
                 PROVE  /\ unit.pc \in {"pending", "install"} => dir.package = unit.tag
                        /\ helper.pc = "swap" =>
                              \A i \in DOMAIN helper.left : dir.staged[helper.left[i]] = helper.tag
      BY DEF NeededIsKept
    <2> QED
      BY DEF PackageKept, Staged, Of
  <1>2. ~Overruns
    OBVIOUS
  <1>3. Shape /\ Private /\ [Next]_vars => Private'
    BY <1>2, PrivateStep
  <1> QED
    BY <1>1, <1>3, InstallInit, ShapeInvariant, ModeStep, OwnedStep, PackageKeptStep,
       StagedStep, PTL
      DEF Spec

\* Of a package that holds whatever extractions do: start_update runs none.
THEOREM PackageStays == Spec => []PackageKept
  BY InstallInit, ShapeInvariant, ModeStep, OwnedStep, PackageKeptStep, PTL DEF Spec

-----------------------------------------------------------------------------
(* What is installed is of one release.                                    *)

\* The files f are there and of one release.
OneRelease(f) ==
    /\ f["binary"] # None
    /\ f["site"] = f["binary"]
    /\ f["binary"] \notin Legacy => f["catalog"] = f["binary"]

\* Unless a failure is known to have left parts missing, installed is whole before
\* the swap, what was found is whole until the rollback, the swap that has not
\* failed has installed what it has passed, and so installed is whole after
\* a swap, or a rollback, that has not failed.
Whole ==
    ~cut /\ ~swept =>
        /\ helper.pc \in {"none", "backup"} /\ ~torn => OneRelease(installed)
        /\ helper.pc \in {"swap", "restart", "poll", "restore"} /\ ~torn => OneRelease(before)
        /\ helper.pc = "swap" /\ failed.move = {} =>
              \A p \in Of(PartsOf(helper.tag)) \ Of(helper.left) : installed[p] = helper.tag
        /\ helper.pc \in {"restart", "poll", "restore"} /\ failed.move = {} =>
              OneRelease(installed)
        /\ helper.pc = "again" /\ ~torn /\ failed.copy \cup failed.back = {} =>
              OneRelease(installed)

\* A script that did not get to its end is not forgotten.
LEMMA CutStays ==
    ASSUME Shape, [Next]_vars
    PROVE  ~cut' => ~cut
  BY FilesFrame DEF Spawn, HelperStep, HelperBackup, HelperSwap, HelperSwapFails, HelperRestart, HelperHealthy,
      HelperUnhealthy, HelperRestore, HelperRestartAgain, UnitInstall, PowerCut, history,
      Shape, OtherTypes

\* A swap that has moved everything has installed the release.
LEMMA SwapEnds ==
    ASSUME NEW t \in Tags, NEW f, \A p \in Of(PartsOf(t)) : f[p] = t
    PROVE  OneRelease(f)
  <1>1. "binary" \in Of(PartsOf(t)) /\ "site" \in Of(PartsOf(t))
        /\ (t \notin Legacy => "catalog" \in Of(PartsOf(t)))
    BY ListElements DEF Parts
  <1> QED
    BY <1>1, UpdateTypes DEF OneRelease

\* Each part that the script moves makes more of the release, and each part that it
\* puts back more of what was there.
LEMMA WholeStep ==
    Shape /\ Mode /\ Unhurt /\ BackedUp /\ Private /\ Staged /\ Whole /\ [Next]_vars => Whole'
  <1> SUFFICES ASSUME Shape, Mode, Unhurt, BackedUp, Private, Staged, Whole, [Next]_vars,
                      ~cut', ~swept'
               PROVE  Whole'
    BY DEF Whole
  <1>0. /\ ~swept /\ ~cut /\ HelperShape /\ FileTypes /\ torn \in BOOLEAN
        /\ failed \in [copy : SUBSET Parts, move : SUBSET Parts, back : SUBSET Parts]
    BY SweptStays, CutStays DEF Shape, OtherTypes
  <1> USE <1>0
  <1>1. CASE UNCHANGED <<packaged, installed, backup, before, helper, cut, wounds>>
    BY <1>1 DEF Whole, OneRelease, wounds
  <1>2. CASE Spawn
    <2>1. UNCHANGED <<installed, failed, torn>>
      BY <1>2 DEF Spawn, fileVars, wounds
    <2>2. \/ UNCHANGED <<helper, before>>
          \/ helper.pc = "none" /\ helper'.pc = "backup"
      BY <1>2 DEF Spawn, NoScript
    <2> QED
      BY <2>1, <2>2 DEF Whole, OneRelease
  <1>3. CASE HelperBackup
    <2>1. /\ helper.pc = "backup" /\ helper.tag \in Tags
          /\ helper'.pc = "swap" /\ helper'.tag = helper.tag /\ helper'.left = PartsOf(helper.tag)
          /\ UNCHANGED <<installed, before, torn>>
      BY <1>3, ScriptAt DEF HelperBackup
    <2>2. (~torn => OneRelease(installed)) /\ before = installed
      BY <2>1 DEF Whole, BackedUp
    <2> QED
      BY <2>1, <2>2 DEF Whole, OneRelease
  <1>4. CASE HelperSwap
    <2> DEFINE p == Head(helper.left)
    <2>1. /\ helper.pc = "swap" /\ helper.tag \in Tags /\ helper.left \in Lists(helper.tag)
          /\ installed' = [installed EXCEPT ![p] = dir.staged[p]]
          /\ UNCHANGED <<before, failed, torn>>
          /\ helper'.tag = helper.tag /\ helper'.left = Tail(helper.left)
          /\ helper'.pc = IF Len(helper.left) = 1 THEN "restart" ELSE "swap"
      BY <1>4, ScriptAt DEF HelperSwap, NextSwap, history, wounds
    <2>2. /\ p \in Of(helper.left) /\ Of(helper.left) \subseteq Of(PartsOf(helper.tag))
          /\ Of(helper'.left) = Of(helper.left) \ {p}
          /\ Len(helper.left) = 1 => Of(helper.left) = {p}
          /\ Of(PartsOf(helper.tag)) \subseteq Parts
      BY <2>1, ListElements DEF Parts
    <2>3. dir.staged[p] = helper.tag
      BY <2>1, <2>2 DEF Staged
    <2>4. ~torn => OneRelease(before)
      BY <2>1 DEF Whole
    <2>5. failed.move = {} =>
             \A q \in Of(PartsOf(helper.tag)) \ Of(helper'.left) : installed'[q] = helper.tag
      <3>1. failed.move = {} =>
               \A q \in Of(PartsOf(helper.tag)) \ Of(helper.left) : installed[q] = helper.tag
        BY <2>1 DEF Whole
      <3> QED
        BY <2>1, <2>2, <2>3, <3>1 DEF FileTypes
    <2>6. Len(helper.left) = 1 /\ failed.move = {} => OneRelease(installed')
      <3> SUFFICES ASSUME Len(helper.left) = 1, failed.move = {} PROVE OneRelease(installed')
        OBVIOUS
      <3>1. \A q \in Of(PartsOf(helper.tag)) : installed'[q] = helper.tag
        BY <2>2, <2>5
      <3> QED
        BY <2>1, <3>1, SwapEnds
    <2> QED
      BY <2>1, <2>4, <2>5, <2>6 DEF Whole, OneRelease
  <1>4a. CASE HelperSwapFails
    <2>1. /\ helper.pc = "swap" /\ UNCHANGED <<before, torn>>
          /\ helper'.pc \in {"swap", "restart"}
          /\ failed'.move # {}
      BY <1>4a, ScriptAt DEF HelperSwapFails, NextSwap
    <2>2. ~torn => OneRelease(before)
      BY <2>1 DEF Whole
    <2> QED
      BY <2>1, <2>2 DEF Whole, OneRelease
  <1>5. CASE HelperRestart \/ HelperUnhealthy
    <2>1. helper.pc \in {"restart", "poll"} /\ helper'.pc \in {"poll", "restore"}
             /\ UNCHANGED <<installed, before, failed, torn>>
      BY <1>5 DEF HelperRestart, HelperUnhealthy, HelperShape, NoScript, fileVars, history, wounds
    <2> QED
      BY <2>1 DEF Whole, OneRelease
  <1>6. CASE HelperRestore
    <2>1. helper.pc = "restore" /\ helper'.pc = "again" /\ UNCHANGED <<before, torn, cut>>
      BY <1>6 DEF HelperRestore, HelperShape, NoScript
    <2>2. ~torn => OneRelease(before)
      BY <2>1 DEF Whole
    <2>3. RollbackRestores'
      BY BackedUpStep DEF BackedUp
    <2>4. ASSUME ~torn, failed'.copy \cup failed'.back = {} PROVE OneRelease(installed')
      <3>1. \A p \in Parts : before[p] # None => installed'[p] = before[p]
        BY <2>1, <2>3, <2>4 DEF RollbackRestores
      <3>2. "binary" \in Parts /\ "site" \in Parts /\ "catalog" \in Parts
        BY DEF Parts
      <3> QED
        BY <2>2, <2>4, <3>1, <3>2 DEF OneRelease
    <2> QED
      BY <2>1, <2>4 DEF Whole, OneRelease
  <1>7. CASE HelperHealthy
    <2>1. helper.pc = "poll" /\ helper'.pc = "none" /\ UNCHANGED installed
          /\ torn' = (failed.move # {})
      BY <1>7 DEF HelperHealthy, HelperDone, NoScript
    <2> QED
      BY <2>1 DEF Whole, OneRelease
  <1>7a. CASE HelperRestartAgain
    <2>1. helper.pc = "again" /\ helper'.pc = "none" /\ UNCHANGED installed
          /\ torn' = (torn \/ failed.copy \cup failed.back # {})
      BY <1>7a DEF HelperRestartAgain, HelperDone, NoScript
    <2> QED
      BY <2>1 DEF Whole, OneRelease
  <1>8. CASE UnitInstall
    <2>1. helper.pc = "none" /\ UNCHANGED helper
      BY <1>8 DEF UnitInstall, Mode
    <2>2. unit.tag \in Tags
      BY <1>8 DEF UnitInstall, Shape, PackageTypes, UnitShape, NoUnit
    <2>3. \A q \in Parts : installed'[q] = unit.tag
      BY <1>8 DEF UnitInstall, Same
    <2>4. OneRelease(installed')
      BY <2>2, <2>3, UpdateTypes DEF OneRelease, Parts
    <2> QED
      BY <2>1, <2>4 DEF Whole, OneRelease
  <1>9. ASSUME StoppedInstalling, helper.pc = "none", helper'.pc = "none" PROVE Whole'
    <2>1. ~torn' => ~torn /\ UNCHANGED installed
      BY <1>9 DEF StoppedInstalling
    <2> QED
      BY <1>9, <2>1 DEF Whole, OneRelease
  <1>10. CASE PowerCut
    <2>1. StoppedInstalling /\ helper' = NoScript /\ cut' = (cut \/ helper # NoScript)
      BY <1>10 DEF PowerCut
    <2>2. helper = NoScript
      BY <2>1
    <2>3. helper.pc = "none" /\ helper'.pc = "none"
      BY <2>1, <2>2 DEF NoScript
    <2> QED
      BY <1>9, <2>1, <2>3
  <1>11. CASE StoppedInstalling /\ UNCHANGED <<packaged, backup, before, helper, cut, failed>>
    <2>1. UNCHANGED <<installed, torn>> \/ helper.pc = "none"
      BY <1>11 DEF StoppedInstalling, Mode
    <2> QED
      BY <1>9, <1>11, <2>1 DEF Whole, OneRelease
  <1> QED
    BY <1>1, <1>2, <1>3, <1>4, <1>4a, <1>5, <1>6, <1>7, <1>7a, <1>8, <1>10, <1>11, FilesFrame
      DEF HelperStep

\* Outside the swap binary, site and catalog are of one release, whatever fails
\* and whoever restarts (InstalledIsWhole): also when a move fails and the rollback
\* makes it good, and when a copy fails and no rollback needs it; unless an
\* extraction may outlive its request.
THEOREM OneReleaseInstalled == ~Overruns => (Spec => []InstalledIsWhole)
  <1> SUFFICES ASSUME ~Overruns PROVE Spec => []InstalledIsWhole
    OBVIOUS
  <1>1. Shape /\ Whole => InstalledIsWhole
    <2> SUFFICES ASSUME Shape, Whole, ~cut, ~swept, ~Incomplete PROVE OneRelease(installed)
      BY DEF InstalledIsWhole, OneRelease
    <2>1. helper.pc \in ScriptPcs
      BY DEF Shape, HelperShape, NoScript, ScriptPcs
    <2> QED
      BY <2>1 DEF Whole, Incomplete, ScriptPcs
  <1>2. Init => Whole /\ Unhurt
    BY UpdateTypes DEF Init, Whole, Unhurt, OneRelease, NoScript, Same, Parts
  <1>3. ~Overruns
    OBVIOUS
  <1>4. Shape /\ Private /\ [Next]_vars => Private'
    BY <1>3, PrivateStep
  <1> QED
    BY <1>1, <1>2, <1>4, InstallInit, ShapeInvariant, ModeStep, UnhurtStep, BackedUpStep,
       StagedStep, WholeStep, PTL
      DEF Spec

-----------------------------------------------------------------------------
(* The activity slot.                                                      *)

\* A worker only exists while the task that will join it holds its guard.
WorkersHaveHolder ==
    \A w \in Workers : employer[w] # Nobody => guard[employer[w]] = "held"

\* A clone that waits to be sent and is not Idle belongs to a thread whose
\* activity is still in the slot, so it can never be sent after Drop's Idle.
PendingHasHolder ==
    /\ \A t \in Tasks : outbox[t] \in Activities => guard[t] # "none"
    /\ \A w \in Workers :
          outbox[w] # Nobody => outbox[w] \in Activities /\ employer[w] # Nobody

\* Only a connected stream has something queued, and a lagging one has.
QueuesOfSubscribers ==
    \A c \in Clients :
        /\ conn[c] = "off" => queue[c] = <<>>
        /\ lagged[c] => queue[c] # <<>>

\* The last thing c will have shown once its queue is empty is Idle.
EndsIdle(c) ==
    IF queue[c] # <<>> THEN queue[c][Len(queue[c])] = Idle
                       ELSE conn[c] = "live" => view[c] = Idle

\* While the slot is Idle, a stream that would not end up showing Idle is
\* still owed an Idle broadcast.
IdleIsOwed ==
    activity = Idle =>
        \A c \in Clients :
            conn[c] = "off" \/ EndsIdle(c) \/ \E p \in Threads : outbox[p] = Idle

\* The inductive invariant of the slot.
IInv ==
    /\ SlotTypeOK
    /\ SlotHasOneHolder
    /\ WorkersHaveHolder
    /\ PendingHasHolder
    /\ QueuesOfSubscribers
    /\ IdleIsOwed

-----------------------------------------------------------------------------
\* A non-Idle slot value is a record whose task is one of Tasks.
LEMMA ActivityShape ==
    ASSUME SlotTypeOK, activity # Idle
    PROVE  /\ activity \in Activities
           /\ activity.task \in Tasks
           /\ activity.phase \in {"running", "terminal"}
           /\ activity = [task |-> activity.task, phase |-> activity.phase]
  BY DEF SlotTypeOK, Shown, Activities

\* Broadcasting keeps the queue within the capacity and puts the value last.
LEMMA EnqueueShape ==
    ASSUME NEW q \in Seq(Shown), Len(q) <= Cap, NEW m \in Shown
    PROVE  /\ Enqueue(q, m) \in Seq(Shown)
           /\ Len(Enqueue(q, m)) <= Cap
           /\ Enqueue(q, m) # <<>>
           /\ Enqueue(q, m)[Len(Enqueue(q, m))] = m
  <1>1. CASE Len(q) < Cap
    BY <1>1, SlotAssumption DEF Enqueue
  <1>2. CASE ~(Len(q) < Cap)
    <2>1. Len(q) = Cap /\ q # <<>>
      BY <1>2, SlotAssumption
    <2>2. Tail(q) \in Seq(Shown) /\ Len(Tail(q)) = Len(q) - 1
      BY <2>1
    <2> QED
      BY <1>2, <2>1, <2>2, SlotAssumption DEF Enqueue
  <1> QED
    BY <1>1, <1>2

\* A queue is empty exactly when its length is zero.
LEMMA EmptyQueue ==
    ASSUME NEW q \in Seq(Shown)
    PROVE  Len(q) \in Nat /\ (q = <<>> <=> Len(q) = 0)
  OBVIOUS

\* Receiving the head of a longer queue leaves its last value last.
LEMMA TailKeepsLast ==
    ASSUME NEW q \in Seq(Shown), q # <<>>, Len(q) # 1
    PROVE  Tail(q) # <<>> /\ Tail(q)[Len(Tail(q))] = q[Len(q)]
  <1>1. /\ Tail(q) \in Seq(Shown)
        /\ Len(Tail(q)) = Len(q) - 1
        /\ \A i \in 1 .. Len(Tail(q)) : Tail(q)[i] = q[i + 1]
    OBVIOUS
  <1>2. Len(q) \in Nat /\ Len(q) - 1 \in 1 .. (Len(q) - 1)
    <2>1. Len(q) \in Nat
      OBVIOUS
    <2>2. Len(q) # 0
      BY EmptyQueue, Zenon
    <2>3. \A n \in Nat : n # 0 /\ n # 1 => n - 1 \in 1 .. (n - 1)
      OBVIOUS
    <2> QED
      BY <2>1, <2>2, <2>3, Zenon
  <1>3. Tail(q) # <<>>
    <2>1. Tail(q) = <<>> <=> Len(Tail(q)) = 0
      BY <1>1, EmptyQueue, Zenon
    <2> QED
      BY <1>1, <1>2, <2>1
  <1>4. Tail(q)[Len(q) - 1] = q[(Len(q) - 1) + 1]
    BY <1>1, <1>2
  <1>5. (Len(q) - 1) + 1 = Len(q)
    BY <1>2
  <1> QED
    BY <1>1, <1>3, <1>4, <1>5

\* The initial state satisfies the inductive invariant.
LEMMA InitIInv == SlotInit => IInv
  <1> SUFFICES ASSUME SlotInit PROVE IInv
    OBVIOUS
  <1>1. SlotTypeOK
    BY SlotAssumption DEF SlotInit, SlotTypeOK, Shown, Threads
  <1>2. SlotHasOneHolder /\ WorkersHaveHolder /\ QueuesOfSubscribers
    BY DEF SlotInit, SlotHasOneHolder, WorkersHaveHolder, QueuesOfSubscribers
  <1>3. PendingHasHolder
    BY SlotAssumption DEF SlotInit, PendingHasHolder, Threads
  <1>4. IdleIsOwed
    BY DEF SlotInit, IdleIsOwed
  <1> QED
    BY <1>1, <1>2, <1>3, <1>4 DEF IInv

\* The slot's own part of the invariant does not involve the streams.
SlotPart ==
    /\ activity \in Shown
    /\ guard \in [Tasks -> {"none", "held", "leaked"}]
    /\ employer \in [Workers -> Tasks \cup {Nobody}]
    /\ outbox \in [Threads -> Shown \cup {Nobody}]
    /\ SlotHasOneHolder
    /\ WorkersHaveHolder
    /\ PendingHasHolder

\* The streams' part of the type invariant, with QueuesOfSubscribers.
ClientPart ==
    /\ conn \in [Clients -> {"off", "subscribed", "live"}]
    /\ queue \in [Clients -> Seq(Shown)]
    /\ \A c \in Clients : Len(queue[c]) <= Cap
    /\ lagged \in [Clients -> BOOLEAN]
    /\ view \in [Clients -> Shown \cup {Nobody}]
    /\ QueuesOfSubscribers

LEMMA Split == IInv <=> SlotPart /\ ClientPart /\ IdleIsOwed
  BY DEF IInv, SlotPart, ClientPart, SlotTypeOK

\* The slot, the guards, the workers and the outboxes: one step per operation.
LEMMA SlotStep == SlotPart /\ [SlotNext]_slotVars => SlotPart'
  <1> SUFFICES ASSUME SlotPart, [SlotNext]_slotVars PROVE SlotPart'
    OBVIOUS
  <1> USE SlotAssumption DEF SlotPart, SlotHasOneHolder, WorkersHaveHolder, PendingHasHolder,
      Shown, Activities, Threads
  <1>1. ASSUME NEW t \in Tasks, TryStart(t) PROVE SlotPart'
    BY <1>1 DEF TryStart
  <1>2. ASSUME NEW t \in Tasks, NEW w \in Workers, SpawnWorker(t, w) PROVE SlotPart'
    BY <1>2 DEF SpawnWorker
  <1>3. ASSUME NEW t \in Tasks, NEW p \in {"running", "terminal"}, Update(t, p)
        PROVE  SlotPart'
    BY <1>3 DEF Update
  <1>4. ASSUME NEW t \in Tasks, Drop(t) PROVE SlotPart'
    BY <1>4 DEF Drop, Joined
  <1>5. ASSUME NEW t \in Updaters, Leak(t) PROVE SlotPart'
    BY <1>5 DEF Leak, Joined
  <1>6. ASSUME NEW w \in Workers, WorkerUpdate(w) PROVE SlotPart'
    BY <1>6 DEF WorkerUpdate
  <1>7. ASSUME NEW w \in Workers, Join(w) PROVE SlotPart'
    BY <1>7 DEF Join
  <1>8. ASSUME NEW p \in Threads, Send(p) PROVE SlotPart'
    BY <1>8 DEF Send
  <1>9. CASE Restart
    BY <1>9 DEF Restart
  <1>10. CASE UNCHANGED holderVars
    BY <1>10 DEF holderVars
  <1>11. ASSUME NEW c \in Clients, Subscribe(c) \/ Stream(c) \/ Disconnect(c)
         PROVE  UNCHANGED holderVars
    BY <1>11 DEF Subscribe, Stream, Snapshot, Receive, CatchUp, Disconnect
  <1>12. slotVars' = slotVars => UNCHANGED holderVars
    BY DEF slotVars, holderVars
  <1> QED
    BY <1>1, <1>2, <1>3, <1>4, <1>5, <1>6, <1>7, <1>8, <1>9, <1>10, <1>11, <1>12
      DEF SlotNext, TaskStep, WorkerStep

\* The streams keep their types, their capacity and QueuesOfSubscribers.
LEMMA ClientStep ==
    SlotPart /\ ClientPart /\ [SlotNext]_slotVars => ClientPart'
  <1> SUFFICES ASSUME SlotPart, ClientPart, [SlotNext]_slotVars
               PROVE  ClientPart'
    OBVIOUS
  <1>1. ASSUME NEW p \in Threads, Send(p) PROVE ClientPart'
    <2>1. outbox[p] \in Shown
      BY <1>1 DEF SlotPart, Send
    <2>2. \A c \in Clients : /\ Enqueue(queue[c], outbox[p]) \in Seq(Shown)
                            /\ Len(Enqueue(queue[c], outbox[p])) <= Cap
                            /\ Enqueue(queue[c], outbox[p]) # <<>>
      BY <2>1, EnqueueShape DEF ClientPart
    <2>3. \A c \in Clients : lagged'[c] => queue'[c] # <<>>
      BY <1>1, <2>2 DEF Send, ClientPart, QueuesOfSubscribers
    <2> QED
      BY <1>1, <2>2, <2>3 DEF Send, ClientPart, QueuesOfSubscribers
  <1>2. CASE Restart
    BY <1>2, SlotAssumption DEF Restart, ClientPart, QueuesOfSubscribers
  <1>3. ASSUME NEW c \in Clients, Subscribe(c) PROVE ClientPart'
    BY <1>3 DEF Subscribe, ClientPart, QueuesOfSubscribers
  <1>4. ASSUME NEW c \in Clients, Snapshot(c) PROVE ClientPart'
    BY <1>4 DEF Snapshot, ClientPart, SlotPart, QueuesOfSubscribers
  <1>4a. ASSUME NEW c \in Clients, CatchUp(c) PROVE ClientPart'
    <2>1. /\ conn' = conn /\ queue' = queue
          /\ \A d \in Clients : lagged'[d] => lagged[d]
          /\ lagged' \in [Clients -> BOOLEAN]
          /\ view' \in [Clients -> Shown \cup {Nobody}]
      BY <1>4a DEF CatchUp, ClientPart, SlotPart
    <2> QED
      BY <2>1 DEF ClientPart, QueuesOfSubscribers
  <1>5. ASSUME NEW c \in Clients, Receive(c) PROVE ClientPart'
    <2>1. /\ Head(queue[c]) \in Shown
          /\ Tail(queue[c]) \in Seq(Shown)
          /\ Len(Tail(queue[c])) <= Cap
      <3>1. queue[c] \in Seq(Shown) /\ Len(queue[c]) <= Cap /\ queue[c] # <<>>
        BY <1>5 DEF Receive, ClientPart
      <3>2. Len(queue[c]) \in Nat /\ Len(Tail(queue[c])) = Len(queue[c]) - 1
        BY <3>1, EmptyQueue
      <3> QED
        BY <3>1, <3>2, SlotAssumption
    <2> QED
      BY <1>5, <2>1 DEF Receive, ClientPart, QueuesOfSubscribers
  <1>6. ASSUME NEW c \in Clients, Disconnect(c) PROVE ClientPart'
    BY <1>6, SlotAssumption DEF Disconnect, ClientPart, QueuesOfSubscribers
  <1>7. CASE UNCHANGED clientVars
    BY <1>7 DEF clientVars, ClientPart, QueuesOfSubscribers
  <1>8. ASSUME NEW t \in Tasks, TaskStep(t) \/ Leak(t) PROVE UNCHANGED clientVars
    BY <1>8 DEF TaskStep, TryStart, SpawnWorker, Update, Drop, Leak
  <1>9. ASSUME NEW w \in Workers, WorkerStep(w) PROVE UNCHANGED clientVars
    BY <1>9 DEF WorkerStep, WorkerUpdate, Join
  <1>10. slotVars' = slotVars => UNCHANGED clientVars
    BY DEF slotVars, clientVars
  <1> QED
    BY <1>1, <1>2, <1>3, <1>4, <1>4a, <1>5, <1>6, <1>7, <1>8, <1>9, <1>10,
       SlotAssumption
      DEF SlotNext, Stream

\* An Idle broadcast is owed until it is sent, and nothing else is sent then.
LEMMA IdleIsOwedStep ==
    SlotPart /\ ClientPart /\ IdleIsOwed /\ [SlotNext]_slotVars
        => IdleIsOwed'
  <1> SUFFICES ASSUME SlotPart, ClientPart, IdleIsOwed,
                      [SlotNext]_slotVars, activity' = Idle, NEW d \in Clients
               PROVE  conn'[d] = "off" \/ EndsIdle(d)'
                         \/ \E p \in Threads : outbox'[p] = Idle
    BY DEF IdleIsOwed
  <1> DEFINE Goal == conn'[d] = "off" \/ EndsIdle(d)'
                         \/ \E p \in Threads : outbox'[p] = Idle
  <1>1. ASSUME NEW t \in Tasks, Drop(t) PROVE Goal
    BY <1>1 DEF Drop, SlotPart, Threads
  <1>2. ASSUME NEW t \in Tasks,
               \/ TryStart(t) \/ Leak(t) \/ \E w \in Workers : SpawnWorker(t, w)
               \/ \E p \in {"running", "terminal"} : Update(t, p)
        PROVE  activity' # Idle
    BY <1>2, SlotAssumption DEF TryStart, Leak, SpawnWorker, Update, SlotPart,
        SlotHasOneHolder, Shown, Activities
  <1>3. ASSUME NEW w \in Workers, WorkerUpdate(w) \/ Join(w)
        PROVE  activity' # Idle
    BY <1>3 DEF WorkerUpdate, Join, SlotPart, SlotHasOneHolder, WorkersHaveHolder
  <1>4. ASSUME NEW p \in Threads, Send(p) PROVE Goal
    <2>1. outbox[p] = Idle
      BY <1>4 DEF Send, SlotPart, PendingHasHolder, SlotHasOneHolder, WorkersHaveHolder,
          Threads, Shown
    <2>2. Idle \in Shown
      BY DEF Shown
    <2>3. CASE conn[d] # "off"
      <3>1. queue'[d] = Enqueue(queue[d], Idle)
        BY <1>4, <2>1, <2>3 DEF Send
      <3> QED
        BY <3>1, <2>2, EnqueueShape DEF ClientPart, EndsIdle
    <2>4. CASE conn[d] = "off"
      BY <1>4, <2>4 DEF Send
    <2> QED
      BY <2>3, <2>4
  <1>5. CASE Restart
    BY <1>5 DEF Restart
  <1>6. ASSUME NEW c \in Clients, Subscribe(c) PROVE Goal
    BY <1>6 DEF Subscribe, holderVars, ClientPart, QueuesOfSubscribers, EndsIdle, IdleIsOwed
  <1>7. ASSUME NEW c \in Clients, Snapshot(c) \/ CatchUp(c) PROVE Goal
    BY <1>7 DEF Snapshot, CatchUp, holderVars, ClientPart, EndsIdle, IdleIsOwed
  <1>8. ASSUME NEW c \in Clients, Receive(c) PROVE Goal
    <2>1. conn' = conn /\ outbox' = outbox /\ activity' = activity
      BY <1>8 DEF Receive, holderVars
    <2>2. CASE c # d
      BY <1>8, <2>1, <2>2 DEF Receive, ClientPart, EndsIdle, IdleIsOwed
    <2>3. CASE c = d /\ Len(queue[d]) = 1
      <3>1. view'[d] = queue[d][Len(queue[d])] /\ queue'[d] = <<>>
        BY <1>8, <2>3 DEF Receive, ClientPart
      <3> QED
        BY <1>8, <2>1, <2>3, <3>1 DEF Receive, EndsIdle, IdleIsOwed
    <2>4. CASE c = d /\ Len(queue[d]) # 1
      <3>1. queue'[d] # <<>> /\ queue'[d][Len(queue'[d])] = queue[d][Len(queue[d])]
        <4>1. /\ queue'[d] = Tail(queue[d])
              /\ queue[d] \in Seq(Shown)
              /\ queue[d] # <<>>
          BY <1>8, <2>4 DEF Receive, ClientPart
        <4> QED
          BY <2>4, <4>1, TailKeepsLast, Zenon
      <3> QED
        BY <1>8, <2>1, <2>4, <3>1 DEF Receive, EndsIdle, IdleIsOwed
    <2> QED
      BY <2>2, <2>3, <2>4
  <1>9. ASSUME NEW c \in Clients, Disconnect(c) PROVE Goal
    BY <1>9 DEF Disconnect, holderVars, ClientPart, EndsIdle, IdleIsOwed
  <1>10. CASE UNCHANGED slotVars
    BY <1>10 DEF slotVars, EndsIdle, IdleIsOwed
  <1> QED
    BY <1>1, <1>2, <1>3, <1>4, <1>5, <1>6, <1>7, <1>8, <1>9, <1>10,
       SlotAssumption
      DEF SlotNext, TaskStep, WorkerStep, Stream

-----------------------------------------------------------------------------
\* The invariant holds in every reachable state of the slot.
LEMMA SlotInvariant == SlotSpec => []IInv
  <1>1. IInv /\ [SlotNext]_slotVars => IInv'
    BY Split, SlotStep, ClientStep, IdleIsOwedStep DEF IInv, SlotPart, ClientPart, SlotTypeOK
  <1>2. SlotInit => IInv
    BY InitIInv
  <1> QED
    BY <1>1, <1>2, PTL DEF SlotSpec

\* Type correctness of the slot and of every stream, the channel's capacity
\* included (SlotTypeOK).
THEOREM SlotTypeCorrect == SlotSpec => []SlotTypeOK
  <1>1. IInv => SlotTypeOK
    BY DEF IInv
  <1> QED
    BY <1>1, SlotInvariant, PTL

\* try_start_activity and ActivityGuard::drop are a lock, for any number of
\* tasks and workers (SlotHasOneHolder).
THEOREM MutualExclusion == SlotSpec => []SlotHasOneHolder
  <1>1. IInv => SlotHasOneHolder
    BY DEF IInv
  <1> QED
    BY <1>1, SlotInvariant, PTL

\* No browser is left with a finished activity on screen (NoStuckBanner).
THEOREM BannerClears == SlotSpec => []NoStuckBanner
  <1>1. IInv => NoStuckBanner
    <2> SUFFICES ASSUME IInv, NEW c \in Clients, activity = Idle, AllSent, Drained(c)
                 PROVE  view[c] = Idle
      BY DEF NoStuckBanner
    <2>1. \A p \in Threads : outbox[p] # Idle
      BY SlotAssumption DEF AllSent
    <2>2. EndsIdle(c)
      BY <2>1 DEF IInv, IdleIsOwed, Drained
    <2> QED
      BY <2>2 DEF EndsIdle, Drained
  <1> QED
    BY <1>1, SlotInvariant, PTL

\* The slot implements the abstract mutex (ImplementsMutex).
THEOREM SlotIsMutex == SlotSpec => ImplementsMutex
  <1> DEFINE h == IF activity = Idle THEN Nobody ELSE activity.task
  <1>1. SlotInit => Slot!Init
    BY DEF SlotInit, Slot!Init
  <1>2. ASSUME IInv, [SlotNext]_slotVars PROVE [Slot!Next]_h
    <2> USE SlotAssumption
    <2>0. SlotHasOneHolder /\ activity \in Shown
      BY <1>2 DEF IInv, SlotTypeOK
    <2>1. ASSUME NEW t \in Tasks, TryStart(t) PROVE Slot!Acquire(t)
      <3>1. activity' = [task |-> t, phase |-> "running"] /\ activity = Idle
        BY <2>1 DEF TryStart
      <3>2. activity' \in Activities
        BY <3>1 DEF Activities
      <3> QED
        BY <3>1, <3>2 DEF Slot!Acquire
    <2>2. ASSUME NEW t \in Tasks, Drop(t) PROVE Slot!Release
      BY <2>0, <2>2 DEF Drop, SlotHasOneHolder, Slot!Release, Shown, Activities
    <2>3. ASSUME NEW t \in Tasks, NEW p \in {"running", "terminal"}, Update(t, p)
          PROVE  h' = h
      <3>1. activity # Idle /\ activity \in Activities
        BY <2>0, <2>3 DEF Update, SlotHasOneHolder, Shown
      <3>2. activity' = [task |-> activity.task, phase |-> p]
        BY <2>3, <3>1 DEF Update, Activities
      <3>3. activity' \in Activities /\ activity'.task = activity.task
        BY <3>1, <3>2 DEF Activities
      <3> QED
        BY <3>1, <3>3
    <2>4. ASSUME Restart PROVE Slot!Release
      <3>1. PICK t \in Tasks : guard[t] = "leaked"
        BY <2>4 DEF Restart
      <3> QED
        BY <2>0, <2>4, <3>1 DEF Restart, SlotHasOneHolder, Slot!Release, Shown,
            Activities
    <2>5. CASE activity' = activity
      BY <2>5
    <2>6. ASSUME NEW t \in Tasks, Leak(t) \/ \E w \in Workers : SpawnWorker(t, w)
          PROVE  activity' = activity
      BY <2>6 DEF Leak, SpawnWorker
    <2>7. ASSUME NEW w \in Workers, WorkerStep(w) PROVE activity' = activity
      BY <2>7 DEF WorkerStep, WorkerUpdate, Join
    <2>8. ASSUME NEW p \in Threads, Send(p) PROVE activity' = activity
      BY <2>8 DEF Send
    <2>9. ASSUME NEW c \in Clients, Subscribe(c) \/ Stream(c) \/ Disconnect(c)
          PROVE  activity' = activity
      BY <2>9 DEF Subscribe, Stream, Snapshot, Receive, CatchUp, Disconnect,
          holderVars
    <2>10. slotVars' = slotVars => activity' = activity
      BY DEF slotVars
    <2> QED
      BY <1>2, <2>1, <2>2, <2>3, <2>4, <2>5, <2>6, <2>7, <2>8, <2>9, <2>10
        DEF SlotNext, TaskStep, Slot!Next
  <1> QED
    BY <1>1, <1>2, SlotInvariant, PTL DEF SlotSpec, ImplementsMutex, Slot!Spec
=============================================================================
