------------------------ MODULE IdentityPhaseProofs ------------------------
(***************************************************************************)
(* Proofs about IdentityPhase: types, that a settled row carries the hash  *)
(* of its own storage's file except where the generation can not tell,     *)
(* that a stale worker settles nothing in a library opened over it, and    *)
(* that only discovery adds and removes rows.                              *)
(***************************************************************************)
EXTENDS IdentityPhase, TLAPS

-----------------------------------------------------------------------------
(* Facts about the operators.                                              *)

\* Phases and scans are not the absent value, and have their fields.
LEMMA RecordIsThere ==
    /\ \A p \in Phases : /\ p # None /\ p.roms \in SUBSET Files /\ p.force \in BOOLEAN
                         /\ p.gen \in 0 .. MaxGen /\ p.root \in Storages
    /\ \A s \in Scans : /\ s # None /\ s.roms \in SUBSET Files /\ s.force \in BOOLEAN
                        /\ s.gen \in 0 .. MaxGen /\ s.root \in Storages
                        /\ s.stored \in [Files -> Storages \cup {None}]
                        /\ s.saved \in SUBSET (Storages \X Files)
    /\ \A s \in Storages : s # None
  BY IdentityAssumption DEF IdentityAssumption, Phases, Scans

\* A queue that grows by a phase keeps the ones it has.
LEMMA AppendPhase ==
    ASSUME NEW q \in Seq(Phases), NEW p \in Phases
    PROVE  /\ Append(q, p) \in Seq(Phases)
           /\ \A i \in 1 .. Len(Append(q, p)) :
                 Append(q, p)[i] = p \/ \E j \in 1 .. Len(q) : Append(q, p)[i] = q[j]
  OBVIOUS

\* A phase that is taken off the queue was in it, and so are the others.
LEMMA TakePhase ==
    ASSUME NEW q \in Seq(Phases), q # <<>>
    PROVE  /\ Head(q) \in Phases
           /\ Tail(q) \in Seq(Phases)
           /\ \E j \in 1 .. Len(q) : Head(q) = q[j]
           /\ \A i \in 1 .. Len(Tail(q)) : \E j \in 1 .. Len(q) : Tail(q)[i] = q[j]
  <1>1. /\ Head(q) = q[1] /\ Len(q) \in Nat /\ Len(q) >= 1 /\ Head(q) \in Phases
        /\ Tail(q) \in Seq(Phases) /\ Len(Tail(q)) = Len(q) - 1
        /\ \A i \in 1 .. Len(q) - 1 : Tail(q)[i] = q[i + 1]
    OBVIOUS
  <1> QED
    BY <1>1

\* A storage is none of the names of an unsettled row's state.
LEMMA StorageIsNoState ==
    \A s \in Storages : s \notin {"absent", "Pending", "Running", "Failed"}
  BY IdentityAssumption DEF IdentityAssumption

\* Opening a library: its Running rows become Pending, the others stay.
LEMMA RecoveredRows ==
    ASSUME NEW states \in [Files -> IdentityStates]
    PROVE  /\ Recovered(states) \in [Files -> IdentityStates]
           /\ \A f \in Files : /\ Recovered(states)[f] # "Running"
                               /\ Recovered(states)[f] # states[f] =>
                                     /\ states[f] = "Running"
                                     /\ Recovered(states)[f] = "Pending"
  BY DEF Recovered, IdentityStates

\* The same for the library of one storage among all.
LEMMA OpenedRows ==
    ASSUME TypeOK, NEW s \in Storages, OpenRecovered(s)
    PROVE  /\ rows' \in [Storages -> [Files -> IdentityStates]]
           /\ \A f \in Files : rows'[s][f] # "Running"
           /\ \A r \in Storages, f \in Files :
                 \/ rows'[r][f] = rows[r][f]
                 \/ rows[r][f] = "Running" /\ rows'[r][f] = "Pending"
  <1>1. rows \in [Storages -> [Files -> IdentityStates]] /\ rows[s] \in [Files -> IdentityStates]
    BY DEF TypeOK
  <1>2. PICK new : new = Recovered(rows[s])
    OBVIOUS
  <1>3. /\ new \in [Files -> IdentityStates]
        /\ \A f \in Files : /\ new[f] # "Running"
                            /\ new[f] # rows[s][f] => rows[s][f] = "Running" /\ new[f] = "Pending"
    BY <1>1, <1>2, RecoveredRows
  <1>4. rows' = [rows EXCEPT ![s] = new]
    BY <1>1, <1>2 DEF OpenRecovered
  <1> QED
    BY <1>1, <1>3, <1>4

\* The first files of a set are files of it.
LEMMA FirstIsPart == \A S, n : First(S, n) \subseteq S
  BY DEF First

\* The rows a claim takes are rows of the open library.
LEMMA ClaimedRows ==
    ASSUME TypeOK, phase # None, lib # None
    PROVE  /\ Claimable \in SUBSET Files
           /\ \A f \in Claimable : rows[lib][f] # "absent"
           /\ AfterSlice \in SUBSET Files
  <1>2. slices \in SUBSET Files
    BY DEF TypeOK
  <1>3. FirstBatch(slices) \subseteq Files
    BY <1>2, FirstIsPart DEF FirstBatch
  <1>5. FirstBatch({f \in Files : Retryable(f)}) \subseteq {f \in Files : Retryable(f)}
    BY FirstIsPart DEF FirstBatch
  <1>6. CASE phase.force
    BY <1>2, <1>3, <1>6 DEF Claimable, AfterSlice
  <1>7. CASE ~phase.force
    BY <1>2, <1>5, <1>7 DEF Claimable, AfterSlice, Retryable
  <1> QED
    BY <1>6, <1>7

\* A chunk is of files that the scan found and has not saved.
LEMMA ChunkRows ==
    ASSUME TypeOK, scan # None, SaveChunk
    PROVE  /\ lib \in Storages
           /\ NextChunk \subseteq Unsaved
           /\ Unsaved \in SUBSET Files
           /\ rows' \in [Storages -> [Files -> IdentityStates]]
           /\ \A s \in Storages, f \in Files :
                 \/ rows'[s][f] = rows[s][f]
                 \/ /\ s = lib /\ f \in Unsaved
                    /\ rows'[s][f] \notin {"absent", "Running"}
                    /\ rows'[s][f] \in Storages => rows'[s][f] = scan.stored[f]
  <1>1. scan \in Scans /\ scan.stored \in [Files -> Storages \cup {None}] /\ scan.roms \in SUBSET Files
    BY RecordIsThere DEF TypeOK
  <1>2. NextChunk \subseteq Unsaved
    BY FirstIsPart DEF NextChunk
  <1>3. Unsaved \in SUBSET Files
    BY <1>1 DEF Unsaved
  <1>4. lib \in Storages
    BY DEF SaveChunk, TypeOK
  <1>5. \A f \in Files : /\ EntryState(f) \in IdentityStates
                         /\ EntryState(f) \notin {"absent", "Running"}
                         /\ EntryState(f) \in Storages => EntryState(f) = scan.stored[f]
    <2> SUFFICES ASSUME NEW f \in Files
                 PROVE  /\ EntryState(f) \in IdentityStates
                        /\ EntryState(f) \notin {"absent", "Running"}
                        /\ EntryState(f) \in Storages => EntryState(f) = scan.stored[f]
      OBVIOUS
    <2>1. CASE scan.stored[f] # None
      <3>1. EntryState(f) = scan.stored[f] /\ scan.stored[f] \in Storages
        BY <1>1, <2>1 DEF EntryState
      <3> QED
        BY <3>1, StorageIsNoState DEF IdentityStates
    <2>2. CASE scan.stored[f] = None
      <3>1. EntryState(f) = "Pending"
        BY <2>2 DEF EntryState
      <3> QED
        BY <3>1, StorageIsNoState DEF IdentityStates
    <2> QED
      BY <2>1, <2>2
  <1>6. rows \in [Storages -> [Files -> IdentityStates]]
    BY DEF TypeOK
  <1>7. rows' = [rows EXCEPT ![lib] = [f \in Files |-> IF f \in NextChunk THEN EntryState(f) ELSE rows[lib][f]]]
    BY <1>4, <1>6 DEF SaveChunk
  <1>8. \A s \in Storages, f \in Files :
           rows'[s][f] = IF s = lib /\ f \in NextChunk THEN EntryState(f) ELSE rows[s][f]
    BY <1>4, <1>6, <1>7
  <1>9. [f \in Files |-> IF f \in NextChunk THEN EntryState(f) ELSE rows[lib][f]] \in [Files -> IdentityStates]
    BY <1>4, <1>5, <1>6
  <1>10. rows' \in [Storages -> [Files -> IdentityStates]]
    BY <1>6, <1>7, <1>9
  <1> QED
    BY <1>2, <1>3, <1>4, <1>5, <1>8, <1>10

\* A finalize removes rows that the scan has not saved in the open library.
LEMMA PrunedRows ==
    ASSUME TypeOK, Prune
    PROVE  /\ lib \in Storages
           /\ rows' \in [Storages -> [Files -> IdentityStates]]
           /\ \A s \in Storages, f \in Files :
                 \/ rows'[s][f] = rows[s][f]
                 \/ s = lib /\ <<lib, f>> \notin scan.saved /\ rows'[s][f] = "absent"
  <1>1. rows \in [Storages -> [Files -> IdentityStates]] /\ lib \in Storages
    BY DEF TypeOK, Prune
  <1>2. "absent" \in IdentityStates
    BY DEF IdentityStates
  <1>3. rows' = [rows EXCEPT ![lib] = [f \in Files |-> IF <<lib, f>> \in scan.saved THEN rows[lib][f] ELSE "absent"]]
    BY <1>1 DEF Prune
  <1>4. [f \in Files |-> IF <<lib, f>> \in scan.saved THEN rows[lib][f] ELSE "absent"] \in [Files -> IdentityStates]
    BY <1>1, <1>2
  <1>5. \A s \in Storages, f \in Files :
           rows'[s][f] = IF s = lib /\ <<lib, f>> \notin scan.saved THEN "absent" ELSE rows[s][f]
    BY <1>1, <1>3
  <1> QED
    BY <1>1, <1>3, <1>4, <1>5

\* What a settling write does to every row.
LEMMA SettledRows ==
    ASSUME TypeOK, phase \in Phases, Settle
    PROVE  /\ lib \in Storages
           /\ rows' \in [Storages -> [Files -> IdentityStates]]
           /\ \A s \in Storages, f \in Files :
                 \/ rows'[s][f] = rows[s][f]
                 \/ s = lib /\ rows[s][f] = "Running" /\ rows'[s][f] = phase.root
  <1>0. PICK S : S = hashed \cap Unsettled
    OBVIOUS
  <1>1. S \in SUBSET Files /\ \A f \in S : rows[lib][f] = "Running"
    BY <1>0 DEF TypeOK, Unsettled
  <1>2. rows' = Mark(S, phase.root) /\ lib # None
    BY <1>0 DEF Settle
  <1>3. phase.root \in Storages /\ phase.root \in IdentityStates
    BY RecordIsThere DEF IdentityStates
  <1>4. lib \in Storages
    BY <1>2 DEF TypeOK
  <1>5. rows' \in [Storages -> [Files -> IdentityStates]]
    BY <1>1, <1>2, <1>3, <1>4 DEF TypeOK, Mark
  <1>6. \A s \in Storages, f \in Files :
           rows'[s][f] = IF s = lib /\ f \in S THEN phase.root ELSE rows[s][f]
    BY <1>1, <1>2, <1>4 DEF TypeOK, Mark
  <1> QED
    BY <1>1, <1>4, <1>5, <1>6

\* A batch is finished by changing rows of it that are Running.
LEMMA FinishedRows ==
    ASSUME TypeOK, NEW st \in {"Pending", "Failed"}, Finished(st)
    PROVE  /\ rows' \in [Storages -> [Files -> IdentityStates]]
           /\ \A s \in Storages, f \in Files :
                 \/ rows'[s][f] = rows[s][f]
                 \/ rows[s][f] = "Running" /\ rows'[s][f] \in {"Pending", "Failed"}
  <1>1. CASE UNCHANGED rows
    BY <1>1 DEF TypeOK
  <1>2. CASE lib # None /\ rows' = Mark(Unsettled, st)
    <2>1. st \in IdentityStates
      BY DEF IdentityStates
    <2>2. Unsettled \in SUBSET Files /\ \A f \in Unsettled : rows[lib][f] = "Running"
      BY DEF TypeOK, Unsettled
    <2>3. lib \in Storages
      BY <1>2 DEF TypeOK
    <2>4. rows' \in [Storages -> [Files -> IdentityStates]]
      BY <1>2, <2>1, <2>2, <2>3 DEF TypeOK, Mark
    <2>5. \A s \in Storages, f \in Files :
             rows'[s][f] = IF s = lib /\ f \in Unsettled THEN st ELSE rows[s][f]
      BY <1>2, <2>2, <2>3 DEF TypeOK, Mark
    <2> QED
      BY <2>2, <2>4, <2>5
  <1> QED
    BY <1>1, <1>2 DEF Finished

\* A claim makes rows of the open library Running.
LEMMA RunningRows ==
    ASSUME TypeOK, phase # None, lib # None, rows' = Mark(Claimable, "Running")
    PROVE  /\ rows' \in [Storages -> [Files -> IdentityStates]]
           /\ \A s \in Storages, f \in Files :
                 \/ rows'[s][f] = rows[s][f]
                 \/ rows[s][f] # "absent" /\ rows'[s][f] = "Running"
  <1>1. Claimable \in SUBSET Files /\ \A f \in Claimable : rows[lib][f] # "absent"
    BY ClaimedRows
  <1>2. "Running" \in IdentityStates
    BY DEF IdentityStates
  <1>3. lib \in Storages
    BY DEF TypeOK
  <1>4. rows' \in [Storages -> [Files -> IdentityStates]]
    BY <1>1, <1>2, <1>3 DEF TypeOK, Mark
  <1>5. \A s \in Storages, f \in Files :
           rows'[s][f] = IF s = lib /\ f \in Claimable THEN "Running" ELSE rows[s][f]
    BY <1>1, <1>3 DEF TypeOK, Mark
  <1> QED
    BY <1>1, <1>4, <1>5

-----------------------------------------------------------------------------
(* Type correctness.                                                       *)

\* The libraries as earlier processes left them are well typed.
LEMMA TypeInit == Init => TypeOK
  <1> SUFFICES ASSUME Init PROVE TypeOK
    OBVIOUS
  <1>1. PICK left \in [Storages -> [Files -> Leftover]] : rows = [left EXCEPT ![Boot] = Recovered(left[Boot])]
    BY Zenon DEF Init
  <1>0. Boot \in Storages /\ Leftover \subseteq IdentityStates /\ 0 \in 0 .. MaxGen
    BY IdentityAssumption DEF IdentityAssumption, IdentityStates
  <1>2. left \in [Storages -> [Files -> IdentityStates]]
    BY <1>0
  <1>3. PICK old \in [Files -> IdentityStates] : old = left[Boot]
    BY <1>0, <1>2
  <1>4. PICK new \in [Files -> IdentityStates] : new = Recovered(old)
    BY RecoveredRows
  <1>5. rows = [left EXCEPT ![Boot] = new]
    BY <1>1, <1>3, <1>4
  <1>6. rows \in [Storages -> [Files -> IdentityStates]]
    BY <1>0, <1>2, <1>5
  <1>7. /\ lib = Boot /\ loc = Boot /\ gen = 0 /\ act = [pc |-> "idle", to |-> Boot] /\ since = 0
        /\ mixed = FALSE /\ slot = "Idle" /\ scan = None /\ waiting = <<>> /\ phase = None
        /\ pc = "none" /\ claimed = {} /\ attempted = {} /\ slices = {} /\ hashed = {}
    BY Zenon DEF Init
  <1>8. mixed \in BOOLEAN
    BY <1>7
  <1>9. waiting \in Seq(Phases)
    BY <1>7
  <1>10. act \in [pc : {"idle", "open", "close", "attach", "locate"}, to : Storages]
    BY <1>0, <1>7
  <1> QED
    BY <1>0, <1>6, <1>7, <1>8, <1>9, <1>10 DEF TypeOK

\* The activation and the restart.
LEMMA TypeEnvironment ==
    ASSUME TypeOK, Activate \/ Restart
    PROVE  TypeOK'
  <1> USE DEF storageVars, jobVars
  <1>0. act.to \in Storages /\ act.pc \in {"idle", "open", "close", "attach", "locate"}
    BY DEF TypeOK
  <1>1. ASSUME NEW s \in Storages, ActivateBump(s) PROVE TypeOK'
    <2>1. gen' \in 0 .. MaxGen
      BY <1>1, IdentityAssumption DEF ActivateBump, TypeOK, IdentityAssumption
    <2> QED
      BY <1>1, <2>1 DEF ActivateBump, TypeOK
  <1>2. CASE ActivateOpen
    <2>1. rows' \in [Storages -> [Files -> IdentityStates]]
      BY <1>0, <1>2, OpenedRows DEF ActivateOpen
    <2> QED
      BY <1>2, <2>1 DEF ActivateOpen, TypeOK
  <1>3. CASE ActivateClose
    BY <1>3 DEF ActivateClose, TypeOK
  <1>4. CASE ActivateAttach
    <2>1. mixed' \in BOOLEAN
      BY <1>4 DEF ActivateAttach
    <2> QED
      BY <1>0, <1>4, <2>1 DEF ActivateAttach, TypeOK
  <1>5. CASE ActivateLocate
    BY <1>0, <1>5 DEF ActivateLocate, TypeOK
  <1>6. CASE ActivateFails
    BY <1>6 DEF ActivateFails, TypeOK
  <1>7. CASE Restart
    <2>1. rows' \in [Storages -> [Files -> IdentityStates]]
      BY <1>0, <1>7, OpenedRows DEF Restart
    <2> QED
      BY <1>0, <1>7, <2>1 DEF Restart, TypeOK
  <1> QED
    BY <1>1, <1>2, <1>3, <1>4, <1>5, <1>6, <1>7 DEF Activate

\* The scans.
LEMMA TypeScans ==
    ASSUME TypeOK,
           \/ \E owner \in {"foreground", "watcher"}, force \in BOOLEAN : ScanStart(owner, force)
           \/ Scan
    PROVE  TypeOK'
  <1> USE DEF storageVars, jobVars
  <1>0. scan # None => scan \in Scans
    BY DEF TypeOK
  <1>1. ASSUME NEW owner \in {"foreground", "watcher"}, NEW force \in BOOLEAN,
               ScanStart(owner, force)
        PROVE  TypeOK'
    <2>1. NoHashes \in [Files -> Storages \cup {None}]
      BY DEF NoHashes
    <2>2. scan' \in Scans
      BY <1>1, <2>1 DEF ScanStart, Scans, TypeOK
    <2>3. mixed' \in BOOLEAN
      BY <1>1 DEF ScanStart
    <2> QED
      BY <1>1, <2>2, <2>3 DEF ScanStart, TypeOK
  <1>2. ASSUME NEW found \in SUBSET Files, ScanRead(found) PROVE TypeOK'
    <2>1. StoredHashes(scan.force) \in [Files -> Storages \cup {None}]
      BY DEF StoredHashes, NoHashes, TypeOK
    <2>2. scan' \in Scans
      BY <1>0, <1>2, <2>1 DEF ScanRead, Scans
    <2> QED
      BY <1>2, <2>2 DEF ScanRead, TypeOK
  <1>3. CASE ScanCheck
    <2>1. scan' \in Scans
      BY <1>0, <1>3 DEF ScanCheck, Scans
    <2> QED
      BY <1>3, <2>1 DEF ScanCheck, TypeOK
  <1>4. CASE ScanChunk
    <2>1. rows' \in [Storages -> [Files -> IdentityStates]] /\ {lib} \X NextChunk \subseteq Storages \X Files
      BY <1>4, ChunkRows DEF ScanChunk
    <2>2. scan' \in Scans
      BY <1>0, <1>4, <2>1 DEF ScanChunk, Scans
    <2> QED
      BY <1>4, <2>1, <2>2 DEF ScanChunk, TypeOK
  <1>5. CASE ScanFinalize
    <2>1. scan \in Scans /\ scan.roms \in SUBSET Files /\ scan.force \in BOOLEAN
            /\ scan.gen \in 0 .. MaxGen /\ scan.root \in Storages
      BY <1>0, <1>5, RecordIsThere DEF ScanFinalize
    <2>2. [roms |-> scan.roms, force |-> scan.force, gen |-> scan.gen, root |-> scan.root] \in Phases
      BY <2>1 DEF Phases
    <2>3. waiting' \in Seq(Phases)
      BY <1>5, <2>2, AppendPhase DEF ScanFinalize, TypeOK
    <2>4. rows' \in [Storages -> [Files -> IdentityStates]]
      BY <1>5, PrunedRows DEF ScanFinalize
    <2> QED
      BY <1>5, <2>3, <2>4 DEF ScanFinalize, ScanEnds, TypeOK
  <1>6. CASE ScanFail
    <2>1. rows' \in [Storages -> [Files -> IdentityStates]]
      BY <1>6, ChunkRows, PrunedRows DEF ScanFail, TypeOK
    <2> QED
      BY <1>6, <2>1 DEF ScanFail, ScanEnds, TypeOK
  <1> QED
    BY <1>1, <1>2, <1>3, <1>4, <1>5, <1>6 DEF Scan

\* The phase.
LEMMA TypePhase ==
    ASSUME TypeOK, Phase
    PROVE  TypeOK'
  <1> USE DEF storageVars, jobVars
  <1>1. CASE PhaseStart \/ PhaseSkip
    <2>1. waiting \in Seq(Phases) /\ waiting # <<>>
      BY <1>1 DEF PhaseStart, PhaseSkip, TypeOK
    <2>2. Head(waiting) \in Phases /\ Tail(waiting) \in Seq(Phases)
      BY <2>1, TakePhase
    <2> QED
      BY <1>1, <2>2, RecordIsThere DEF PhaseStart, PhaseSkip, TypeOK
  <1>3. CASE PhaseAbort
    BY <1>3 DEF PhaseAbort, TypeOK
  <1>4. CASE PhaseClaim
    <2>1. phase.roms \in SUBSET Files
      BY <1>4, RecordIsThere DEF PhaseClaim, TypeOK
    <2> QED
      BY <1>4, <2>1 DEF PhaseClaim, TypeOK
  <1> QED
    BY <1>1, <1>3, <1>4 DEF Phase

\* A worker works for a phase, and it or its end is next.
LEMMA WorkerHasPhase ==
    ASSUME TypeOK, Worker
    PROVE  /\ phase \in Phases /\ phase # None /\ pc # "none"
           /\ \/ phase' = phase /\ pc' # "none"
              \/ PhaseEnd
           /\ UNCHANGED <<scan, waiting, lib, loc, gen, act, since, mixed>>
  <1> USE DEF TypeOK, storageVars
  <1>1. /\ pc # "none"
        /\ \/ phase' = phase /\ pc' # "none"
           \/ PhaseEnd
        /\ UNCHANGED <<scan, waiting, lib, loc, gen, act, since, mixed>>
    BY DEF Worker, JobWindow, JobOvertaken, JobClaimFails, JobClaimNothing, JobClaim, JobStuck,
           JobGiveBack, JobHash, JobUpdate, JobUpdateFails, JobAbandon, JobFinish
  <1> QED
    BY <1>1

\* The worker.
LEMMA TypeWorker ==
    ASSUME TypeOK, Worker
    PROVE  TypeOK'
  <1> USE DEF storageVars, jobVars
  <1>0. phase \in Phases /\ phase # None /\ pc # "none"
    BY WorkerHasPhase
  <1>e. ASSUME rows' \in [Storages -> [Files -> IdentityStates]], PhaseEnd,
               UNCHANGED <<scan, storageVars, waiting>>
        PROVE  TypeOK'
    BY <1>e DEF PhaseEnd, TypeOK
  <1>r. rows \in [Storages -> [Files -> IdentityStates]]
    BY DEF TypeOK
  <1>1. CASE JobWindow
    BY <1>0, <1>1 DEF JobWindow, TypeOK
  <1>2. CASE JobOvertaken
    BY <1>r, <1>e, <1>2 DEF JobOvertaken
  <1>3. CASE JobClaimFails
    <2>1. rows' \in [Storages -> [Files -> IdentityStates]]
      BY <1>0, <1>r, <1>3, RunningRows DEF JobClaimFails
    <2> QED
      BY <1>e, <1>3, <2>1 DEF JobClaimFails
  <1>4. CASE JobClaimNothing
    <2>1. AfterSlice \in SUBSET Files
      BY <1>0, <1>4, ClaimedRows DEF JobClaimNothing
    <2>2. CASE phase.force /\ AfterSlice # {}
      BY <1>0, <1>4, <2>1, <2>2 DEF JobClaimNothing, TypeOK
    <2>3. CASE ~(phase.force /\ AfterSlice # {})
      BY <1>r, <1>e, <1>4, <2>3 DEF JobClaimNothing
    <2> QED
      BY <2>2, <2>3
  <1>5. CASE JobClaim
    <2>1. pc' \in {"giveback", "hash"}
      BY <1>5 DEF JobClaim
    <2>2. claimed' \in SUBSET Files /\ attempted' \in SUBSET Files /\ slices' \in SUBSET Files
      BY <1>0, <1>5, ClaimedRows DEF JobClaim, TypeOK
    <2>3. rows' \in [Storages -> [Files -> IdentityStates]]
      BY <1>0, <1>5, RunningRows DEF JobClaim
    <2> QED
      BY <1>0, <1>5, <2>1, <2>2, <2>3 DEF JobClaim, TypeOK
  <1>6. CASE JobStuck
    <2>1. rows' \in [Storages -> [Files -> IdentityStates]]
      BY <1>0, <1>6, RunningRows DEF JobStuck
    <2> QED
      BY <1>e, <1>6, <2>1 DEF JobStuck
  <1>7. CASE JobGiveBack
    BY <1>0, <1>7, FinishedRows DEF JobGiveBack, TypeOK
  <1>8. CASE JobHash
    <2>1. pc' \in {"finish", "update"}
      BY <1>8 DEF JobHash
    <2>2. hashed' \in SUBSET Files
      BY <1>8 DEF JobHash, TypeOK
    <2> QED
      BY <1>0, <1>8, <2>1, <2>2 DEF JobHash, TypeOK
  <1>9. CASE JobUpdate
    BY <1>0, <1>9, SettledRows DEF JobUpdate, TypeOK
  <1>10. CASE JobUpdateFails
    <2>1. rows' \in [Storages -> [Files -> IdentityStates]]
      BY <1>0, <1>r, <1>10, SettledRows DEF JobUpdateFails
    <2> QED
      BY <1>0, <1>10, <2>1 DEF JobUpdateFails, TypeOK
  <1>11. CASE JobAbandon
    <2>1. rows' \in [Storages -> [Files -> IdentityStates]]
      BY <1>11, FinishedRows DEF JobAbandon
    <2> QED
      BY <1>e, <1>11, <2>1 DEF JobAbandon
  <1>12. CASE JobFinish
    BY <1>0, <1>12, FinishedRows DEF JobFinish, TypeOK
  <1> QED
    BY <1>1, <1>2, <1>3, <1>4, <1>5, <1>6, <1>7, <1>8, <1>9, <1>10, <1>11, <1>12 DEF Worker

\* A step of the system keeps the types.
LEMMA TypeNext == TypeOK /\ [Next]_vars => TypeOK'
  <1> SUFFICES ASSUME TypeOK, [Next]_vars PROVE TypeOK'
    OBVIOUS
  <1>1. CASE Phase
    BY <1>1, TypePhase
  <1>2. CASE Worker
    BY <1>2, TypeWorker
  <1>3. CASE UNCHANGED vars
    BY <1>3 DEF vars, TypeOK
  <1>4. CASE Activate \/ Restart
    BY <1>4, TypeEnvironment
  <1>5. CASE ~Phase /\ ~Worker /\ ~Activate /\ ~Restart /\ Next
    BY <1>5, TypeScans DEF Next
  <1> QED
    BY <1>1, <1>2, <1>3, <1>4, <1>5

\* Every variable of the phase, its worker and the rows keeps its type,
\* across activations and restarts, for any files and storages.
THEOREM TypeCorrect == Spec => []TypeOK
  BY TypeInit, TypeNext, PTL DEF Spec

-----------------------------------------------------------------------------
(* Settled rows.                                                           *)

\* No request is of a generation to come.
Behind ==
    /\ since <= gen
    /\ phase # None => phase.gen <= gen
    /\ scan # None => scan.gen <= gen
    /\ \A i \in 1 .. Len(waiting) : waiting[i].gen <= gen

\* A request that the open library has not overtaken is about that library.
MeetsOwn(p) == p.gen >= since => lib \in {p.root, None}

\* A scan is between a comparison of generations and the write behind it.
Compared == scan # None /\ scan.pc \in {"chunk", "finalize"}

RequestsMeetOwn ==
    ~mixed => /\ phase # None => MeetsOwn(phase)
              /\ scan # None => MeetsOwn(scan)
              /\ Compared => lib \in {scan.root, None}
              /\ \A i \in 1 .. Len(waiting) : MeetsOwn(waiting[i])

\* The hashes that a scan may still write are of the storage it was started on.
StoredIsOwn ==
    (~mixed /\ scan # None /\ (scan.gen = gen \/ Compared)) =>
       \A f \in Files : scan.stored[f] \in {None, scan.root}

\* A worker that is about to write finds no Running row in a library that has
\* been opened over it, nor in the one that is about to be.
OvertakenFindsNothing ==
    pc = "update" =>
       /\ (phase.gen < since /\ lib # None) => \A f \in Files : rows[lib][f] # "Running"
       /\ (phase.gen # gen /\ act.pc \in {"close", "attach"}) =>
             \A f \in Files : rows[act.to][f] # "Running"

HashInv ==
    /\ TypeOK
    /\ CompleteIsOwnHash
    /\ Behind
    /\ RequestsMeetOwn
    /\ StoredIsOwn
    /\ OvertakenFindsNothing

\* A step that settles no row.
OnlyUnsettles ==
    \A s \in Storages, f \in Files :
       rows'[s][f] \in Storages => rows'[s][f] = rows[s][f]

\* Opening a library settles no row.
LEMMA OpenUnsettles ==
    ASSUME TypeOK, NEW s \in Storages, OpenRecovered(s)
    PROVE  OnlyUnsettles
  <1>1. \A r \in Storages, f \in Files :
           rows'[r][f] = rows[r][f] \/ rows'[r][f] = "Pending"
    BY OpenedRows
  <1> QED
    BY <1>1, StorageIsNoState DEF OnlyUnsettles

\* A worker's other steps settle no row.
LEMMA WorkerUnsettles ==
    ASSUME TypeOK, Worker, pc # "update"
    PROVE  OnlyUnsettles
  <1>0. phase # None
    BY WorkerHasPhase
  <1>2. CASE UNCHANGED rows
    BY <1>2 DEF OnlyUnsettles
  <1>3. CASE lib # None /\ rows' = Mark(Claimable, "Running")
    <2>1. \A s \in Storages, f \in Files : rows'[s][f] = rows[s][f] \/ rows'[s][f] = "Running"
      BY <1>0, <1>3, RunningRows
    <2> QED
      BY <2>1, StorageIsNoState DEF OnlyUnsettles
  <1>4. ASSUME NEW st \in {"Pending", "Failed"}, Finished(st)
        PROVE  OnlyUnsettles
    <2>1. \A s \in Storages, f \in Files :
             rows'[s][f] = rows[s][f] \/ rows'[s][f] \in {"Pending", "Failed"}
      BY <1>4, FinishedRows
    <2> QED
      BY <2>1, StorageIsNoState DEF OnlyUnsettles
  <1>5. CASE JobGiveBack \/ JobAbandon \/ JobFinish
    BY <1>4, <1>5 DEF JobGiveBack, JobAbandon, JobFinish
  <1> QED
    BY <1>2, <1>3, <1>5 DEF Worker, JobWindow, JobOvertaken, JobClaimFails, JobClaimNothing,
                            JobClaim, JobStuck, JobHash, JobUpdate, JobUpdateFails

\* An update writes the hashes of the storage whose library is open, and one
\* that a library has been opened over writes nothing.
LEMMA SettleIsCurrent ==
    ASSUME HashInv, Worker, pc = "update", Settle
    PROVE  /\ ~mixed => \A s \in Storages, f \in Files :
                           rows'[s][f] \in Storages => rows'[s][f] = rows[s][f] \/ rows'[s][f] = s
           /\ phase.gen < since => OnlyUnsettles
  <1>1. TypeOK /\ phase \in Phases /\ phase # None /\ phase.gen \in 0 .. MaxGen /\ phase.root \in Storages
    BY WorkerHasPhase, RecordIsThere DEF HashInv
  <1>2. /\ lib \in Storages /\ lib # None
        /\ \A s \in Storages, f \in Files :
              \/ rows'[s][f] = rows[s][f]
              \/ s = lib /\ rows[s][f] = "Running" /\ rows'[s][f] = phase.root
    BY <1>1, SettledRows, RecordIsThere
  <1>3. CASE phase.gen >= since
    <2>1. ~mixed => lib = phase.root
      BY <1>1, <1>2, <1>3 DEF HashInv, RequestsMeetOwn, MeetsOwn
    <2>2. ~(phase.gen < since)
      BY <1>1, <1>3 DEF TypeOK
    <2> QED
      BY <1>2, <2>1, <2>2 DEF HashInv
  <1>4. CASE phase.gen < since
    <2>1. \A f \in Files : rows[lib][f] # "Running"
      BY <1>2, <1>4 DEF HashInv, OvertakenFindsNothing
    <2>2. \A s \in Storages, f \in Files : rows'[s][f] = rows[s][f]
      BY <1>2, <2>1
    <2> QED
      BY <2>2 DEF HashInv, OnlyUnsettles
  <1> QED
    BY <1>1, <1>3, <1>4 DEF TypeOK

\* Earlier processes leave no settled row, and the first start no request.
LEMMA HashInit == Init => HashInv
  <1> SUFFICES ASSUME Init PROVE HashInv
    OBVIOUS
  <1>0. TypeOK
    BY TypeInit
  <1>1. /\ gen = 0 /\ since = 0 /\ scan = None /\ waiting = <<>> /\ phase = None /\ pc = "none"
    BY Zenon DEF Init
  <1>2. Behind /\ RequestsMeetOwn /\ StoredIsOwn /\ OvertakenFindsNothing
    BY <1>1 DEF Behind, RequestsMeetOwn, StoredIsOwn, OvertakenFindsNothing, Compared
  <1>3. CompleteIsOwnHash
    <2>1. PICK left \in [Storages -> [Files -> Leftover]] :
             rows = [left EXCEPT ![Boot] = Recovered(left[Boot])]
      BY Zenon DEF Init
    <2>2. Boot \in Storages /\ Leftover \subseteq {"absent", "Pending", "Running", "Failed"}
      BY IdentityAssumption DEF IdentityAssumption
    <2>3. \A f \in Files : rows[Boot][f] \in {left[Boot][f], "Pending"}
      BY <2>1, <2>2 DEF Recovered
    <2>4. \A s \in Storages, f \in Files : s # Boot => rows[s][f] = left[s][f]
      BY <2>1
    <2>5. \A s \in Storages, f \in Files : rows[s][f] \in {"absent", "Pending", "Running", "Failed"}
      BY <2>1, <2>2, <2>3, <2>4
    <2> QED
      BY <2>5, StorageIsNoState DEF CompleteIsOwnHash
  <1> QED
    BY <1>0, <1>2, <1>3 DEF HashInv

\* Rows stay own when a step settles a row only as its own storage's.
LEMMA OwnRowsStay ==
    ASSUME CompleteIsOwnHash, mixed' \/ ~mixed,
           ~mixed' => \A s \in Storages, f \in Files :
              rows'[s][f] \in Storages => rows'[s][f] = rows[s][f] \/ rows'[s][f] = s
    PROVE  CompleteIsOwnHash'
  BY DEF CompleteIsOwnHash

\* Activations and restarts.
LEMMA HashEnvironment ==
    ASSUME HashInv, TypeOK', Activate \/ Restart
    PROVE  HashInv'
  <1> USE DEF storageVars, jobVars
  <1>0. TypeOK /\ act.to \in Storages /\ gen \in Int /\ since \in Int /\ since <= gen
    BY DEF HashInv, TypeOK, Behind
  <1>g. /\ phase # None => phase.gen \in Int
        /\ scan # None => scan.gen \in Int
        /\ \A i \in 1 .. Len(waiting) : waiting[i].gen \in Int /\ waiting[i] \in Phases
    BY <1>0, RecordIsThere DEF TypeOK
  <1>1. ASSUME NEW s \in Storages, ActivateBump(s) PROVE HashInv'
    <2>1. CompleteIsOwnHash' /\ OvertakenFindsNothing'
      BY <1>0, <1>1 DEF ActivateBump, HashInv, CompleteIsOwnHash, OvertakenFindsNothing
    <2>2. Behind'
      BY <1>0, <1>g, <1>1 DEF ActivateBump, HashInv, Behind
    <2>3. RequestsMeetOwn'
      BY <1>1 DEF ActivateBump, HashInv, RequestsMeetOwn, MeetsOwn, Compared
    <2>4. StoredIsOwn'
      BY <1>0, <1>g, <1>1 DEF ActivateBump, HashInv, Behind, StoredIsOwn, Compared
    <2> QED
      BY <2>1, <2>2, <2>3, <2>4 DEF HashInv
  <1>2. CASE ActivateOpen
    <2>1. /\ \A f \in Files : rows'[act.to][f] # "Running"
          /\ \A r \in Storages, f \in Files : rows'[r][f] = "Running" => rows[r][f] = "Running"
      BY <1>0, <1>2, OpenedRows DEF ActivateOpen
    <2>2. CompleteIsOwnHash'
      BY <1>0, <1>2, OpenUnsettles, OwnRowsStay DEF ActivateOpen, HashInv, OnlyUnsettles
    <2>3. act'.pc = "close" /\ act'.to = act.to /\ UNCHANGED <<lib, gen, since, mixed, scan, waiting, phase, pc>>
      BY <1>0, <1>2 DEF ActivateOpen, TypeOK
    <2>4. OvertakenFindsNothing'
      BY <1>0, <2>1, <2>3 DEF HashInv, OvertakenFindsNothing, TypeOK
    <2> QED
      BY <2>2, <2>3, <2>4 DEF HashInv, Behind, RequestsMeetOwn, MeetsOwn, Compared, StoredIsOwn
  <1>3. CASE ActivateClose
    <2>1. act'.pc = "attach" /\ act'.to = act.to /\ lib' = None /\ UNCHANGED <<rows, gen, since, mixed, scan, waiting, phase, pc>>
      BY <1>0, <1>3 DEF ActivateClose, TypeOK
    <2>2. OvertakenFindsNothing'
      BY <1>3, <2>1 DEF ActivateClose, HashInv, OvertakenFindsNothing
    <2> QED
      BY <2>1, <2>2 DEF HashInv, CompleteIsOwnHash, Behind, RequestsMeetOwn, MeetsOwn, Compared,
                        StoredIsOwn
  <1>4. CASE ActivateAttach
    <2>1. /\ act.pc = "attach" /\ act'.pc = "locate" /\ lib' = act.to /\ since' = gen
          /\ mixed' = (mixed \/ Mixes(act.to))
          /\ UNCHANGED <<rows, gen, scan, waiting, phase, pc>>
      BY <1>0, <1>4 DEF ActivateAttach, TypeOK
    <2>2. CompleteIsOwnHash'
      BY <2>1 DEF HashInv, CompleteIsOwnHash
    <2>3. OvertakenFindsNothing'
      <3>1. (pc' = "update" /\ phase'.gen < since') => phase # None /\ phase.gen # gen
        BY <1>0, <2>1 DEF TypeOK
      <3> QED
        BY <2>1, <3>1 DEF HashInv, OvertakenFindsNothing
    <2>4. ~mixed' => ~mixed
      BY <2>1
    <2>5. Behind'
      BY <1>0, <2>1 DEF HashInv, Behind
    <2>6. StoredIsOwn'
      BY <2>1, <2>4 DEF HashInv, StoredIsOwn, Compared
    <2>7. RequestsMeetOwn'
      <3> SUFFICES ASSUME ~mixed' PROVE RequestsMeetOwn'
        BY DEF RequestsMeetOwn
      <3>1. ~mixed /\ ~Mixes(act.to)
        BY <2>1
      <3>2. phase # None => MeetsOwn(phase)'
        BY <1>0, <1>g, <2>1, <3>1 DEF Mixes, MeetsOwn, HashInv, Behind
      <3>3. scan # None => MeetsOwn(scan)'
        BY <1>0, <1>g, <2>1, <3>1 DEF Mixes, MeetsOwn, HashInv, Behind
      <3>4. (scan # None /\ scan.pc \in {"chunk", "finalize"}) => scan.root = act.to
        BY <3>1 DEF Mixes
      <3>5. ASSUME NEW i \in 1 .. Len(waiting) PROVE MeetsOwn(waiting[i])'
        <4>1. i \in DOMAIN waiting
          BY <1>0 DEF TypeOK
        <4>2. waiting[i].gen = gen => waiting[i].root = act.to
          BY <3>1, <4>1 DEF Mixes
        <4> QED
          BY <1>0, <1>g, <2>1, <4>2 DEF MeetsOwn, HashInv, Behind
      <3> QED
        BY <2>1, <3>2, <3>3, <3>4, <3>5 DEF RequestsMeetOwn, Compared
    <2> QED
      BY <2>2, <2>3, <2>5, <2>6, <2>7 DEF HashInv
  <1>5. CASE ActivateLocate \/ ActivateFails
    <2>1. act'.pc = "idle" /\ UNCHANGED <<rows, lib, gen, since, mixed, scan, waiting, phase, pc>>
      BY <1>0, <1>5 DEF ActivateLocate, ActivateFails, TypeOK
    <2> QED
      BY <2>1 DEF HashInv, CompleteIsOwnHash, Behind, RequestsMeetOwn, MeetsOwn, Compared,
                        StoredIsOwn, OvertakenFindsNothing
  <1>6. CASE Restart
    <2>1. CompleteIsOwnHash'
      BY <1>0, <1>6, OpenUnsettles, OwnRowsStay DEF Restart, HashInv, OnlyUnsettles
    <2> QED
      BY <1>0, <1>6, <2>1 DEF Restart, HashInv, Behind, RequestsMeetOwn, Compared, StoredIsOwn,
                        OvertakenFindsNothing
  <1> QED
    BY <1>1, <1>2, <1>3, <1>4, <1>5, <1>6 DEF Activate

\* The scans.
LEMMA HashScans ==
    ASSUME HashInv, TypeOK',
           \/ \E owner \in {"foreground", "watcher"}, force \in BOOLEAN : ScanStart(owner, force)
           \/ Scan
    PROVE  HashInv'
  <1> USE DEF storageVars, jobVars
  <1>0. /\ TypeOK /\ gen \in Int /\ since \in Int /\ since <= gen
        /\ scan # None => scan \in Scans
        /\ scan' # None => scan' \in Scans
    BY DEF HashInv, TypeOK, Behind
  <1>1. ASSUME NEW owner \in {"foreground", "watcher"}, NEW force \in BOOLEAN,
               ScanStart(owner, force)
        PROVE  HashInv'
    <2>1. /\ scan' = [pc |-> "begun", roms |-> {}, stored |-> NoHashes, saved |-> {}, force |-> force,
                      owner |-> owner, gen |-> gen, root |-> loc]
          /\ mixed' = (mixed \/ lib \notin {loc, None})
          /\ UNCHANGED <<rows, lib, gen, act, since, waiting, phase, pc>>
      BY <1>1 DEF ScanStart
    <2>2. /\ scan'.pc = "begun" /\ scan'.stored = NoHashes /\ scan'.gen = gen /\ scan'.root = loc
      BY <2>1
    <2>3. \A f \in Files : NoHashes[f] = None
      BY DEF NoHashes
    <2>4. CompleteIsOwnHash' /\ OvertakenFindsNothing'
      BY <2>1 DEF HashInv, CompleteIsOwnHash, OvertakenFindsNothing
    <2>5. Behind'
      BY <1>0, <2>1, <2>2 DEF HashInv, Behind
    <2>6. StoredIsOwn'
      BY <2>2, <2>3 DEF StoredIsOwn
    <2>7. RequestsMeetOwn'
      BY <2>1, <2>2 DEF HashInv, RequestsMeetOwn, MeetsOwn, Compared
    <2> QED
      BY <2>4, <2>5, <2>6, <2>7 DEF HashInv
  <1>2. ASSUME NEW found \in SUBSET Files, ScanRead(found) PROVE HashInv'
    <2>1. /\ scan # None /\ scan \in Scans
          /\ scan' = [scan EXCEPT !.pc = "ready", !.roms = found, !.stored = StoredHashes(scan.force)]
          /\ UNCHANGED <<rows, lib, gen, act, since, mixed, waiting, phase, pc>>
      BY <1>0, <1>2 DEF ScanRead
    <2>2. /\ scan' # None /\ scan'.pc = "ready" /\ scan'.stored = StoredHashes(scan.force)
          /\ scan'.gen = scan.gen /\ scan'.root = scan.root
      <3>1. scan'.pc = "ready" /\ scan'.stored = StoredHashes(scan.force)
              /\ scan'.gen = scan.gen /\ scan'.root = scan.root
        BY <2>1 DEF Scans
      <3>2. StoredHashes(scan.force) \in [Files -> Storages \cup {None}]
        BY <1>0 DEF StoredHashes, NoHashes, TypeOK
      <3>3. scan' \in Scans
        BY <2>1, <3>2 DEF Scans
      <3> QED
        BY <3>1, <3>3, RecordIsThere
    <2>3. (~mixed /\ scan.gen = gen) => \A f \in Files : StoredHashes(scan.force)[f] \in {None, scan.root}
      <3> SUFFICES ASSUME ~mixed, scan.gen = gen, NEW f \in Files
                   PROVE  StoredHashes(scan.force)[f] \in {None, scan.root}
        OBVIOUS
      <3>1. lib \in {scan.root, None}
        BY <1>0, <2>1 DEF HashInv, RequestsMeetOwn, MeetsOwn
      <3>2. CASE scan.force \/ lib = None
        BY <3>2 DEF StoredHashes, NoHashes
      <3>3. CASE ~(scan.force \/ lib = None)
        <4>1. lib \in Storages /\ lib = scan.root
          BY <1>0, <3>1, <3>3 DEF TypeOK
        <4>2. StoredHashes(scan.force)[f] = IF rows[lib][f] \in Storages THEN rows[lib][f] ELSE None
          BY <3>3 DEF StoredHashes
        <4>3. rows[lib][f] \in Storages => rows[lib][f] = lib
          BY <4>1 DEF HashInv, CompleteIsOwnHash
        <4> QED
          BY <4>1, <4>2, <4>3
      <3> QED
        BY <3>2, <3>3
    <2>4. CompleteIsOwnHash' /\ OvertakenFindsNothing'
      BY <2>1 DEF HashInv, CompleteIsOwnHash, OvertakenFindsNothing
    <2>5. Behind'
      BY <2>1, <2>2 DEF HashInv, Behind
    <2>6. StoredIsOwn'
      BY <2>1, <2>2, <2>3 DEF StoredIsOwn, Compared
    <2>7. RequestsMeetOwn'
      BY <2>1, <2>2 DEF HashInv, RequestsMeetOwn, MeetsOwn, Compared
    <2> QED
      BY <2>4, <2>5, <2>6, <2>7 DEF HashInv
  <1>3. CASE ScanCheck
    <2>1. /\ scan # None /\ scan \in Scans /\ scan.gen = gen
          /\ UNCHANGED <<rows, lib, gen, act, since, mixed, waiting, phase, pc>>
      BY <1>0, <1>3 DEF ScanCheck
    <2>2. /\ scan' # None /\ scan'.stored = scan.stored /\ scan'.gen = scan.gen /\ scan'.root = scan.root
      <3>1. scan' = [scan EXCEPT !.pc = IF Unsaved = {} THEN "finalize" ELSE "chunk"]
        BY <1>3 DEF ScanCheck
      <3>2. scan' \in Scans /\ scan'.stored = scan.stored /\ scan'.gen = scan.gen /\ scan'.root = scan.root
        BY <2>1, <3>1 DEF Scans
      <3> QED
        BY <3>2, RecordIsThere
    <2>3. ~mixed => lib \in {scan.root, None}
      BY <1>0, <2>1 DEF HashInv, RequestsMeetOwn, MeetsOwn
    <2>4. CompleteIsOwnHash' /\ OvertakenFindsNothing' /\ Behind' /\ StoredIsOwn'
      BY <2>1, <2>2 DEF HashInv, CompleteIsOwnHash, OvertakenFindsNothing, Behind, StoredIsOwn
    <2>5. RequestsMeetOwn'
      BY <2>1, <2>2, <2>3 DEF HashInv, RequestsMeetOwn, MeetsOwn, Compared
    <2> QED
      BY <2>4, <2>5 DEF HashInv
  <1>c. ASSUME scan # None, scan.pc = "chunk", SaveChunk, UNCHANGED <<mixed, lib, act, gen, since, phase, pc>>
        PROVE  CompleteIsOwnHash' /\ OvertakenFindsNothing'
    <2>1. /\ lib \in Storages /\ lib # None
          /\ \A s \in Storages, f \in Files :
                \/ rows'[s][f] = rows[s][f]
                \/ /\ s = lib /\ f \in Unsaved
                   /\ rows'[s][f] \notin {"absent", "Running"}
                   /\ rows'[s][f] \in Storages => rows'[s][f] = scan.stored[f]
      BY <1>0, <1>c, ChunkRows, RecordIsThere
    <2>2. ~mixed => lib = scan.root /\ \A f \in Files : scan.stored[f] \in {None, scan.root}
      BY <1>c, <2>1 DEF HashInv, RequestsMeetOwn, StoredIsOwn, Compared
    <2>3. CompleteIsOwnHash'
      <3>1. ~mixed => \A s \in Storages, f \in Files :
               rows'[s][f] \in Storages => rows'[s][f] = rows[s][f] \/ rows'[s][f] = s
        BY <2>1, <2>2, RecordIsThere
      <3> QED
        BY <1>c, <3>1, OwnRowsStay DEF HashInv
    <2>4. OvertakenFindsNothing'
      <3>1. \A s \in Storages, f \in Files : rows'[s][f] = "Running" => rows[s][f] = "Running"
        BY <2>1
      <3> QED
        BY <1>0, <1>c, <2>1, <3>1 DEF HashInv, OvertakenFindsNothing, TypeOK
    <2> QED
      BY <2>3, <2>4
  <1>p. ASSUME Prune, UNCHANGED <<mixed, lib, act, gen, since, phase, pc>>
        PROVE  CompleteIsOwnHash' /\ OvertakenFindsNothing'
    <2>1. /\ lib \in Storages
          /\ \A s \in Storages, f \in Files : rows'[s][f] = rows[s][f] \/ rows'[s][f] = "absent"
      BY <1>0, <1>p, PrunedRows
    <2>2. CompleteIsOwnHash'
      BY <1>p, <2>1, StorageIsNoState, OwnRowsStay DEF HashInv
    <2>3. OvertakenFindsNothing'
      <3>1. \A s \in Storages, f \in Files : rows'[s][f] = "Running" => rows[s][f] = "Running"
        BY <2>1
      <3> QED
        BY <1>0, <1>p, <2>1, <3>1 DEF HashInv, OvertakenFindsNothing, TypeOK
    <2> QED
      BY <2>2, <2>3
  <1>4. CASE ScanChunk
    <2>1. /\ scan # None /\ scan \in Scans /\ scan.pc = "chunk" /\ SaveChunk
          /\ scan' = [scan EXCEPT !.pc = "ready", !.saved = @ \cup ({lib} \X NextChunk)]
          /\ UNCHANGED <<lib, gen, act, since, mixed, waiting, phase, pc>>
      BY <1>0, <1>4 DEF ScanChunk
    <2>2. /\ scan'.pc = "ready" /\ scan'.stored = scan.stored /\ scan'.gen = scan.gen
          /\ scan'.root = scan.root
      BY <2>1 DEF Scans
    <2>3. CompleteIsOwnHash' /\ OvertakenFindsNothing'
      BY <1>c, <2>1
    <2>4. Behind' /\ StoredIsOwn'
      BY <2>1, <2>2 DEF HashInv, Behind, StoredIsOwn, Compared
    <2>5. RequestsMeetOwn'
      BY <2>1, <2>2 DEF HashInv, RequestsMeetOwn, MeetsOwn, Compared
    <2> QED
      BY <2>3, <2>4, <2>5 DEF HashInv
  <1>5. CASE ScanFinalize
    <2>1. /\ scan # None /\ scan \in Scans /\ Prune /\ scan' = None
          /\ UNCHANGED <<lib, gen, act, since, mixed, phase, pc>>
      BY <1>0, <1>5 DEF ScanFinalize, ScanEnds
    <2>2. CompleteIsOwnHash' /\ OvertakenFindsNothing'
      BY <1>p, <2>1
    <2>3. PICK p : p = [roms |-> scan.roms, force |-> scan.force, gen |-> scan.gen, root |-> scan.root]
      OBVIOUS
    <2>4. p \in Phases /\ p.gen = scan.gen /\ p.root = scan.root
      BY <2>1, <2>3, RecordIsThere DEF Phases
    <2>5. waiting \in Seq(Phases)
      BY <1>0 DEF TypeOK
    <2>6. \A i \in 1 .. Len(waiting') : waiting'[i] = p \/ \E j \in 1 .. Len(waiting) : waiting'[i] = waiting[j]
      <3>1. waiting' = waiting \/ waiting' = Append(waiting, p)
        BY <1>5, <2>3 DEF ScanFinalize
      <3>2. CASE waiting' = Append(waiting, p)
        <4>1. \A i \in 1 .. Len(Append(waiting, p)) :
                 \/ Append(waiting, p)[i] = p
                 \/ \E j \in 1 .. Len(waiting) : Append(waiting, p)[i] = waiting[j]
          BY <2>4, <2>5, AppendPhase
        <4> QED
          BY <3>2, <4>1
      <3> QED
        BY <3>1, <3>2
    <2>7. Behind'
      BY <2>1, <2>4, <2>6 DEF HashInv, Behind
    <2>8. RequestsMeetOwn'
      BY <2>1, <2>4, <2>6 DEF HashInv, RequestsMeetOwn, MeetsOwn, Compared
    <2> QED
      BY <2>1, <2>2, <2>7, <2>8 DEF HashInv, StoredIsOwn
  <1>6. CASE ScanFail
    <2>1. /\ scan # None /\ scan' = None
          /\ UNCHANGED <<lib, gen, act, since, mixed, waiting, phase, pc>>
          /\ UNCHANGED rows \/ (scan.pc = "chunk" /\ SaveChunk) \/ Prune
      BY <1>6 DEF ScanFail, ScanEnds
    <2>2. CompleteIsOwnHash' /\ OvertakenFindsNothing'
      <3>1. CASE UNCHANGED rows
        BY <2>1, <3>1 DEF HashInv, CompleteIsOwnHash, OvertakenFindsNothing
      <3> QED
        BY <1>c, <1>p, <2>1, <3>1
    <2> QED
      BY <2>1, <2>2 DEF HashInv, Behind, RequestsMeetOwn, MeetsOwn, Compared, StoredIsOwn
  <1> QED
    BY <1>1, <1>2, <1>3, <1>4, <1>5, <1>6 DEF Scan

\* The phase.
LEMMA HashPhase ==
    ASSUME HashInv, TypeOK', Phase
    PROVE  HashInv'
  <1> USE DEF storageVars, jobVars
  <1>1. UNCHANGED <<rows, lib, gen, act, since, mixed, scan>> /\ pc' # "update"
    <2>1. UNCHANGED <<rows, lib, gen, act, since, mixed, scan>>
      BY DEF Phase, PhaseStart, PhaseSkip, PhaseAbort, PhaseClaim
    <2>2. CASE PhaseSkip
      BY <2>2 DEF PhaseSkip, HashInv, TypeOK
    <2>3. CASE ~PhaseSkip
      BY <2>3 DEF Phase, PhaseStart, PhaseAbort, PhaseClaim
    <2> QED
      BY <2>1, <2>2, <2>3
  <1>2. Behind' /\ RequestsMeetOwn'
    <2>1. CASE PhaseStart \/ PhaseSkip
      <3>1. waiting \in Seq(Phases) /\ waiting # <<>>
        BY <2>1 DEF PhaseStart, PhaseSkip, HashInv, TypeOK
      <3>2. /\ \E j \in 1 .. Len(waiting) : Head(waiting) = waiting[j]
            /\ \A i \in 1 .. Len(Tail(waiting)) :
                  \E j \in 1 .. Len(waiting) : Tail(waiting)[i] = waiting[j]
        BY <3>1, TakePhase
      <3>3. waiting' = Tail(waiting) /\ (phase' = Head(waiting) \/ phase' = None)
        BY <2>1 DEF PhaseStart, PhaseSkip
      <3>4. Behind'
        BY <1>1, <3>2, <3>3 DEF HashInv, Behind
      <3>5. RequestsMeetOwn'
        BY <1>1, <3>2, <3>3 DEF HashInv, RequestsMeetOwn, MeetsOwn, Compared
      <3> QED
        BY <3>4, <3>5
    <2>2. CASE PhaseAbort \/ PhaseClaim
      BY <1>1, <2>2 DEF PhaseAbort, PhaseClaim, HashInv, Behind, RequestsMeetOwn, MeetsOwn, Compared
    <2> QED
      BY <2>1, <2>2 DEF Phase
  <1> QED
    BY <1>1, <1>2 DEF HashInv, CompleteIsOwnHash, StoredIsOwn, OvertakenFindsNothing, Compared

\* The worker.
LEMMA HashWorker ==
    ASSUME HashInv, TypeOK', Worker
    PROVE  HashInv'
  <1> USE DEF storageVars, jobVars
  <1>0. /\ TypeOK /\ phase \in Phases /\ phase # None /\ gen \in Int /\ since \in Int
        /\ phase' = phase \/ (phase' = None /\ pc' = "none")
        /\ UNCHANGED <<scan, waiting, lib, gen, act, since, mixed>>
    BY WorkerHasPhase DEF HashInv, PhaseEnd, TypeOK
  <1>2. Behind' /\ RequestsMeetOwn' /\ StoredIsOwn'
    BY <1>0 DEF HashInv, Behind, RequestsMeetOwn, MeetsOwn, StoredIsOwn, Compared
  <1>3. OvertakenFindsNothing'
    <2>1. pc' = "update" => JobHash
      BY DEF Worker, JobWindow, JobOvertaken, JobClaimFails, JobClaimNothing, JobClaim, JobStuck,
             JobGiveBack, JobUpdate, JobUpdateFails, JobAbandon, JobFinish, PhaseEnd
    <2>2. pc' = "update" => phase.gen = gen /\ phase' = phase
      BY <1>0, <2>1 DEF JobHash
    <2>3. since <= gen
      BY DEF HashInv, Behind
    <2> QED
      BY <1>0, <2>2, <2>3 DEF OvertakenFindsNothing
  <1>4. CompleteIsOwnHash'
    <2>1. CASE pc # "update"
      BY <1>0, <2>1, WorkerUnsettles, OwnRowsStay DEF HashInv, OnlyUnsettles
    <2>2. CASE pc = "update" /\ Settle
      BY <1>0, <2>2, SettleIsCurrent, OwnRowsStay DEF HashInv
    <2>3. CASE pc = "update" /\ ~Settle
      <3>1. UNCHANGED rows
        BY <2>3 DEF Worker, JobWindow, JobOvertaken, JobClaimFails, JobClaimNothing, JobClaim, JobStuck,
                    JobGiveBack, JobHash, JobUpdate, JobUpdateFails, JobAbandon, JobFinish
      <3> QED
        BY <1>0, <3>1 DEF HashInv, CompleteIsOwnHash
    <2> QED
      BY <2>1, <2>2, <2>3
  <1> QED
    BY <1>2, <1>3, <1>4 DEF HashInv

\* A step of the system keeps the invariant.
LEMMA HashNext == HashInv /\ [Next]_vars => HashInv'
  <1> SUFFICES ASSUME HashInv, [Next]_vars PROVE HashInv'
    OBVIOUS
  <1>0. TypeOK'
    BY TypeNext DEF HashInv
  <1>1. CASE Phase
    BY <1>0, <1>1, HashPhase
  <1>2. CASE Worker
    BY <1>0, <1>2, HashWorker
  <1>3. CASE UNCHANGED vars
    BY <1>0, <1>3 DEF vars, HashInv, CompleteIsOwnHash, Behind, RequestsMeetOwn, MeetsOwn, Compared,
                StoredIsOwn, OvertakenFindsNothing
  <1>4. CASE Activate \/ Restart
    BY <1>0, <1>4, HashEnvironment
  <1>5. CASE ~Phase /\ ~Worker /\ ~Activate /\ ~Restart /\ Next
    BY <1>0, <1>5, HashScans DEF Next
  <1> QED
    BY <1>1, <1>2, <1>3, <1>4, <1>5

\* The invariant holds in every reachable state.
LEMMA HashInvariant == Spec => []HashInv
  BY HashInit, HashNext, PTL DEF Spec

\* A settled row carries the hash of the file of its own storage, although
\* scans and workers write to whatever library is open at that moment, unless
\* a library came under a request that its generation does not tell from one
\* of its own.
THEOREM SettledIsOwn == Spec => []CompleteIsOwnHash
  <1>1. HashInv => CompleteIsOwnHash
    BY DEF HashInv
  <1> QED
    BY <1>1, HashInvariant, PTL

-----------------------------------------------------------------------------
(* What a step does to a row.                                              *)

\* The steps of an activation and a restart open a library or leave the rows.
LEMMA EnvironmentRows ==
    ASSUME TypeOK, Activate \/ Restart
    PROVE  UNCHANGED rows \/ \E s \in Storages : OpenRecovered(s)
  <1>1. act.to \in Storages
    BY DEF TypeOK
  <1> QED
    BY <1>1 DEF Activate, ActivateBump, ActivateOpen, ActivateClose, ActivateAttach, ActivateLocate,
                ActivateFails, Restart

\* A scan that writes rows does not stay as it is.
LEMMA ScanRows ==
    ASSUME TypeOK,
           \/ \E owner \in {"foreground", "watcher"}, force \in BOOLEAN : ScanStart(owner, force)
           \/ Scan
    PROVE  \/ UNCHANGED rows
           \/ scan # None /\ scan' # scan /\ SaveChunk
           \/ scan # None /\ scan' = None /\ Prune
  <1>1. CASE ScanChunk
    <2>1. scan \in Scans /\ scan.pc = "chunk" /\ SaveChunk /\ scan # None
      BY <1>1 DEF ScanChunk, TypeOK
    <2>2. scan' = [scan EXCEPT !.pc = "ready", !.saved = @ \cup ({lib} \X NextChunk)]
      BY <1>1 DEF ScanChunk
    <2>3. scan'.pc = "ready"
      BY <2>1, <2>2 DEF Scans
    <2> QED
      BY <2>1, <2>3
  <1>2. CASE ScanFinalize \/ ScanFail
    BY <1>2 DEF ScanFinalize, ScanFail, ScanEnds
  <1>3. CASE ~ScanChunk /\ ~ScanFinalize /\ ~ScanFail
    BY <1>3 DEF Scan, ScanStart, ScanRead, ScanCheck
  <1> QED
    BY <1>1, <1>2, <1>3

\* What a step may do while the worker is of an earlier generation than the
\* open library.
StaleStep ==
    (phase # None /\ phase.gen < since /\ scan = scan') => OnlyUnsettles

\* A step settles rows only as a save or as an update that is not overtaken.
LEMMA StaleNext == HashInv /\ [Next]_vars => StaleStep
  <1> SUFFICES ASSUME HashInv, [Next]_vars, phase # None, phase.gen < since, scan = scan'
               PROVE  OnlyUnsettles
    BY DEF StaleStep
  <1> USE DEF storageVars, jobVars
  <1>0. TypeOK
    BY DEF HashInv
  <1>4. CASE UNCHANGED rows
    BY <1>4 DEF OnlyUnsettles
  <1>1. CASE Worker
    <2>1. CASE pc # "update"
      BY <1>0, <1>1, <2>1, WorkerUnsettles
    <2>2. CASE pc = "update" /\ Settle
      BY <1>1, <2>2, SettleIsCurrent
    <2>3. CASE pc = "update" /\ ~Settle
      <3>1. UNCHANGED rows
        BY <1>1, <2>3 DEF Worker, JobWindow, JobOvertaken, JobClaimFails, JobClaimNothing, JobClaim,
                    JobStuck, JobGiveBack, JobHash, JobUpdate, JobUpdateFails, JobAbandon, JobFinish
      <3> QED
        BY <1>4, <3>1
    <2> QED
      BY <2>1, <2>2, <2>3
  <1>3. CASE Activate \/ Restart
    BY <1>0, <1>3, <1>4, EnvironmentRows, OpenUnsettles
  <1>5. CASE Phase
    BY <1>4, <1>5 DEF Phase, PhaseStart, PhaseSkip, PhaseAbort, PhaseClaim
  <1>6. CASE Next /\ ~Worker /\ ~Phase /\ ~Restart /\ ~Activate
    <2>1. UNCHANGED rows
      BY <1>0, <1>6, ScanRows DEF Next
    <2> QED
      BY <1>4, <2>1
  <1> QED
    BY <1>1, <1>3, <1>4, <1>5, <1>6 DEF vars

\* Once a library has been opened over a worker, the worker settles no row of
\* any library, also when the activation falls between its comparison of the
\* generations and its write.
THEOREM StaleSettlesNothing == Spec => StaleWorkerSettlesNothing
  <1>1. HashInv /\ [Next]_vars =>
           [(phase # None /\ phase.gen < since /\ scan = scan') =>
              \A s \in Storages, f \in Files :
                 rows'[s][f] \in Storages => rows[s][f] \in Storages]_vars
    BY StaleNext DEF StaleStep, OnlyUnsettles
  <1> QED
    BY <1>1, HashInvariant, PTL DEF Spec, StaleWorkerSettlesNothing

\* Rows of a library that are there before a step are there after it, and no
\* other.
SameMembers ==
    \A s \in Storages, f \in Files : (rows[s][f] = "absent") <=> (rows'[s][f] = "absent")

\* The worker neither adds nor removes a row.
LEMMA WorkerKeepsMembers ==
    ASSUME TypeOK, Worker
    PROVE  SameMembers
  <1>0. phase \in Phases /\ phase # None /\ phase.root # "absent"
    BY WorkerHasPhase, RecordIsThere, StorageIsNoState
  <1>1. CASE UNCHANGED rows
    BY <1>1 DEF SameMembers
  <1>2. CASE lib # None /\ rows' = Mark(Claimable, "Running")
    BY <1>0, <1>2, RunningRows DEF SameMembers
  <1>3. ASSUME NEW st \in {"Pending", "Failed"}, Finished(st)
        PROVE  SameMembers
    BY <1>3, FinishedRows DEF SameMembers
  <1>4. CASE JobGiveBack \/ JobAbandon \/ JobFinish
    BY <1>3, <1>4 DEF JobGiveBack, JobAbandon, JobFinish
  <1>5. CASE Settle
    BY <1>0, <1>5, SettledRows DEF SameMembers
  <1> QED
    BY <1>1, <1>2, <1>4, <1>5 DEF Worker, JobWindow, JobOvertaken, JobClaimFails, JobClaimNothing,
                            JobClaim, JobStuck, JobHash, JobUpdate, JobUpdateFails

\* Only a chunk adds and only a finalize removes rows, of the open library.
LEMMA MembershipNext ==
    ASSUME TypeOK, [Next]_vars
    PROVE  \A s \in Storages, f \in Files :
              (rows[s][f] = "absent") # (rows'[s][f] = "absent") =>
                 /\ scan # None
                 /\ s = lib
                 /\ IF rows[s][f] = "absent" THEN f \in Unsaved
                    ELSE scan' = None /\ <<s, f>> \notin scan.saved
  <1> USE DEF storageVars, jobVars
  <1>1. CASE Worker
    BY <1>1, WorkerKeepsMembers DEF SameMembers
  <1>3. CASE Activate \/ Restart
    <2>1. ASSUME NEW s \in Storages, OpenRecovered(s) PROVE SameMembers
      BY <2>1, OpenedRows DEF SameMembers
    <2>2. SameMembers
      BY <1>3, <2>1, EnvironmentRows DEF SameMembers
    <2> QED
      BY <2>2 DEF SameMembers
  <1>4. CASE UNCHANGED rows
    BY <1>4
  <1>5. CASE scan # None /\ SaveChunk
    BY <1>5, ChunkRows
  <1>6. CASE scan # None /\ scan' = None /\ Prune
    BY <1>6, PrunedRows
  <1>7. CASE Phase
    BY <1>4, <1>7 DEF Phase, PhaseStart, PhaseSkip, PhaseAbort, PhaseClaim
  <1>8. CASE Next /\ ~Worker /\ ~Phase /\ ~Restart /\ ~Activate
    <2>1. \/ UNCHANGED rows
          \/ scan # None /\ SaveChunk
          \/ scan # None /\ scan' = None /\ Prune
      BY <1>8, ScanRows DEF Next
    <2> QED
      BY <1>4, <1>5, <1>6, <2>1
  <1> QED
    BY <1>1, <1>3, <1>4, <1>7, <1>8 DEF vars

\* A row appears only with a chunk of a scan that found its file and goes only
\* with a finalize of one that did not save it, in the library that is open: a
\* claim, a late result or a recovery never brings one back.
THEOREM OnlyDiscoveryAddsRows == Spec => MembershipIsDiscovery
  <1>1. TypeOK /\ [Next]_vars =>
           [\A s \in Storages, f \in Files :
              (rows[s][f] = "absent") # (rows'[s][f] = "absent") =>
                 /\ scan # None
                 /\ s = lib
                 /\ IF rows[s][f] = "absent" THEN f \in Unsaved
                    ELSE scan' = None /\ <<s, f>> \notin scan.saved]_vars
    BY MembershipNext
  <1> QED
    BY <1>1, TypeCorrect, PTL DEF Spec, MembershipIsDiscovery
=============================================================================
