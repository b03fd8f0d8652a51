-------------------------- MODULE LibraryScanProofs --------------------------
(***************************************************************************)
(* Proofs about LibraryScan: types, that a Complete discovery lists the    *)
(* rows, that a skipped scan leaves nothing undone, and that rows are lost *)
(* only by reconciling.  All but the types need that scans do not overlap. *)
(***************************************************************************)
EXTENDS LibraryScan, TLAPS

\* Scans do not overlap.  Populators exclude each other by the activity slot, but
\* a watcher only looks at the slot before it starts.
OneScan == \A s, t \in Scanners : s = t \/ At(s, "idle") \/ At(t, "idle")

-----------------------------------------------------------------------------
(* Facts about the operators.                                              *)

\* Records are not the absent value.
LEMMA RecordIsThere ==
    /\ \A r \in Rows : r # None /\ r.tok \in Nat /\ r.ver \in Versions
                         /\ r.ident \in {"pending", "complete"}
    /\ \A l \in Listings : l # None
    /\ \A m \in Metas : m # None
    /\ \A q \in Requests : q # None
    /\ \A q \in Requests : q.pc = "delete" => q.file \in Files
    /\ \A q \in Requests : q.pc = "rename" => q.file \in Files /\ q.to \in Files
    /\ \A p \in Populators : p # None
  BY ScanAssumption DEF ScanAssumption, Rows, Requests

\* The fields of a run.
LEMMA RunFields ==
    ASSUME TypeOK, NEW s \in Scanners
    PROVE  /\ run[s] \in Runs
           /\ run[s].skip \in BOOLEAN
           /\ run[s].stored \in Listings
           /\ run[s].clean \in Listings \cup {None}
           /\ run[s].listing \in Listings
           /\ run[s].todo \in SUBSET Files
           /\ run[s].token \in Nat
  BY DEF TypeOK, Runs

\* A listing is a function to versions.
LEMMA ListingValues ==
    ASSUME NEW L \in Listings, NEW f \in Files
    PROVE  /\ L[f] \in Nat
           /\ L[f] # Absent => L[f] \in Versions
           /\ \A v \in Versions \cup {Absent} : [L EXCEPT ![f] = v] \in Listings
  BY ScanAssumption DEF Listings, Versions, Absent, ScanAssumption

\* A scanner at rest is a run.
LEMMA ParkedRun == Parked \in Runs /\ Nothing \in Listings
  BY DEF Parked, Nothing, Runs, Listings, Absent

\* What changing the place of a scanner does.
LEMMA GotoRun ==
    ASSUME TypeOK, NEW s \in Scanners, NEW pc \in {"stored", "enrich", "enriching", "done"},
           Goto(s, pc)
    PROVE  /\ run' \in [Scanners -> Runs]
           /\ run'[s] = [run[s] EXCEPT !.pc = pc]
           /\ run'[s].pc = pc /\ run'[s].listing = run[s].listing
           /\ run'[s].skip = run[s].skip /\ run'[s].clean = run[s].clean
           /\ \A t \in Scanners : t # s => run'[t] = run[t]
  <1>1. [run[s] EXCEPT !.pc = pc] \in Runs
    BY RunFields DEF Runs
  <1> QED
    BY <1>1 DEF Goto, TypeOK, Runs

\* What leaving a scan does.
LEMMA LeaveRun ==
    ASSUME TypeOK, NEW s \in Scanners, NEW pc \in {"enrich", "done"}, Leave(s, pc)
    PROVE  /\ run' \in [Scanners -> Runs]
           /\ run'[s].pc = pc
           /\ \A t \in Scanners : t # s => run'[t] = run[t]
  <1>1. [Parked EXCEPT !.pc = pc] \in Runs
    BY ParkedRun DEF Runs
  <1>2. [Parked EXCEPT !.pc = pc].pc = pc
    BY DEF Parked
  <1> QED
    BY <1>1, <1>2 DEF Leave, TypeOK

\* What the steps that change more than the place do to a run.  Claiming the
\* slot.
LEMMA ClaimRun ==
    ASSUME TypeOK, NEW p \in Populators, NEW sk \in BOOLEAN, Claim(p, sk)
    PROVE  /\ run' \in [Scanners -> Runs]
           /\ run'[p].pc = "stored"
           /\ \A t \in Scanners : t # p => run'[t] = run[t]
  <1>1. p \in Scanners
    BY DEF Scanners
  <1>2. [run[p] EXCEPT !.pc = "stored", !.skip = sk] \in Runs
    BY <1>1, RunFields DEF Runs
  <1>3. run' = [run EXCEPT ![p] = [run[p] EXCEPT !.pc = "stored", !.skip = sk]]
    BY <1>1 DEF Claim, TypeOK
  <1> QED
    BY <1>1, <1>2, <1>3 DEF TypeOK, Runs

\* Reading the stored hashes.
LEMMA ReadStoredRun ==
    ASSUME TypeOK, NEW s \in Scanners, ReadStored(s)
    PROVE  /\ run' \in [Scanners -> Runs]
           /\ run'[s].pc = "clean"
           /\ \A t \in Scanners : t # s => run'[t] = run[t]
  <1>1. StoredHashes \in Listings
    BY RecordIsThere DEF StoredHashes, TypeOK, Listings, Absent
  <1>2. PICK h \in Listings : run' = [run EXCEPT ![s].pc = "clean", ![s].stored = h]
    BY <1>1, ParkedRun DEF ReadStored
  <1>3. [run[s] EXCEPT !.pc = "clean", !.stored = h] \in Runs
    BY RunFields DEF Runs
  <1>4. run' = [run EXCEPT ![s] = [run[s] EXCEPT !.pc = "clean", !.stored = h]]
    BY <1>2 DEF TypeOK
  <1> QED
    BY <1>3, <1>4 DEF TypeOK, Runs

\* Reading the fingerprint: it is the clean one, or none.
LEMMA ReadCleanRun ==
    ASSUME TypeOK, NEW s \in Scanners, ReadClean(s)
    PROVE  /\ run' \in [Scanners -> Runs]
           /\ run'[s].pc = "walk" /\ run'[s].clean \in {CleanFingerprint, None}
           /\ \A t \in Scanners : t # s => run'[t] = run[t]
  <1>1. CleanFingerprint \in Listings \cup {None}
    BY DEF CleanFingerprint, TypeOK
  <1>2. PICK c \in {CleanFingerprint, None} :
           run' = [run EXCEPT ![s].pc = "walk", ![s].clean = c, ![s].todo = Files]
    BY DEF ReadClean
  <1>3. [run[s] EXCEPT !.pc = "walk", !.clean = c, !.todo = Files] \in Runs
    BY <1>1, RunFields DEF Runs
  <1>4. run' = [run EXCEPT ![s] = [run[s] EXCEPT !.pc = "walk", !.clean = c, !.todo = Files]]
    BY <1>2 DEF TypeOK
  <1> QED
    BY <1>3, <1>4 DEF TypeOK, Runs

\* Walking a file.
LEMMA WalkRun ==
    ASSUME TypeOK, NEW s \in Scanners, NEW f \in Files, Walk(s, f)
    PROVE  /\ run' \in [Scanners -> Runs]
           /\ run'[s].pc = "walk" /\ run'[s].clean = run[s].clean
           /\ \A t \in Scanners : t # s => run'[t] = run[t]
  <1>1. [run[s].listing EXCEPT ![f] = disk[f]] \in Listings
    BY RunFields, ListingValues DEF TypeOK, Listings
  <1>2. [run[s] EXCEPT !.listing = [run[s].listing EXCEPT ![f] = disk[f]], !.todo = @ \ {f}] \in Runs
    BY <1>1, RunFields DEF Runs
  <1>3. run' = [run EXCEPT ![s] =
                  [run[s] EXCEPT !.listing = [run[s].listing EXCEPT ![f] = disk[f]], !.todo = @ \ {f}]]
    BY DEF Walk, TypeOK, Runs
  <1> QED
    BY <1>2, <1>3 DEF TypeOK, Runs, Walk, At

\* Beginning a save: the run takes the token, and the listed files are to do.
LEMMA BeginRun ==
    ASSUME TypeOK, NEW s \in Scanners, Begin(s)
    PROVE  /\ run' \in [Scanners -> Runs]
           /\ run'[s].pc = "chunk" /\ run'[s].token = nextToken
           /\ run'[s].todo = UniqueRoms(s) /\ run'[s].listing = run[s].listing
           /\ \A t \in Scanners : t # s => run'[t] = run[t]
  <1>1. UniqueRoms(s) \in SUBSET Files
    BY DEF UniqueRoms
  <1>2. [run[s] EXCEPT !.pc = "chunk", !.token = nextToken, !.todo = UniqueRoms(s),
                       !.skip = FALSE, !.clean = None] \in Runs
    BY <1>1, RunFields DEF Runs, TypeOK
  <1>3. run' = [run EXCEPT ![s] =
                  [run[s] EXCEPT !.pc = "chunk", !.token = nextToken, !.todo = UniqueRoms(s),
                                 !.skip = FALSE, !.clean = None]]
    BY DEF Begin, TypeOK
  <1> QED
    BY <1>2, <1>3 DEF TypeOK, Runs

\* Saving a chunk.
LEMMA ChunkRun ==
    ASSUME TypeOK, NEW s \in Scanners, NEW f \in Files, Chunk(s, f)
    PROVE  /\ run' \in [Scanners -> Runs]
           /\ run'[s].pc = "chunk" /\ run'[s].token = run[s].token
           /\ run'[s].todo = run[s].todo \ {f} /\ run'[s].listing = run[s].listing
           /\ \A t \in Scanners : t # s => run'[t] = run[t]
  <1>1. [run[s] EXCEPT !.todo = @ \ {f}] \in Runs
    BY RunFields DEF Runs
  <1>2. run' = [run EXCEPT ![s] = [run[s] EXCEPT !.todo = @ \ {f}]]
    BY DEF Chunk, TypeOK
  <1> QED
    BY <1>1, <1>2 DEF TypeOK, Runs, Chunk, At

-----------------------------------------------------------------------------
(* Type correctness.                                                       *)

\* The files a save has still to write are listed.
TodoIsListed ==
    \A s \in Scanners : At(s, "chunk") => \A f \in run[s].todo : run[s].listing[f] # Absent

TypeInv == TypeOK /\ TodoIsListed

\* The row that a chunk writes.
LEMMA UpsertRow ==
    ASSUME TypeInv, NEW s \in Scanners, NEW f \in Files, Chunk(s, f)
    PROVE  /\ Upsert(s, f) \in Rows
           /\ Upsert(s, f).tok = run[s].token /\ Upsert(s, f).ver = run[s].listing[f]
  <1>1. run[s].token \in Nat /\ run[s].listing \in Listings
    BY RunFields DEF TypeInv
  <1>2. run[s].listing[f] # Absent
    BY DEF TypeInv, TodoIsListed, Chunk
  <1>3. run[s].listing[f] \in Versions
    BY <1>1, <1>2, ListingValues
  <1>4. CarriedIdentity(s, f) \in {"pending", "complete"}
    BY DEF CarriedIdentity
  <1> QED
    BY <1>1, <1>3, <1>4 DEF Upsert, Rows

\* A scanner that is not saving has nothing to do that is not listed.
LEMMA TodoStays ==
    ASSUME TypeInv, NEW s \in Scanners, run'[s].pc # "chunk",
           \A t \in Scanners : t # s => run'[t] = run[t]
    PROVE  TodoIsListed'
  BY DEF TypeInv, TodoIsListed, At

\* A fresh library is well typed.
LEMMA TypeInit == Init => TypeInv
  <1> SUFFICES ASSUME Init PROVE TypeInv
    OBVIOUS
  <1>1. run \in [Scanners -> Runs]
    BY ParkedRun DEF Init
  <1>2. TypeOK
    BY <1>1 DEF Init, TypeOK
  <1>3. \A s \in Scanners : run[s].pc = "idle"
    BY DEF Init, Parked
  <1> QED
    BY <1>2, <1>3 DEF TypeInv, TodoIsListed, At

\* The steps of a scan that leave the library alone.
LEMMA TypeReads ==
    ASSUME TypeInv, NEW s \in Scanners,
           \/ ReadStored(s) \/ ReadClean(s)
           \/ \E f \in Files : Walk(s, f)
           \/ Skip(s) \/ Fail(s) \/ Finish(s)
    PROVE  TypeInv'
  <1> USE DEF history
  <1>0. TypeOK
    BY DEF TypeInv
  <1>1. CASE ReadStored(s)
    <2>1. /\ run' \in [Scanners -> Runs] /\ run'[s].pc # "chunk"
          /\ \A t \in Scanners : t # s => run'[t] = run[t]
      BY <1>0, <1>1, ReadStoredRun
    <2>2. TypeOK'
      BY <1>0, <1>1, <2>1 DEF ReadStored, TypeOK
    <2> QED
      BY <2>1, <2>2, TodoStays DEF TypeInv
  <1>2. CASE ReadClean(s)
    <2>1. /\ run' \in [Scanners -> Runs] /\ run'[s].pc # "chunk"
          /\ \A t \in Scanners : t # s => run'[t] = run[t]
      BY <1>0, <1>2, ReadCleanRun
    <2>2. TypeOK'
      BY <1>0, <1>2, <2>1 DEF ReadClean, TypeOK
    <2> QED
      BY <2>1, <2>2, TodoStays DEF TypeInv
  <1>3. ASSUME NEW f \in Files, Walk(s, f) PROVE TypeInv'
    <2>1. /\ run' \in [Scanners -> Runs] /\ run'[s].pc # "chunk"
          /\ \A t \in Scanners : t # s => run'[t] = run[t]
      BY <1>0, <1>3, WalkRun
    <2>2. TypeOK'
      BY <1>0, <1>3, <2>1 DEF Walk, TypeOK
    <2> QED
      BY <2>1, <2>2, TodoStays DEF TypeInv
  <1>4. CASE Skip(s) \/ Fail(s)
    <2>0. Leave(s, "done")
      BY <1>4 DEF Skip, Fail
    <2>1. /\ run' \in [Scanners -> Runs] /\ run'[s].pc # "chunk"
          /\ \A t \in Scanners : t # s => run'[t] = run[t]
      BY <1>0, <2>0, LeaveRun
    <2>2. TypeOK'
      BY <1>0, <1>4, <2>1 DEF Skip, Fail, TypeOK
    <2> QED
      BY <2>1, <2>2, TodoStays DEF TypeInv
  <1>5. CASE Finish(s)
    <2>1. run' \in [Scanners -> Runs] /\ run'[s].pc = "idle"
            /\ \A t \in Scanners : t # s => run'[t] = run[t]
      BY <1>0, <1>5, ParkedRun DEF Finish, TypeOK, Parked
    <2>2. TypeOK'
      BY <1>0, <1>5, <2>1 DEF Finish, TypeOK
    <2> QED
      BY <2>1, <2>2, TodoStays DEF TypeInv
  <1> QED
    BY <1>1, <1>2, <1>3, <1>4, <1>5

\* The transactions of a save and of enrichment.
LEMMA TypeWrites ==
    ASSUME TypeInv, NEW s \in Scanners,
           \/ \E f \in Files : Chunk(s, f)
           \/ Begin(s) \/ Finalize(s) \/ EnrichStart(s)
           \/ \E e \in {"complete", "failed", "running"} : EnrichEnd(s, e)
    PROVE  TypeInv'
  <1> USE DEF history
  <1>0. TypeOK
    BY DEF TypeInv
  <1>1. ASSUME NEW f \in Files, Chunk(s, f) PROVE TypeInv'
    <2>1. rows' \in [Files -> Rows \cup {None}]
      BY <1>0, <1>1, UpsertRow DEF Chunk, TypeOK
    <2>2. /\ run' \in [Scanners -> Runs] /\ run'[s].listing = run[s].listing
          /\ run'[s].todo = run[s].todo \ {f} /\ run[s].pc = "chunk"
          /\ \A t \in Scanners : t # s => run'[t] = run[t]
      BY <1>0, <1>1, ChunkRun DEF Chunk, At
    <2>3. TypeOK'
      BY <1>0, <1>1, <2>1, <2>2 DEF Chunk, TypeOK
    <2>4. TodoIsListed'
      BY <2>2 DEF TypeInv, TodoIsListed, At
    <2> QED
      BY <2>3, <2>4 DEF TypeInv
  <1>2. CASE Begin(s)
    <2>1. meta' \in Metas
      BY <1>0, <1>2 DEF Begin, MarkDiscoveryRunning, TypeOK, Metas
    <2>2. nextToken' \in Nat
      BY <1>0, <1>2 DEF Begin, TypeOK
    <2>3. TypeOK'
      BY <1>0, <1>2, <2>1, <2>2, BeginRun DEF Begin, TypeOK
    <2>4. \A f \in UniqueRoms(s) : run[s].listing[f] # Absent
      BY DEF UniqueRoms
    <2>5. TodoIsListed'
      BY <1>0, <1>2, <2>4, BeginRun DEF TypeInv, TodoIsListed, At
    <2> QED
      BY <2>3, <2>5 DEF TypeInv
  <1>3. CASE Finalize(s)
    <2>1. Leave(s, "enrich")
      BY <1>3 DEF Finalize
    <2>2. rows' \in [Files -> Rows \cup {None}] /\ meta' \in Metas
      BY <1>0, <1>3 DEF Finalize, TypeOK, Metas
    <2>3. run[s].listing \in Listings
      BY <1>0, RunFields
    <2>4. /\ run' \in [Scanners -> Runs] /\ run'[s].pc # "chunk"
          /\ \A t \in Scanners : t # s => run'[t] = run[t]
      BY <1>0, <2>1, LeaveRun
    <2>5. TypeOK'
      BY <1>0, <1>3, <2>2, <2>3, <2>4 DEF Finalize, TypeOK
    <2> QED
      BY <2>4, <2>5, TodoStays DEF TypeInv
  <1>4. CASE EnrichStart(s)
    <2>1. Goto(s, "enriching")
      BY <1>4 DEF EnrichStart
    <2>2. meta' \in Metas \cup {None}
      BY <1>0, <1>4 DEF EnrichStart, SetEnrichment, TypeOK, Metas
    <2>3. /\ run' \in [Scanners -> Runs] /\ run'[s].pc # "chunk"
          /\ \A t \in Scanners : t # s => run'[t] = run[t]
      BY <1>0, <2>1, GotoRun
    <2>4. TypeOK'
      BY <1>0, <1>4, <2>2, <2>3 DEF EnrichStart, TypeOK
    <2> QED
      BY <2>3, <2>4, TodoStays DEF TypeInv
  <1>5. ASSUME NEW e \in {"complete", "failed", "running"}, EnrichEnd(s, e) PROVE TypeInv'
    <2>1. Goto(s, "done")
      BY <1>5 DEF EnrichEnd
    <2>2. meta' \in Metas \cup {None}
      BY <1>0, <1>5 DEF EnrichEnd, SetEnrichment, TypeOK, Metas
    <2>3. /\ run' \in [Scanners -> Runs] /\ run'[s].pc # "chunk"
          /\ \A t \in Scanners : t # s => run'[t] = run[t]
      BY <1>0, <2>1, GotoRun
    <2>4. TypeOK'
      BY <1>0, <1>5, <2>2, <2>3 DEF EnrichEnd, TypeOK
    <2> QED
      BY <2>3, <2>4, TodoStays DEF TypeInv
  <1> QED
    BY <1>1, <1>2, <1>3, <1>4, <1>5

\* Scans that start, and everything outside the scans.
LEMMA TypeOthers ==
    ASSUME TypeInv,
           \/ \E p \in Populators, sk \in BOOLEAN : Claim(p, sk)
           \/ \E w \in Watchers : Watch(w)
           \/ \E f \in Files : ResolveIdentity(f)
           \/ \E f \in Files, v \in Versions \cup {Absent} : ChangeDisk(f, v)
           \/ EditStep
           \/ Crash
    PROVE  TypeInv'
  <1> USE DEF history
  <1>0. TypeOK
    BY DEF TypeInv
  <1>1. ASSUME NEW p \in Populators, NEW sk \in BOOLEAN, Claim(p, sk) PROVE TypeInv'
    <2>0. p \in Scanners
      BY DEF Scanners
    <2>1. /\ run' \in [Scanners -> Runs] /\ run'[p].pc # "chunk"
          /\ \A t \in Scanners : t # p => run'[t] = run[t]
      BY <1>0, <1>1, ClaimRun
    <2>2. TypeOK'
      BY <1>0, <1>1, <2>1 DEF Claim, TypeOK
    <2> QED
      BY <2>0, <2>1, <2>2, TodoStays DEF TypeInv
  <1>2. ASSUME NEW w \in Watchers, Watch(w) PROVE TypeInv'
    <2>0. w \in Scanners /\ Goto(w, "stored")
      BY <1>2 DEF Watch, Scanners
    <2>1. /\ run' \in [Scanners -> Runs] /\ run'[w].pc # "chunk"
          /\ \A t \in Scanners : t # w => run'[t] = run[t]
      BY <1>0, <2>0, GotoRun
    <2>2. TypeOK'
      BY <1>0, <1>2, <2>1 DEF Watch, TypeOK
    <2> QED
      BY <2>0, <2>1, <2>2, TodoStays DEF TypeInv
  <1>3. ASSUME NEW f \in Files, ResolveIdentity(f) PROVE TypeInv'
    <2>1. [rows[f] EXCEPT !.ident = "complete"] \in Rows
      BY <1>0, <1>3 DEF ResolveIdentity, TypeOK, Rows
    <2>2. rows' \in [Files -> Rows \cup {None}]
      BY <1>0, <1>3, <2>1 DEF ResolveIdentity, TypeOK
    <2> QED
      BY <1>0, <1>3, <2>2 DEF ResolveIdentity, TypeInv, TypeOK, TodoIsListed, At
  <1>4. ASSUME NEW f \in Files, NEW v \in Versions \cup {Absent}, ChangeDisk(f, v) PROVE TypeInv'
    BY <1>0, <1>4, ListingValues DEF ChangeDisk, TypeInv, TypeOK, TodoIsListed, At
  <1>5. CASE EditStep
    <2>1. ASSUME NEW f \in Files, DeleteFile(f) PROVE TypeInv'
      <3>1. request' \in Requests
        BY <2>1 DEF DeleteFile, Requests
      <3>2. disk' \in Listings
        BY <1>0, <2>1, ListingValues DEF DeleteFile, TypeOK
      <3> QED
        BY <1>0, <2>1, <3>1, <3>2 DEF DeleteFile, TypeInv, TypeOK, TodoIsListed, At
    <2>2. ASSUME NEW f \in Files, NEW g \in Files, RenameFile(f, g) PROVE TypeInv'
      <3>1. request' \in Requests
        BY <2>2 DEF RenameFile, Requests
      <3>2. disk' \in Listings
        BY <1>0, <2>2 DEF RenameFile, TypeOK, Listings
      <3> QED
        BY <1>0, <2>2, <3>1, <3>2 DEF RenameFile, TypeInv, TypeOK, TodoIsListed, At
    <2>3. ASSUME NEW f \in Files, NEW v \in Versions, UploadFile(f, v) PROVE TypeInv'
      <3>1. request' \in Requests
        BY <2>3 DEF UploadFile, Requests
      <3>2. disk' \in Listings
        BY <1>0, <2>3, ListingValues DEF UploadFile, TypeOK
      <3> QED
        BY <1>0, <2>3, <3>1, <3>2 DEF UploadFile, TypeInv, TypeOK, TodoIsListed, At
    <2>4. CASE CascadeDelete \/ CascadeRename \/ ClearRows
      <3>1. rows' \in [Files -> Rows \cup {None}]
        <4>1. CASE CascadeDelete
          BY <1>0, <4>1, RecordIsThere DEF CascadeDelete, TypeOK
        <4>2. CASE CascadeRename
          <5>1. request.file \in Files /\ request.to \in Files
            BY <1>0, <4>2, RecordIsThere DEF CascadeRename, TypeOK
          <5> QED
            BY <1>0, <4>2, <5>1 DEF CascadeRename, TypeOK
        <4>3. CASE ClearRows
          BY <4>3 DEF ClearRows
        <4> QED
          BY <2>4, <4>1, <4>2, <4>3
      <3>2. request' \in Requests
        BY <2>4 DEF CascadeDelete, CascadeRename, ClearRows, Requests
      <3>3. torn' \in BOOLEAN /\ stirred' \in BOOLEAN
        BY <2>4 DEF CascadeDelete, CascadeRename, ClearRows, Stir
      <3>4. UNCHANGED <<disk, meta, fp, nextToken, slot, run>>
        BY <2>4 DEF CascadeDelete, CascadeRename, ClearRows
      <3> QED
        BY <1>0, <3>1, <3>2, <3>3, <3>4 DEF TypeInv, TypeOK, TodoIsListed, At
    <2>5. CASE ClearMeta \/ Abandon
      BY <1>0, <2>5 DEF ClearMeta, Abandon, TypeInv, TypeOK, TodoIsListed, At
    <2> QED
      BY <1>5, <2>1, <2>2, <2>3, <2>4, <2>5 DEF EditStep
  <1>6. CASE Crash
    <2>1. run' \in [Scanners -> Runs] /\ \A s \in Scanners : run'[s].pc = "idle"
      BY <1>6, ParkedRun DEF Crash, Parked
    <2>2. meta' \in Metas \cup {None}
      BY <1>0, <1>6 DEF Crash, Recovered, TypeOK, Metas
    <2> QED
      BY <1>0, <1>6, <2>1, <2>2 DEF Crash, TypeInv, TypeOK, TodoIsListed, At
  <1> QED
    BY <1>1, <1>2, <1>3, <1>4, <1>5, <1>6

\* A step keeps the types.
LEMMA TypeNext == TypeInv /\ [Next]_vars => TypeInv'
  <1> SUFFICES ASSUME TypeInv, [Next]_vars PROVE TypeInv'
    OBVIOUS
  <1>1. ASSUME NEW s \in Scanners, ScanStep(s) PROVE TypeInv'
    BY <1>1, TypeReads, TypeWrites DEF ScanStep
  <1>2. CASE UNCHANGED vars
    BY <1>2 DEF vars, TypeInv, TypeOK, TodoIsListed, At
  <1>3. CASE Next /\ ~\E s \in Scanners : ScanStep(s)
    BY <1>3, TypeOthers DEF Next
  <1> QED
    BY <1>1, <1>2, <1>3

\* Every variable of the library, its scanners and its edits keeps its type, also
\* when scans overlap; a saved row never has the version of an absent file.
THEOREM TypeCorrect == Spec => []TypeOK
  <1>1. TypeInv => TypeOK
    BY DEF TypeInv
  <1> QED
    BY <1>1, TypeInit, TypeNext, PTL DEF Spec

-----------------------------------------------------------------------------
(* Discovery.                                                              *)

\* A populator that is under way holds the activity slot.
HoldersHold == \A p \in Populators : ~At(p, "idle") => slot = p

\* Scan tokens are handed out once.
TokensAreOld ==
    /\ \A f \in Files : rows[f] # None => rows[f].tok < nextToken
    /\ \A s \in Scanners : At(s, "chunk") => run[s].token < nextToken

DiscoveryComplete == meta # None /\ meta.disc = "complete"

\* Between begin and finalize the discovery is not Complete, and, unless an edit
\* has changed rows under the save, the rows of the run's token are the files
\* it has written, as it listed them.
SaveInProgress(s) ==
    At(s, "chunk") =>
        /\ ~DiscoveryComplete
        /\ ~stirred => \A f \in Files :
              IF run[s].listing[f] # Absent /\ f \notin run[s].todo
              THEN rows[f] # None /\ rows[f].tok = run[s].token /\ rows[f].ver = run[s].listing[f]
              ELSE rows[f] # None => rows[f].tok # run[s].token

\* The library shows the listing whose fingerprint is stored, identified and
\* enriched.
Settled ==
    /\ RowsMatch(fp)
    /\ AllIdentified
    /\ meta # None => meta.disc = "complete" /\ meta.enr = "complete"

\* A fingerprint that a walk may skip on stays as true as when it was read,
\* until an edit tears the rows.
CleanIsTrusted(s) ==
    At(s, "walk") /\ run[s].clean # None => fp = run[s].clean /\ (torn \/ Settled)

ScanInv ==
    /\ TypeInv
    /\ CompleteIsListing
    /\ HoldersHold
    /\ TokensAreOld
    /\ \A s \in Scanners : SaveInProgress(s) /\ CleanIsTrusted(s)

\* While a scan is under way the other scanners rest.
LEMMA OneAtATime ==
    ASSUME OneScan, ScanInv, NEW s \in Scanners, ~At(s, "idle")
    PROVE  \A t \in Scanners : t # s => run[t].pc = "idle"
  BY DEF OneScan, At

\* In a fresh library nothing is complete.
LEMMA ScanInit == Init => ScanInv
  <1> SUFFICES ASSUME Init PROVE ScanInv
    OBVIOUS
  <1>1. \A s \in Scanners : run[s].pc = "idle"
    BY DEF Init, Parked
  <1> QED
    BY <1>1, TypeInit DEF Init, ScanInv, CompleteIsListing, HoldersHold, TokensAreOld,
                          SaveInProgress, CleanIsTrusted, Scanners, At

\* A step of a scan s, when the others rest and the slot stays, needs to be
\* looked at for s only.
LEMMA StepOfOne ==
    ASSUME OneScan, ScanInv, TypeInv', NEW s \in Scanners, ~At(s, "idle"),
           \A t \in Scanners : t # s => run'[t] = run[t],
           slot' = slot,
           CompleteIsListing', TokensAreOld', SaveInProgress(s)', CleanIsTrusted(s)'
    PROVE  ScanInv'
  <1>1. \A t \in Scanners : t # s => run'[t].pc = "idle" /\ run[t].pc = "idle"
    BY OneAtATime
  <1>2. \A t \in Scanners : SaveInProgress(t)' /\ CleanIsTrusted(t)'
    <2> SUFFICES ASSUME NEW t \in Scanners, t # s PROVE SaveInProgress(t)' /\ CleanIsTrusted(t)'
      OBVIOUS
    <2>1. run'[t].pc = "idle"
      BY <1>1
    <2> QED
      BY <2>1 DEF SaveInProgress, CleanIsTrusted, At
  <1>3. HoldersHold'
    BY <1>1 DEF ScanInv, HoldersHold, Scanners, At
  <1> QED
    BY <1>2, <1>3 DEF ScanInv

\* A step of s that leaves the library alone and ends outside the save and
\* without a fingerprint to trust.
LEMMA StepAside ==
    ASSUME OneScan, ScanInv, TypeInv', NEW s \in Scanners, ~At(s, "idle"),
           \A t \in Scanners : t # s => run'[t] = run[t],
           UNCHANGED <<rows, meta, fp, nextToken, slot, torn>>,
           run'[s].pc # "chunk", CleanIsTrusted(s)'
    PROVE  ScanInv'
  <1>1. CompleteIsListing'
    BY DEF ScanInv, CompleteIsListing, RowsMatch
  <1>2. SaveInProgress(s)'
    BY DEF SaveInProgress, At
  <1>3. TokensAreOld'
    <2>1. \A t \in Scanners : At(t, "chunk")' => At(t, "chunk") /\ run'[t] = run[t]
      BY DEF At
    <2> QED
      BY <2>1 DEF ScanInv, TokensAreOld
  <1> QED
    BY <1>1, <1>2, <1>3, StepOfOne

\* The steps of a scan that leave the library alone.
LEMMA ScanReads ==
    ASSUME OneScan, ScanInv, TypeInv', NEW s \in Scanners,
           \/ ReadStored(s) \/ ReadClean(s)
           \/ \E f \in Files : Walk(s, f)
           \/ Skip(s) \/ Fail(s)
    PROVE  ScanInv'
  <1> USE DEF history
  <1>0. TypeOK
    BY DEF ScanInv, TypeInv
  <1>1. CASE ReadStored(s)
    <2>1. ~At(s, "idle") /\ UNCHANGED <<rows, meta, fp, nextToken, slot, torn>>
      BY <1>1 DEF ReadStored, At
    <2>2. run'[s].pc = "clean" /\ \A t \in Scanners : t # s => run'[t] = run[t]
      BY <1>0, <1>1, ReadStoredRun
    <2>3. CleanIsTrusted(s)'
      BY <2>2 DEF CleanIsTrusted, At
    <2> QED
      BY <2>1, <2>2, <2>3, StepAside
  <1>2. CASE ReadClean(s)
    <2>1. ~At(s, "idle") /\ UNCHANGED <<rows, meta, fp, nextToken, slot, torn>>
      BY <1>2 DEF ReadClean, At
    <2>2. /\ run'[s].pc = "walk" /\ run'[s].clean \in {CleanFingerprint, None}
          /\ \A t \in Scanners : t # s => run'[t] = run[t]
      BY <1>0, <1>2, ReadCleanRun
    <2>3. ASSUME CleanFingerprint # None PROVE fp = CleanFingerprint /\ (torn \/ Settled)
      <3>1. /\ meta # None /\ meta.disc = "complete" /\ meta.enr = "complete" /\ AllIdentified
            /\ fp = CleanFingerprint
        BY <2>3 DEF CleanFingerprint
      <3>2. torn \/ RowsMatch(fp)
        BY <3>1 DEF ScanInv, CompleteIsListing
      <3> QED
        BY <3>1, <3>2 DEF Settled
    <2>4. Settled => Settled'
      BY <2>1 DEF Settled, RowsMatch, AllIdentified
    <2>5. CleanIsTrusted(s)'
      BY <2>1, <2>2, <2>3, <2>4 DEF CleanIsTrusted
    <2> QED
      BY <2>1, <2>2, <2>5, StepAside
  <1>3. ASSUME NEW f \in Files, Walk(s, f) PROVE ScanInv'
    <2>1. /\ ~At(s, "idle") /\ At(s, "walk")
          /\ UNCHANGED <<rows, meta, fp, nextToken, slot, torn>>
      BY <1>3 DEF Walk, At
    <2>2. /\ run'[s].pc = "walk" /\ run'[s].clean = run[s].clean
          /\ \A t \in Scanners : t # s => run'[t] = run[t]
      BY <1>0, <1>3, WalkRun
    <2>3. Settled => Settled'
      BY <2>1 DEF Settled, RowsMatch, AllIdentified
    <2>4. CleanIsTrusted(s)'
      BY <2>1, <2>2, <2>3 DEF CleanIsTrusted, ScanInv
    <2> QED
      BY <2>1, <2>2, <2>4, StepAside
  <1>4. CASE Skip(s) \/ Fail(s)
    <2>1. ~At(s, "idle") /\ UNCHANGED <<rows, meta, fp, nextToken, slot, torn>> /\ Leave(s, "done")
      BY <1>4 DEF Skip, Fail, Walked, At
    <2>2. run'[s].pc = "done" /\ \A t \in Scanners : t # s => run'[t] = run[t]
      BY <1>0, <2>1, LeaveRun
    <2>3. CleanIsTrusted(s)'
      BY <2>2 DEF CleanIsTrusted, At
    <2> QED
      BY <2>1, <2>2, <2>3, StepAside
  <1> QED
    BY <1>1, <1>2, <1>3, <1>4

\* begin_system_discovery: the token is newer than every row's.
LEMMA ScanBegin ==
    ASSUME OneScan, ScanInv, TypeInv', NEW s \in Scanners, Begin(s)
    PROVE  ScanInv'
  <1> USE DEF history
  <1>0. TypeOK /\ nextToken \in Nat
    BY DEF ScanInv, TypeInv, TypeOK
  <1>1. /\ ~At(s, "idle") /\ UNCHANGED <<rows, fp, slot, torn>>
        /\ nextToken' = nextToken + 1 /\ meta' = MarkDiscoveryRunning
    BY DEF Begin, Walked, At
  <1>2. /\ run'[s].pc = "chunk" /\ run'[s].token = nextToken
        /\ run'[s].todo = UniqueRoms(s) /\ run'[s].listing = run[s].listing
        /\ \A t \in Scanners : t # s => run'[t] = run[t]
    BY <1>0, BeginRun
  <1>3. ~DiscoveryComplete'
    BY <1>0, <1>1 DEF DiscoveryComplete, MarkDiscoveryRunning, TypeOK, Metas
  <1>4. CompleteIsListing'
    BY <1>3 DEF DiscoveryComplete, CompleteIsListing
  <1>5. \A f \in Files : rows'[f] # None => rows'[f].tok \in Nat /\ rows'[f].tok < nextToken
    BY <1>0, <1>1, RecordIsThere DEF ScanInv, TokensAreOld, TypeOK
  <1>6. \A t \in Scanners : t # s => run'[t].pc = "idle"
    BY <1>1, <1>2, OneAtATime
  <1>7. TokensAreOld'
    BY <1>0, <1>1, <1>2, <1>5, <1>6 DEF TokensAreOld, At
  <1>8. SaveInProgress(s)'
    <2>1. \A f \in Files : run'[s].listing[f] # Absent => f \in run'[s].todo
      BY <1>2 DEF UniqueRoms
    <2>2. \A f \in Files : rows'[f] # None => rows'[f].tok # run'[s].token
      BY <1>0, <1>2, <1>5
    <2> QED
      BY <1>3, <2>1, <2>2 DEF SaveInProgress
  <1>9. CleanIsTrusted(s)'
    BY <1>2 DEF CleanIsTrusted, At
  <1> QED
    BY <1>1, <1>2, <1>4, <1>7, <1>8, <1>9, StepOfOne

\* upsert_discovery_chunk
LEMMA ScanChunk ==
    ASSUME OneScan, ScanInv, TypeInv', NEW s \in Scanners, NEW f \in Files, Chunk(s, f)
    PROVE  ScanInv'
  <1> USE DEF history
  <1>0. TypeOK /\ TypeInv
    BY DEF ScanInv, TypeInv
  <1>1. /\ ~At(s, "idle") /\ At(s, "chunk") /\ f \in run[s].todo
        /\ UNCHANGED <<meta, fp, slot, torn, stirred, nextToken>>
    BY DEF Chunk, At
  <1>2. /\ run'[s].pc = "chunk" /\ run'[s].token = run[s].token
        /\ run'[s].todo = run[s].todo \ {f} /\ run'[s].listing = run[s].listing
        /\ \A t \in Scanners : t # s => run'[t] = run[t]
    BY <1>0, ChunkRun
  <1>3. rows'[f] = Upsert(s, f) /\ \A g \in Files : g # f => rows'[g] = rows[g]
    BY <1>0 DEF Chunk, TypeOK
  <1>4. /\ rows'[f] # None /\ rows'[f].tok = run[s].token /\ rows'[f].ver = run[s].listing[f]
    BY <1>0, <1>3, UpsertRow, RecordIsThere
  <1>5. ~DiscoveryComplete'
    BY <1>1 DEF ScanInv, SaveInProgress, DiscoveryComplete
  <1>6. CompleteIsListing'
    BY <1>5 DEF CompleteIsListing, DiscoveryComplete
  <1>7. TokensAreOld'
    <2>1. \A t \in Scanners : At(t, "chunk")' => At(t, "chunk") /\ run'[t].token = run[t].token
      BY <1>1, <1>2 DEF At
    <2> QED
      BY <1>1, <1>3, <1>4, <2>1 DEF ScanInv, TokensAreOld
  <1>8. SaveInProgress(s)'
    <2>1. run[s].listing[f] # Absent
      BY <1>0, <1>1 DEF TypeInv, TodoIsListed
    <2> QED
      BY <1>1, <1>2, <1>3, <1>4, <1>5, <2>1 DEF ScanInv, SaveInProgress
  <1>9. CleanIsTrusted(s)'
    BY <1>2 DEF CleanIsTrusted, At
  <1> QED
    BY <1>1, <1>2, <1>6, <1>7, <1>8, <1>9, StepOfOne

\* What finalize_system_discovery finds: the rows of its token are the
\* listing, unless an edit changed rows since the save began.
LEMMA FinalizedRows ==
    ASSUME ScanInv, NEW s \in Scanners, Finalize(s), ~stirred, NEW f \in Files
    PROVE  IF run[s].listing[f] = Absent THEN rows'[f] = None
           ELSE rows'[f] = rows[f] /\ rows[f] # None /\ rows[f].ver = run[s].listing[f]
  <1>1. rows'[f] = IF rows[f] # None /\ rows[f].tok = run[s].token THEN rows[f] ELSE None
    BY DEF Finalize
  <1>2. At(s, "chunk") /\ run[s].todo = {}
    BY DEF Finalize
  <1> QED
    BY <1>1, <1>2 DEF ScanInv, SaveInProgress

\* finalize_system_discovery
LEMMA ScanFinalize ==
    ASSUME OneScan, ScanInv, TypeInv', NEW s \in Scanners, Finalize(s)
    PROVE  ScanInv'
  <1>0. TypeOK
    BY DEF ScanInv, TypeInv
  <1>1. /\ ~At(s, "idle") /\ UNCHANGED <<slot, nextToken, stirred>>
        /\ fp' = run[s].listing /\ torn' = stirred /\ Leave(s, "enrich")
    BY DEF Finalize, At
  <1>2. run'[s].pc = "enrich" /\ \A t \in Scanners : t # s => run'[t] = run[t]
    BY <1>0, <1>1, LeaveRun
  <1>3. CompleteIsListing'
    <2>1. fp' # None
      BY <1>0, <1>1, RunFields, RecordIsThere
    <2>2. ASSUME ~torn', NEW f \in Files
          PROVE  IF fp'[f] = Absent THEN rows'[f] = None
                                    ELSE rows'[f] # None /\ rows'[f].ver = fp'[f]
      BY <1>1, <2>2, FinalizedRows
    <2>3. ~torn' => RowsMatch(fp)'
      BY <2>2 DEF RowsMatch
    <2> QED
      BY <2>1, <2>3 DEF CompleteIsListing
  <1>4. TokensAreOld'
    <2>1. \A t \in Scanners : At(t, "chunk")' => At(t, "chunk") /\ run'[t] = run[t]
      BY <1>2 DEF At
    <2>2. \A f \in Files : rows'[f] # None => rows'[f] = rows[f]
      BY DEF Finalize
    <2> QED
      BY <1>1, <2>1, <2>2 DEF ScanInv, TokensAreOld
  <1>5. SaveInProgress(s)' /\ CleanIsTrusted(s)'
    BY <1>2 DEF SaveInProgress, CleanIsTrusted, At
  <1> QED
    BY <1>1, <1>2, <1>3, <1>4, <1>5, StepOfOne

\* Enrichment changes its own state only.
LEMMA ScanEnrich ==
    ASSUME OneScan, ScanInv, TypeInv', NEW s \in Scanners,
           \/ EnrichStart(s)
           \/ \E e \in {"complete", "failed", "running"} : EnrichEnd(s, e)
    PROVE  ScanInv'
  <1> USE DEF history
  <1>0. TypeOK
    BY DEF ScanInv, TypeInv
  <1>1. PICK e \in {"complete", "failed", "running"}, pc \in {"enriching", "done"} :
           /\ ~At(s, "idle") /\ UNCHANGED <<rows, fp, slot, nextToken, torn, stirred>>
           /\ SetEnrichment(e) /\ Goto(s, pc)
    BY DEF EnrichStart, EnrichEnd, At
  <1>2. run'[s].pc = pc /\ \A t \in Scanners : t # s => run'[t] = run[t]
    BY <1>0, <1>1, GotoRun
  <1>3. DiscoveryComplete' => DiscoveryComplete
    BY <1>0, <1>1 DEF SetEnrichment, DiscoveryComplete, TypeOK, Metas
  <1>4. CompleteIsListing'
    BY <1>1, <1>3 DEF ScanInv, CompleteIsListing, DiscoveryComplete, RowsMatch
  <1>5. TokensAreOld'
    <2>1. \A t \in Scanners : At(t, "chunk")' => At(t, "chunk") /\ run'[t] = run[t]
      BY <1>2 DEF At
    <2> QED
      BY <1>1, <2>1 DEF ScanInv, TokensAreOld
  <1>6. SaveInProgress(s)' /\ CleanIsTrusted(s)'
    BY <1>2 DEF SaveInProgress, CleanIsTrusted, At
  <1> QED
    BY <1>1, <1>2, <1>4, <1>5, <1>6, StepOfOne

\* Scans start and end: nothing is being saved or skipped by who starts.
LEMMA ScanComesAndGoes ==
    ASSUME OneScan, ScanInv, TypeInv',
           \/ \E p \in Populators, sk \in BOOLEAN : Claim(p, sk)
           \/ \E w \in Watchers : Watch(w)
           \/ \E s \in Scanners : Finish(s)
    PROVE  ScanInv'
  <1> USE DEF history
  <1>0. TypeOK
    BY DEF ScanInv, TypeInv
  <1>1. ASSUME NEW s \in Scanners, run'[s].pc \in {"idle", "stored"},
               \A t \in Scanners : t # s => run'[t] = run[t],
               UNCHANGED <<rows, meta, fp, nextToken, torn, stirred>>
        PROVE  /\ CompleteIsListing' /\ TokensAreOld'
               /\ \A t \in Scanners : SaveInProgress(t)' /\ CleanIsTrusted(t)'
    <2>1. CompleteIsListing'
      BY <1>1 DEF ScanInv, CompleteIsListing, RowsMatch
    <2>2. \A t \in Scanners : At(t, "chunk")' \/ At(t, "walk")' => run'[t] = run[t]
      BY <1>1 DEF At
    <2>3. TokensAreOld'
      BY <1>1, <2>2 DEF ScanInv, TokensAreOld, At
    <2>4. Settled => Settled'
      BY <1>1 DEF Settled, RowsMatch, AllIdentified
    <2>5. DiscoveryComplete' <=> DiscoveryComplete
      BY <1>1 DEF DiscoveryComplete
    <2>6. ASSUME NEW t \in Scanners PROVE SaveInProgress(t)'
      BY <1>1, <2>2, <2>5 DEF ScanInv, SaveInProgress, At
    <2>7. ASSUME NEW t \in Scanners PROVE CleanIsTrusted(t)'
      BY <1>1, <2>2, <2>4 DEF ScanInv, CleanIsTrusted, At
    <2> QED
      BY <2>1, <2>3, <2>6, <2>7
  <1>2. ASSUME NEW p \in Populators, NEW sk \in BOOLEAN, Claim(p, sk) PROVE ScanInv'
    <2>1. p \in Scanners /\ slot = None /\ slot' = p
      BY <1>2 DEF Claim, Scanners
    <2>2. run'[p].pc = "stored" /\ \A t \in Scanners : t # p => run'[t] = run[t]
      BY <1>0, <1>2, ClaimRun
    <2>3. HoldersHold'
      BY <2>1, <2>2, RecordIsThere DEF ScanInv, HoldersHold, Scanners, At
    <2> QED
      BY <1>1, <1>2, <2>1, <2>2, <2>3 DEF Claim, ScanInv
  <1>3. ASSUME NEW w \in Watchers, Watch(w) PROVE ScanInv'
    <2>1. w \in Scanners /\ w \notin Populators /\ slot' = slot /\ Goto(w, "stored")
      BY <1>3, ScanAssumption DEF Watch, Scanners, ScanAssumption
    <2>2. run'[w].pc = "stored" /\ \A t \in Scanners : t # w => run'[t] = run[t]
      BY <1>0, <2>1, GotoRun
    <2>3. HoldersHold'
      BY <2>1, <2>2 DEF ScanInv, HoldersHold, Scanners, At
    <2> QED
      BY <1>1, <1>3, <2>1, <2>2, <2>3 DEF Watch, ScanInv
  <1>4. ASSUME NEW s \in Scanners, Finish(s) PROVE ScanInv'
    <2>1. run'[s].pc = "idle" /\ \A t \in Scanners : t # s => run'[t] = run[t]
      BY <1>0, <1>4, ParkedRun DEF Finish, TypeOK, Parked
    <2>2. HoldersHold'
      BY <1>4, <2>1 DEF Finish, ScanInv, HoldersHold, Scanners, At
    <2> QED
      BY <1>1, <1>4, <2>1, <2>2 DEF Finish, ScanInv
  <1> QED
    BY <1>2, <1>3, <1>4

\* What may change rows, and says so, disturbs no scan.
LEMMA EditKeeps ==
    ASSUME ScanInv, TypeInv', Stir,
           \A f \in Files : rows'[f] # None => rows'[f].tok < nextToken,
           meta' = meta \/ meta' = None,
           UNCHANGED <<fp, nextToken, slot, run>>
    PROVE  ScanInv'
  <1>1. DiscoveryComplete' => DiscoveryComplete
    BY DEF DiscoveryComplete
  <1>2. /\ ~torn' => ~torn /\ rows' = rows
        /\ ~stirred' => ~stirred /\ rows' = rows
    BY DEF Stir
  <1>3. CompleteIsListing'
    BY <1>1, <1>2 DEF ScanInv, CompleteIsListing, DiscoveryComplete, RowsMatch
  <1>4. torn \/ Settled => torn' \/ Settled'
    BY <1>2 DEF Settled, RowsMatch, AllIdentified
  <1>5. HoldersHold' /\ TokensAreOld'
    BY DEF ScanInv, HoldersHold, TokensAreOld, At
  <1>6. ASSUME NEW s \in Scanners PROVE SaveInProgress(s)'
    BY <1>1, <1>2 DEF ScanInv, SaveInProgress, At
  <1>7. ASSUME NEW s \in Scanners PROVE CleanIsTrusted(s)'
    BY <1>4 DEF ScanInv, CleanIsTrusted, At
  <1> QED
    BY <1>3, <1>5, <1>6, <1>7 DEF ScanInv

\* Neither does what leaves the rows alone.
LEMMA RowsAlone ==
    ASSUME ScanInv, TypeInv', meta' = meta \/ meta' = None,
           UNCHANGED <<rows, fp, nextToken, slot, run, torn, stirred>>
    PROVE  ScanInv'
  <1>1. Stir
    BY DEF Stir, ScanInv, TypeInv, TypeOK
  <1>2. \A f \in Files : rows'[f] # None => rows'[f].tok < nextToken
    BY DEF ScanInv, TokensAreOld
  <1> QED
    BY <1>1, <1>2, EditKeeps

\* The edits: their file half, their cascade, their clear, and their early end.
LEMMA ScanEdits ==
    ASSUME ScanInv, TypeInv', EditStep
    PROVE  ScanInv'
  <1> USE DEF history
  <1>0. TypeOK /\ \A f \in Files : rows[f] # None => rows[f].tok < nextToken
    BY DEF ScanInv, TypeInv, TokensAreOld
  <1>1. ASSUME NEW f \in Files, DeleteFile(f) PROVE ScanInv'
    BY <1>1, RowsAlone DEF DeleteFile
  <1>2. ASSUME NEW f \in Files, NEW g \in Files, RenameFile(f, g) PROVE ScanInv'
    BY <1>2, RowsAlone DEF RenameFile
  <1>3. ASSUME NEW f \in Files, NEW v \in Versions, UploadFile(f, v) PROVE ScanInv'
    BY <1>3, RowsAlone DEF UploadFile
  <1>4. CASE CascadeDelete
    <2>1. request.file \in Files
      BY <1>0, <1>4, RecordIsThere DEF CascadeDelete, TypeOK
    <2>2. \A f \in Files : rows'[f] # None => rows'[f].tok < nextToken
      BY <1>0, <1>4, <2>1 DEF CascadeDelete, TypeOK
    <2> QED
      BY <1>4, <2>2, EditKeeps DEF CascadeDelete
  <1>5. CASE CascadeRename
    <2>1. request.file \in Files /\ request.to \in Files
      BY <1>0, <1>5, RecordIsThere DEF CascadeRename, TypeOK
    <2>2. \A f \in Files : rows'[f] # None => rows'[f].tok < nextToken
      BY <1>0, <1>5, <2>1 DEF CascadeRename, TypeOK
    <2> QED
      BY <1>5, <2>2, EditKeeps DEF CascadeRename
  <1>6. CASE ClearRows
    <2>1. \A f \in Files : rows'[f] # None => rows'[f].tok < nextToken
      BY <1>6 DEF ClearRows
    <2> QED
      BY <1>6, <2>1, EditKeeps DEF ClearRows
  <1>7. CASE ClearMeta \/ Abandon
    BY <1>7, RowsAlone DEF ClearMeta, Abandon
  <1> QED
    BY <1>1, <1>2, <1>3, <1>4, <1>5, <1>6, <1>7 DEF EditStep

\* Identity, the storage's files and crashes.
LEMMA ScanEnvironment ==
    ASSUME ScanInv, TypeInv',
           \/ \E f \in Files : ResolveIdentity(f)
           \/ \E f \in Files, v \in Versions \cup {Absent} : ChangeDisk(f, v)
           \/ Crash
           \/ UNCHANGED vars
    PROVE  ScanInv'
  <1> USE DEF history
  <1>0. TypeOK /\ \A f \in Files : rows[f] # None => rows[f].tok < nextToken
    BY DEF ScanInv, TypeInv, TokensAreOld
  <1>1. ASSUME NEW f \in Files, ResolveIdentity(f) PROVE ScanInv'
    <2>1. /\ rows'[f] # None /\ rows'[f].tok = rows[f].tok /\ rows'[f].ver = rows[f].ver
          /\ rows'[f].ident = "complete" /\ rows[f] # None
          /\ \A g \in Files : g # f => rows'[g] = rows[g]
      <3>1. rows[f] \in Rows /\ rows'[f] = [rows[f] EXCEPT !.ident = "complete"]
              /\ rows[f] # None /\ \A g \in Files : g # f => rows'[g] = rows[g]
        BY <1>0, <1>1 DEF ResolveIdentity, TypeOK
      <3>2. [rows[f] EXCEPT !.ident = "complete"] \in Rows
        BY <3>1 DEF Rows
      <3> QED
        BY <3>1, <3>2, RecordIsThere DEF Rows
    <2>2. UNCHANGED <<meta, fp, nextToken, slot, run, torn, stirred>>
      BY <1>1 DEF ResolveIdentity
    <2>3. RowsMatch(fp) => RowsMatch(fp)'
      BY <2>1, <2>2 DEF RowsMatch
    <2>4. Settled => Settled'
      BY <2>1, <2>2, <2>3 DEF Settled, AllIdentified
    <2>5. CompleteIsListing'
      BY <2>2, <2>3 DEF ScanInv, CompleteIsListing
    <2>6. HoldersHold' /\ TokensAreOld'
      BY <2>1, <2>2 DEF ScanInv, HoldersHold, TokensAreOld, At
    <2>7. ASSUME NEW s \in Scanners PROVE SaveInProgress(s)'
      BY <2>1, <2>2 DEF ScanInv, SaveInProgress, At, DiscoveryComplete
    <2>8. ASSUME NEW s \in Scanners PROVE CleanIsTrusted(s)'
      BY <2>2, <2>4 DEF ScanInv, CleanIsTrusted, At
    <2> QED
      BY <2>5, <2>6, <2>7, <2>8 DEF ScanInv
  <1>2. CASE UNCHANGED <<rows, meta, fp, nextToken, slot, run, torn, stirred>>
    BY <1>2, RowsAlone
  <1>3. CASE Crash
    <2>1. \A s \in Scanners : run'[s].pc = "idle"
      BY <1>3 DEF Crash, Parked
    <2>2. UNCHANGED <<rows, fp, nextToken, torn>>
      BY <1>3 DEF Crash
    <2>3. DiscoveryComplete' => DiscoveryComplete
      BY <1>0, <1>3 DEF Crash, Recovered, DiscoveryComplete, TypeOK, Metas
    <2>4. CompleteIsListing'
      BY <2>2, <2>3 DEF ScanInv, CompleteIsListing, DiscoveryComplete, RowsMatch
    <2>5. HoldersHold' /\ TokensAreOld'
      BY <1>0, <2>1, <2>2 DEF HoldersHold, TokensAreOld, Scanners, At
    <2>6. \A s \in Scanners : SaveInProgress(s)' /\ CleanIsTrusted(s)'
      BY <2>1 DEF SaveInProgress, CleanIsTrusted, At
    <2> QED
      BY <2>4, <2>5, <2>6 DEF ScanInv
  <1>4. CASE \E f \in Files, v \in Versions \cup {Absent} : ChangeDisk(f, v)
    BY <1>2, <1>4 DEF ChangeDisk
  <1>5. CASE UNCHANGED vars
    BY <1>2, <1>5 DEF vars
  <1> QED
    BY <1>1, <1>3, <1>4, <1>5

\* A step keeps the invariant.
LEMMA ScanNext == OneScan /\ ScanInv /\ [Next]_vars => ScanInv'
  <1> SUFFICES ASSUME OneScan, ScanInv, [Next]_vars PROVE ScanInv'
    OBVIOUS
  <1>0. TypeInv'
    BY TypeNext DEF ScanInv
  <1>1. ASSUME NEW s \in Scanners, ScanStep(s) PROVE ScanInv'
    <2>1. CASE Finish(s)
      BY <1>0, <2>1, ScanComesAndGoes
    <2>2. CASE \E f \in Files : Chunk(s, f)
      BY <1>0, <2>2, ScanChunk
    <2>3. CASE Begin(s) \/ Finalize(s)
      BY <1>0, <2>3, ScanBegin, ScanFinalize
    <2>4. CASE EnrichStart(s) \/ \E e \in {"complete", "failed", "running"} : EnrichEnd(s, e)
      BY <1>0, <2>4, ScanEnrich
    <2>5. CASE \/ ReadStored(s) \/ ReadClean(s)
               \/ \E f \in Files : Walk(s, f)
               \/ Skip(s) \/ Fail(s)
      BY <1>0, <2>5, ScanReads
    <2> QED
      BY <1>1, <2>1, <2>2, <2>3, <2>4, <2>5 DEF ScanStep
  <1>2. CASE EditStep
    BY <1>0, <1>2, ScanEdits
  <1>3. CASE (\E p \in Populators, sk \in BOOLEAN : Claim(p, sk)) \/ \E w \in Watchers : Watch(w)
    BY <1>0, <1>3, ScanComesAndGoes
  <1>4. CASE \/ \E f \in Files : ResolveIdentity(f)
             \/ \E f \in Files, v \in Versions \cup {Absent} : ChangeDisk(f, v)
             \/ Crash
             \/ UNCHANGED vars
    BY <1>0, <1>4, ScanEnvironment
  <1> QED
    BY <1>1, <1>2, <1>3, <1>4 DEF Next

\* The invariant holds in every state that is reached without an overlap.
LEMMA ScanInvariant == Spec /\ []OneScan => []ScanInv
  BY ScanInit, ScanNext, PTL DEF Spec

\* Populators alone never overlap, since each holds the slot; nor does the
\* watcher, which is one loop, alone.
THEOREM SlotKeepsScansApart ==
    Watchers = {} \/ (Populators = {} /\ \A v, w \in Watchers : v = w) => (Spec => []OneScan)
  <1> SUFFICES ASSUME Watchers = {} \/ (Populators = {} /\ \A v, w \in Watchers : v = w)
               PROVE  Spec => []OneScan
    OBVIOUS
  <1>1. ScanInv => OneScan
    BY DEF ScanInv, HoldersHold, OneScan, Scanners
  <1>2. ScanInv /\ [Next]_vars => ScanInv'
    BY <1>1, ScanNext
  <1> QED
    BY <1>1, <1>2, ScanInit, PTL DEF Spec

\* Whatever failed or crashed before, a Complete discovery lists exactly the
\* files of the listing whose fingerprint is stored, unless the writes of an
\* edit were cut short or fell under that save: for any populators, watchers,
\* files and edits, as long as no two scans overlap.
THEOREM CompleteDiscovery == Spec /\ []OneScan => []CompleteIsListing
  <1>1. ScanInv => CompleteIsListing
    BY DEF ScanInv
  <1> QED
    BY <1>1, ScanInvariant, PTL

\* A startup pass that may skip finds what it walked in the library, all of
\* it identified and enriched, unless an edit has torn the rows.
THEOREM SkipLeavesNothing == Spec /\ []OneScan => []SkipIsSound
  <1>1. ScanInv => SkipIsSound
    <2> SUFFICES ASSUME ScanInv, NEW s \in Scanners, Walked(s), CanSkip(s), ~torn
                 PROVE  /\ RowsMatch(run[s].listing)
                        /\ AllIdentified
                        /\ meta # None => meta.disc = "complete" /\ meta.enr = "complete"
      BY DEF SkipIsSound
    <2>1. TypeOK
      BY DEF ScanInv, TypeInv
    <2>2. run[s].clean = run[s].listing /\ run[s].clean # None
      BY <2>1, RunFields, RecordIsThere DEF CanSkip
    <2>3. fp = run[s].clean /\ Settled
      BY <2>2 DEF ScanInv, CleanIsTrusted, Walked
    <2> QED
      BY <2>2, <2>3 DEF Settled
  <1> QED
    BY <1>1, ScanInvariant, PTL

\* A row that a step takes away was not seen by the scan that is finalized, or
\* was edited, or was cleared.
LEMMA LostByReconcile ==
    ASSUME ScanInv, [Next]_vars, NEW f \in Files, rows[f] # None, rows'[f] = None
    PROVE  \/ \E s \in Scanners : Finalize(s) /\ (run[s].listing[f] = Absent \/ stirred)
           \/ (CascadeDelete \/ CascadeRename) /\ request.file = f
           \/ ClearRows
  <1> USE DEF history
  <1>0. TypeOK /\ TypeInv
    BY DEF ScanInv, TypeInv
  <1>1. ASSUME NEW s \in Scanners, ScanStep(s)
        PROVE  Finalize(s) /\ (run[s].listing[f] = Absent \/ stirred)
    <2>1. CASE Finalize(s)
      BY <2>1, FinalizedRows
    <2>2. ASSUME NEW g \in Files, Chunk(s, g) PROVE FALSE
      <3>1. rows' = [rows EXCEPT ![g] = Upsert(s, g)] /\ Upsert(s, g) # None
        BY <1>0, <2>2, UpsertRow, RecordIsThere DEF Chunk
      <3> QED
        BY <1>0, <3>1 DEF TypeOK
    <2>3. CASE UNCHANGED rows
      BY <2>3
    <2> QED
      BY <1>1, <2>1, <2>2, <2>3 DEF ScanStep, ReadStored, ReadClean, Walk, Skip, Begin,
                                    EnrichStart, EnrichEnd, Fail, Finish
  <1>2. ASSUME NEW g \in Files, ResolveIdentity(g) PROVE FALSE
    <2>1. [rows[g] EXCEPT !.ident = "complete"] \in Rows
      BY <1>0, <1>2 DEF ResolveIdentity, TypeOK, Rows
    <2>2. rows' = [rows EXCEPT ![g] = [rows[g] EXCEPT !.ident = "complete"]]
      BY <1>0, <1>2 DEF ResolveIdentity, TypeOK
    <2> QED
      BY <1>0, <2>1, <2>2, RecordIsThere DEF TypeOK
  <1>3. CASE CascadeDelete
    <2>1. request.file = f
      BY <1>0, <1>3 DEF CascadeDelete, TypeOK
    <2> QED
      BY <1>3, <2>1
  <1>4. CASE CascadeRename
    <2>1. request.file = f
      BY <1>0, <1>4 DEF CascadeRename, TypeOK
    <2> QED
      BY <1>4, <2>1
  <1>5. CASE ClearRows
    BY <1>5
  <1>6. CASE UNCHANGED rows
    BY <1>6
  <1> QED
    BY <1>1, <1>2, <1>3, <1>4, <1>5, <1>6 DEF Next, EditStep, Claim, Watch, ChangeDisk, DeleteFile,
                                             RenameFile, UploadFile, ClearMeta, Abandon, Crash, vars

\* Rows survive failures, crashes and interrupted saves: a row is lost only
\* when a scan that did not see its file, or that an edit disturbed, is
\* finalized, by the cascade of an edit of its name, or in the clear that ends
\* every edit.
THEOREM RowsAreKept == Spec /\ []OneScan => RowsLostOnlyByReconcile
  <1>1. ScanInv /\ [Next]_vars =>
           [\A f \in Files :
              rows[f] # None /\ rows'[f] = None =>
                  \/ \E s \in Scanners : Finalize(s) /\ (run[s].listing[f] = Absent \/ stirred)
                  \/ (CascadeDelete \/ CascadeRename) /\ request.file = f
                  \/ ClearRows]_vars
    BY LostByReconcile
  <1> QED
    BY <1>1, ScanInvariant, PTL DEF Spec, RowsLostOnlyByReconcile
=============================================================================
