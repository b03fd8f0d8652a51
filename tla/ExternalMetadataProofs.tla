----------------------- MODULE ExternalMetadataProofs -----------------------
(***************************************************************************)
(* Proofs about ExternalMetadata: types, the single flight of the slot's   *)
(* holder, what the CRC stamp stands for, and why the library shows the    *)
(* metadata of the file on disk.                                           *)
(***************************************************************************)
EXTENDS ExternalMetadata, TLAPS

\* The stage of a task says which of its inputs are there.
InputsAreThere ==
    \A t \in Tasks :
        /\ pc[t] \in {"etag", "compare", "parse"} => xml # None
        /\ pc[t] = "apply" => job[t] # None

TypeInv == TypeOK /\ InputsAreThere

-----------------------------------------------------------------------------
(* Facts about the operators.                                              *)

\* A refresh that is prepared is a file and a build.
LEMMA FilledPair ==
    ASSUME NEW p \in Filled
    PROVE  /\ p[1] \in Versions /\ p[2] \in Builds
           /\ p = <<p[1], p[2]>>
           /\ p # None
  BY MetadataAssumption DEF MetadataAssumption, Filled, Versions, Builds

\* The statement after the last one is none.
LEMMA NextStatement ==
    ASSUME NEW n \in 0 .. 6
    PROVE  (n + 1) % 7 \in 0 .. 6
  BY SMT

\* A fault is counted.
LEMMA FaultType ==
    ASSUME TypeOK, Fault
    PROVE  faults' \in 0 .. MaxFaults /\ ops' \in 0 .. MaxOps
  BY MetadataAssumption DEF MetadataAssumption, Fault, TypeOK

\* A web call is counted, and was not under way.
LEMMA CallType ==
    ASSUME TypeOK, NEW t \in Tasks, Call(t)
    PROVE  faults' \in 0 .. MaxFaults /\ ops' \in 0 .. MaxOps
  BY MetadataAssumption DEF MetadataAssumption, Call, TypeOK

\* A commit leaves well-typed tables and stamps.
LEMMA CommitType ==
    ASSUME TypeOK, NEW p \in Filled, Commit(p)
    PROVE  /\ rows' \in [Tables -> Filled \cup {None}]
           /\ crc' \in Versions \cup {None}
           /\ norm' \in Builds \cup {None}
           /\ plat' \in Builds \cup {None}
           /\ etag' \in Versions \cup {None}
           /\ cut' \in BOOLEAN
  BY FilledPair DEF Commit, TypeOK

\* An enrichment reads well-typed tables, a failing one fewer of them.
LEMMA ReadType ==
    ASSUME TypeOK, ReadRows
    PROVE  /\ seen' \in [Tables -> Filled \cup {None}] \cup {None}
           /\ lost' \in BOOLEAN
           /\ faults' \in 0 .. MaxFaults /\ ops' \in 0 .. MaxOps
  <1>1. CASE Fault
    <2>1. seen' \in [Tables -> Filled \cup {None}] \cup {None}
      BY DEF ReadRows, TypeOK
    <2> QED
      BY <1>1, <2>1, FaultType DEF ReadRows
  <1>2. CASE ~Fault
    BY <1>2 DEF ReadRows, TypeOK, bounds
  <1> QED
    BY <1>1, <1>2

\* And it writes what it has read, a failing one a part.
LEMMA ShowType ==
    ASSUME TypeOK, ShowRows
    PROVE  /\ lib' \in [Tables -> Filled \cup {None}]
           /\ seen' = None
           /\ lost' \in BOOLEAN
           /\ faults' \in 0 .. MaxFaults /\ ops' \in 0 .. MaxOps
  <1>0. seen \in [Tables -> Filled \cup {None}] /\ seen' = None
    BY DEF ShowRows, TypeOK
  <1>1. CASE lib' = seen /\ UNCHANGED <<lost, bounds>>
    BY <1>0, <1>1 DEF TypeOK, bounds
  <1>2. CASE Fault /\ lost' = TRUE
             /\ \E written \in SUBSET Tables :
                   lib' = [T \in Tables |-> IF T \in written THEN seen[T] ELSE lib[T]]
    <2>1. lib' \in [Tables -> Filled \cup {None}]
      BY <1>0, <1>2 DEF TypeOK
    <2> QED
      BY <1>0, <1>2, <2>1, FaultType
  <1> QED
    BY <1>1, <1>2 DEF ShowRows

-----------------------------------------------------------------------------
(* Type correctness, one lemma for each group of actions.                  *)

\* The first boot of a device is well typed.
LEMMA TypeInit == Init => TypeInv
  <1> SUFFICES ASSUME Init PROVE TypeInv
    OBVIOUS
  <1>1. upstream \in Versions /\ build \in Builds /\ ops \in 0 .. MaxOps /\ faults \in 0 .. MaxFaults
    BY MetadataAssumption DEF MetadataAssumption, Init, Versions, Builds
  <1>2. /\ pc \in [Tasks -> {"idle", "pipeline"}]
        /\ clearAt \in [Tasks -> 0 .. 6]
    BY DEF Init
  <1> QED
    BY <1>1, <1>2 DEF Init, TypeInv, TypeOK, InputsAreThere, Empty

\* The import.
LEMMA TypeImport == ASSUME TypeInv, NEW t \in Tasks, Import(t) PROVE TypeInv'
  <1> USE DEF env, dbVars, stamps, locals, bounds, history, At, Go, TypeInv, InputsAreThere
  <1>1. CASE ImportClaim(t)
    BY <1>1 DEF ImportClaim, TypeOK
  <1>2. CASE ImportSkip(t)
    BY <1>2 DEF ImportSkip, AfterImport, TypeOK
  <1>3. CASE ImportCompare(t)
    BY <1>3 DEF ImportCompare, TypeOK
  <1>4. CASE ImportCompareFails(t)
    BY <1>4, FaultType DEF ImportCompareFails, TypeOK
  <1>5. CASE Parse(t)
    <2>1. <<xml, build>> \in Filled
      BY <1>5 DEF Parse, TypeOK, Filled
    <2> QED
      BY <1>5, <2>1, FilledPair DEF Parse, TypeOK
  <1>6. CASE ParseFails(t)
    BY <1>6, FaultType DEF ParseFails, TypeOK
  <1>7. CASE Apply(t)
    <2>1. job[t] \in Filled
      BY <1>7 DEF Apply, TypeOK
    <2> QED
      BY <1>7, <2>1, CommitType DEF Apply, Commit, TypeOK
  <1>8. CASE ApplyFails(t)
    BY <1>8, FaultType DEF ApplyFails, TypeOK
  <1>9. CASE LateApply(t)
    <2>1. late[t] \in Filled
      BY <1>9 DEF LateApply, TypeOK
    <2> QED
      BY <1>9, <2>1, CommitType DEF LateApply, Commit, TypeOK
  <1>10. CASE LateApplyFails(t)
    BY <1>10 DEF LateApplyFails, TypeOK
  <1>11. CASE ReenrichRead(t)
    BY <1>11, ReadType DEF ReenrichRead, TypeOK
  <1>13. CASE ReenrichShow(t)
    BY <1>13, ShowType DEF ReenrichShow, TypeOK
  <1>12. CASE Leave(t)
    BY <1>12 DEF Leave, AfterImport, TypeOK
  <1> QED
    BY <1>1, <1>2, <1>3, <1>4, <1>5, <1>6, <1>7, <1>8, <1>9, <1>10, <1>11, <1>12, <1>13 DEF Import

\* Download and refresh.
LEMMA TypeRefresh == ASSUME TypeInv, NEW t \in Tasks, Refresh(t) PROVE TypeInv'
  <1> USE DEF env, dbVars, stamps, locals, bounds, history, At, Go, TypeInv, InputsAreThere
  <1>1. CASE RefreshStart(t)
    BY <1>1, CallType DEF RefreshStart, TypeOK
  <1>2. CASE RefreshHead(t)
    BY <1>2, FaultType DEF RefreshHead, TypeOK
  <1>3. CASE RefreshDownload(t)
    <2>1. xml' \in Versions /\ xml' # None
      BY <1>3, MetadataAssumption DEF MetadataAssumption, RefreshDownload, TypeOK, Versions
    <2> QED
      BY <1>3, <2>1 DEF RefreshDownload, TypeOK
  <1>4. CASE RefreshDownloadFails(t)
    BY <1>4, FaultType DEF RefreshDownloadFails, TypeOK
  <1>5. CASE RefreshEtag(t)
    BY <1>5, FaultType DEF RefreshEtag, TypeOK
  <1> QED
    BY <1>1, <1>2, <1>3, <1>4, <1>5 DEF Refresh

\* The web calls that clear.
LEMMA TypeClear == ASSUME TypeInv, NEW t \in Tasks, Clear(t) PROVE TypeInv'
  <1> USE DEF env, dbVars, stamps, locals, bounds, history, At, Go, TypeInv, InputsAreThere
  <1>1. CASE ClearStart(t)
    BY <1>1, CallType DEF ClearStart, TypeOK
  <1>2. CASE RegenerateStart(t)
    BY <1>2, CallType DEF RegenerateStart, TypeOK
  <1>3. CASE ClearStep(t)
    <2>1. clearAt[t] \in 1 .. 6 /\ clearAt' \in [Tasks -> 0 .. 6]
      BY <1>3, NextStatement DEF ClearStep, TypeOK
    <2>2. /\ rows' \in [Tables -> Filled \cup {None}]
          /\ crc' \in Versions \cup {None}
          /\ norm' \in Builds \cup {None}
          /\ plat' \in Builds \cup {None}
          /\ etag' \in Versions \cup {None}
          /\ cut' \in BOOLEAN
      BY <1>3, <2>1 DEF ClearStep, ClearStatement, Delete, ClearOrder, Tables, TypeOK
    <2> QED
      BY <1>3, <2>1, <2>2 DEF ClearStep, AfterClear, TypeOK
  <1>4. CASE ClearFails(t)
    BY <1>4, FaultType DEF ClearFails, StopClear, HalfCleared, TypeOK
  <1>5. CASE ClearTimesOut(t)
    BY <1>5, FaultType DEF ClearTimesOut, StopClear, TypeOK
  <1> QED
    BY <1>1, <1>2, <1>3, <1>4, <1>5 DEF Clear

\* The startup pipeline.
LEMMA TypePipeline == ASSUME TypeInv, Pipeline PROVE TypeInv'
  <1> USE DEF env, dbVars, stamps, locals, bounds, history, At, Go, TypeInv, InputsAreThere
  <1>0. Boot \in Tasks
    BY DEF Tasks
  <1>1. CASE SeedClaim
    BY <1>0, <1>1 DEF SeedClaim, TypeOK
  <1>2. CASE Seed
    <2>1. /\ xml' \in Versions \cup {None}
          /\ xml # None => xml' # None
          /\ faults' \in 0 .. MaxFaults /\ ops' \in 0 .. MaxOps
      BY <1>2, FaultType DEF Seed, TypeOK
    <2> QED
      BY <1>0, <1>2, <2>1 DEF Seed, TypeOK
  <1>3. CASE VerifyStart
    BY <1>0, <1>3 DEF VerifyStart, TypeOK
  <1>4. CASE VerifyEnd
    BY <1>0, <1>4 DEF VerifyEnd, TypeOK
  <1> QED
    BY <1>1, <1>2, <1>3, <1>4 DEF Pipeline

\* What a start makes of the tasks.
LEMMA StartedType ==
    ASSUME TypeOK, Started
    PROVE  /\ upstream' \in Versions /\ xml' \in Versions \cup {None}
           /\ lib' \in [Tables -> Filled \cup {None}]
           /\ slot' = None
           /\ pc' \in [Tasks -> {"idle", "pipeline"}]
           /\ head' \in [Tasks -> Versions \cup {None}]
           /\ job' \in [Tasks -> Filled \cup {None}]
           /\ clearAt' \in [Tasks -> 0 .. 6]
           /\ late' \in [Tasks -> Filled \cup {None}]
           /\ seen' = None
           /\ lost' \in BOOLEAN
  BY DEF Started, TypeOK

\* Other activities, releases of the file and of the app, crashes.
LEMMA TypeEnvironment ==
    ASSUME TypeInv,
           OtherStart \/ OtherRead \/ OtherShow \/ OtherEnd \/ Publish \/ Restart \/ RestartRecreated
    PROVE  TypeInv'
  <1> USE DEF env, dbVars, stamps, locals, bounds, history, taskVars, TypeInv, InputsAreThere
  <1>1. CASE OtherStart
    BY <1>1, MetadataAssumption DEF MetadataAssumption, OtherStart, TypeOK
  <1>2. CASE OtherEnd
    BY <1>2 DEF OtherEnd, TypeOK
  <1>6. CASE OtherRead
    BY <1>6, ReadType DEF OtherRead, TypeOK
  <1>7. CASE OtherShow
    BY <1>7, ShowType DEF OtherShow, TypeOK
  <1>3. CASE Publish
    BY <1>3, MetadataAssumption DEF MetadataAssumption, Publish, TypeOK, Versions
  <1>4. CASE Restart
    <2>1. build' \in Builds
      BY <1>4, MetadataAssumption DEF MetadataAssumption, Restart, TypeOK, Builds
    <2>2. /\ rows' \in [Tables -> Filled \cup {None}]
          /\ crc' \in Versions \cup {None}
          /\ norm' \in Builds \cup {None}
          /\ plat' \in Builds \cup {None}
          /\ etag' \in Versions \cup {None}
          /\ cut' \in BOOLEAN
      BY <1>4 DEF Restart, Opened, TypeOK
    <2>3. ops' \in 0 .. MaxOps /\ faults' \in 0 .. MaxFaults /\ Started
      BY <1>4 DEF Restart, TypeOK
    <2> QED
      BY <2>1, <2>2, <2>3, StartedType DEF TypeOK
  <1>5. CASE RestartRecreated
    <2>1. build' \in Builds /\ ops' \in 0 .. MaxOps /\ faults' \in 0 .. MaxFaults /\ Started
      BY <1>5, FaultType DEF RestartRecreated, TypeOK
    <2> QED
      BY <1>5, <2>1, StartedType DEF RestartRecreated, Empty, TypeOK
  <1> QED
    BY <1>1, <1>2, <1>3, <1>4, <1>5, <1>6, <1>7

\* Every step keeps the types.
LEMMA TypeStep == TypeInv /\ [Next]_vars => TypeInv'
  <1> SUFFICES ASSUME TypeInv, [Next]_vars PROVE TypeInv'
    OBVIOUS
  <1>1. CASE UNCHANGED vars
    BY <1>1 DEF vars, env, dbVars, stamps, taskVars, locals, bounds, history,
                TypeInv, TypeOK, InputsAreThere
  <1>2. CASE Next
    BY <1>2, TypeImport, TypeRefresh, TypeClear, TypePipeline, TypeEnvironment DEF Next
  <1> QED
    BY <1>1, <1>2

\* Variables keep their types; a task that parses has a file, and one that
\* applies has something to apply.
THEOREM TypeCorrect == Spec => []TypeOK
  <1>1. Spec => []TypeInv
    BY TypeInit, TypeStep, PTL DEF Spec
  <1>2. TypeInv => TypeOK
    BY DEF TypeInv
  <1> QED
    BY <1>1, <1>2, PTL

-----------------------------------------------------------------------------
(* Single flight.                                                          *)

Working == {"seed", "head", "download", "etag", "compare", "parse", "apply", "enrich", "leave",
            "verify"}

\* A task keeps its stage and the slot, or moves with the slot in hand, or stops
\* working: then the claim still holds.
LEMMA FlightKept ==
    ASSUME TypeOK, SingleFlight, NEW t \in Tasks, NEW stage,
           pc' = [pc EXCEPT ![t] = stage],
           \/ slot' = slot /\ (stage \in Working => slot = t)
           \/ slot = None /\ slot' = t
           \/ slot = t /\ slot' = None /\ stage \notin Working
    PROVE  SingleFlight'
  <1>1. t # None
    BY MetadataAssumption DEF MetadataAssumption, Tasks
  <1>2. ASSUME NEW u \in Tasks, pc'[u] \in Working PROVE slot' = u
    <2>1. CASE u = t
      BY <1>2, <2>1 DEF TypeOK
    <2>2. CASE u # t
      <3>1. pc[u] \in Working /\ u # None
        BY <1>2, <2>2, MetadataAssumption DEF MetadataAssumption, Tasks, TypeOK
      <3>2. slot = u
        BY <3>1 DEF SingleFlight, Working
      <3> QED
        BY <1>1, <2>2, <3>1, <3>2
    <2> QED
      BY <2>1, <2>2
  <1> QED
    BY <1>2 DEF SingleFlight, Working

\* Only the holder of the slot works, after every step.
LEMMA FlightStep == TypeInv /\ SingleFlight /\ [Next]_vars => SingleFlight'
  <1> SUFFICES ASSUME TypeInv, SingleFlight, [Next]_vars PROVE SingleFlight'
    OBVIOUS
  <1> USE DEF At, Go, TypeInv
  <1>0. ASSUME NEW t \in Tasks, pc[t] \in Working PROVE slot = t
    BY <1>0 DEF SingleFlight, Working
  <1>1. ASSUME UNCHANGED <<slot, pc>> PROVE SingleFlight'
    BY <1>1 DEF SingleFlight
  <1>2. ASSUME NEW t \in Tasks, Import(t) PROVE SingleFlight'
    <2>1. CASE ImportClaim(t)
      BY <2>1, FlightKept DEF ImportClaim
    <2>2. CASE ImportSkip(t)
      BY <2>2, FlightKept DEF ImportSkip, AfterImport, Working
    <2>3. CASE ImportCompare(t) \/ ImportCompareFails(t) \/ Parse(t) \/ ParseFails(t)
               \/ Apply(t) \/ ApplyFails(t) \/ ReenrichRead(t) \/ ReenrichShow(t)
      <3>1. pc[t] \in Working /\ slot' = slot /\ \E stage : pc' = [pc EXCEPT ![t] = stage]
        <4>1. CASE ReenrichRead(t)
          <5>1. pc' = [pc EXCEPT ![t] = "enrich"]
            BY <4>1 DEF ReenrichRead, TypeOK
          <5> QED
            BY <4>1, <5>1 DEF ReenrichRead, Working
        <4> QED
          BY <2>3, <4>1 DEF ImportCompare, ImportCompareFails, Parse, ParseFails, Apply, ApplyFails,
                      ReenrichShow, Working
      <3> QED
        BY <1>0, <3>1, FlightKept
    <2>4. CASE LateApply(t) \/ LateApplyFails(t)
      BY <1>1, <2>4 DEF LateApply, LateApplyFails
    <2>5. CASE Leave(t)
      <3>1. slot = t
        BY <1>0, <2>5 DEF Leave, Working
      <3>2. slot' = None /\ pc' = [pc EXCEPT ![t] = AfterImport(t)]
        BY <2>5, <3>1 DEF Leave
      <3>3. AfterImport(t) \notin Working
        BY DEF AfterImport, Working
      <3> QED
        BY <3>1, <3>2, <3>3, FlightKept
    <2> QED
      BY <1>2, <2>1, <2>2, <2>3, <2>4, <2>5 DEF Import
  <1>3. ASSUME NEW t \in Tasks, Refresh(t) PROVE SingleFlight'
    <2>1. CASE RefreshStart(t)
      BY <2>1, FlightKept DEF RefreshStart
    <2>2. CASE RefreshHead(t) \/ RefreshDownload(t) \/ RefreshDownloadFails(t) \/ RefreshEtag(t)
      <3>1. pc[t] \in Working /\ slot' = slot /\ \E stage : pc' = [pc EXCEPT ![t] = stage]
        BY <2>2 DEF RefreshHead, RefreshDownload, RefreshDownloadFails, RefreshEtag, Working
      <3> QED
        BY <1>0, <3>1, FlightKept
    <2> QED
      BY <1>3, <2>1, <2>2 DEF Refresh
  <1>4. ASSUME NEW t \in Tasks, Clear(t) PROVE SingleFlight'
    <2>1. CASE ClearStart(t)
      BY <2>1, FlightKept DEF ClearStart
    <2>2. CASE RegenerateStart(t)
      BY <2>2, FlightKept DEF RegenerateStart, Working
    <2>3. CASE ClearStep(t)
      <3>1. CASE clearAt[t] = 6 /\ At(t, "clear")
        BY <2>3, <3>1, FlightKept DEF ClearStep, AfterClear, Working
      <3>2. CASE ~(clearAt[t] = 6 /\ At(t, "clear"))
        BY <1>1, <2>3, <3>2 DEF ClearStep
      <3> QED
        BY <3>1, <3>2
    <2>4. CASE ClearFails(t) \/ ClearTimesOut(t)
      <3>1. slot' = slot /\ pc' = [pc EXCEPT ![t] = StopClear(t)]
        BY <2>4 DEF ClearFails, ClearTimesOut
      <3>2. StopClear(t) \in Working => slot = t
        BY <1>0 DEF StopClear, Working
      <3> QED
        BY <3>1, <3>2, FlightKept
    <2> QED
      BY <1>4, <2>1, <2>2, <2>3, <2>4 DEF Clear
  <1>5. ASSUME Pipeline PROVE SingleFlight'
    <2>0. Boot \in Tasks
      BY DEF Tasks
    <2>1. CASE SeedClaim
      BY <2>0, <2>1, FlightKept DEF SeedClaim, Working
    <2>2. CASE Seed
      <3>1. slot = Boot
        BY <1>0, <2>0, <2>2 DEF Seed, Working
      <3> QED
        BY <2>0, <2>2, <3>1, FlightKept DEF Seed, Working
    <2>3. CASE VerifyStart
      BY <2>0, <2>3, FlightKept DEF VerifyStart, Working
    <2>4. CASE VerifyEnd
      <3>1. slot = Boot
        BY <1>0, <2>0, <2>4 DEF VerifyEnd, Working
      <3> QED
        BY <2>0, <2>4, <3>1, FlightKept DEF VerifyEnd, Working
    <2> QED
      BY <1>5, <2>1, <2>2, <2>3, <2>4 DEF Pipeline
  <1>6. ASSUME OtherStart \/ OtherEnd PROVE SingleFlight'
    <2>1. \A t \in Tasks : t # None /\ t # Other
      BY MetadataAssumption DEF MetadataAssumption, Tasks
    <2>2. \A t \in Tasks : pc[t] \notin Working
      BY <1>0, <1>6, <2>1 DEF OtherStart, OtherEnd
    <2> QED
      BY <1>6, <2>2 DEF OtherStart, OtherEnd, SingleFlight, Working
  <1>7. CASE Publish \/ OtherRead \/ OtherShow
    BY <1>1, <1>7 DEF Publish, OtherRead, OtherShow, taskVars
  <1>8. ASSUME Restart \/ RestartRecreated PROVE SingleFlight'
    <2>1. \A t \in Tasks : pc'[t] \in {"pipeline", "idle"}
      BY <1>8 DEF Restart, RestartRecreated, Started
    <2> QED
      BY <2>1 DEF SingleFlight
  <1> QED
    BY <1>1, <1>2, <1>3, <1>4, <1>5, <1>6, <1>7, <1>8 DEF Next, vars, taskVars

\* "single-flight": only the holder of the activity slot downloads, compares, parses and
\* writes, for any number of web calls beside the startup pipeline.
THEOREM HolderWorksAlone == Spec => []SingleFlight
  <1>1. Init => SingleFlight
    BY DEF Init, SingleFlight
  <1>2. Spec => []TypeInv
    BY TypeInit, TypeStep, PTL DEF Spec
  <1> QED
    BY <1>1, <1>2, FlightStep, PTL DEF Spec

-----------------------------------------------------------------------------
(* The CRC stamp.                                                          *)

\* After a commit the tables hold what the stamps say.
LEMMA CommitStamps ==
    ASSUME NEW p \in Filled, Commit(p)
    PROVE  StampIsRows'
  BY FilledPair DEF Commit, StampIsRows

\* A step that leaves tables, stamps and clears alone.
LEMMA StampKept ==
    ASSUME StampIsRows, UNCHANGED <<rows, crc, norm, clearAt, cut>>
    PROVE  StampIsRows'
  BY DEF StampIsRows, HalfCleared

\* One statement of a clear.
LEMMA ClearStepStamp ==
    ASSUME TypeOK, StampIsRows, NEW t \in Tasks, ClearStep(t)
    PROVE  StampIsRows'
  <1>1. /\ clearAt[t] \in 1 .. 6
        /\ clearAt' = [clearAt EXCEPT ![t] = (clearAt[t] + 1) % 7]
    BY DEF ClearStep, TypeOK
  <1>2. CASE clearAt[t] \in 1 .. 3
    <2>1. (clearAt[t] + 1) % 7 \in 2 .. 4
      BY <1>2
    <2>2. HalfCleared(t)'
      BY <1>1, <2>1 DEF HalfCleared, TypeOK
    <2> QED
      BY <2>2 DEF StampIsRows
  <1>3. CASE clearAt[t] = 4
    BY <1>3 DEF ClearStep, ClearStatement, StampIsRows
  <1>4. CASE clearAt[t] \in 5 .. 6
    <2>1. UNCHANGED <<rows, crc, norm, cut>>
      BY <1>4 DEF ClearStep, ClearStatement
    <2>2. ASSUME NEW u \in Tasks PROVE HalfCleared(u)' <=> HalfCleared(u)
      <3>1. (clearAt[t] + 1) % 7 \notin 2 .. 4 /\ clearAt[t] \notin 2 .. 4
        BY <1>4
      <3> QED
        BY <1>1, <3>1 DEF HalfCleared, TypeOK
    <2> QED
      BY <2>1, <2>2 DEF StampIsRows
  <1> QED
    BY <1>1, <1>2, <1>3, <1>4

\* A clear that fails leaves a mark when rows are gone and the stamp is not.
LEMMA ClearFailsStamp ==
    ASSUME TypeOK, StampIsRows, NEW t \in Tasks, ClearFails(t)
    PROVE  StampIsRows'
  <1>1. UNCHANGED <<rows, crc, norm>> /\ clearAt' = [clearAt EXCEPT ![t] = 0]
    BY DEF ClearFails, dbVars, stamps
  <1>2. CASE HalfCleared(t)
    BY <1>2 DEF ClearFails, StampIsRows
  <1>3. CASE ~HalfCleared(t)
    <2>1. \A u \in Tasks : HalfCleared(u)' <=> HalfCleared(u)
      BY <1>1, <1>3 DEF HalfCleared, TypeOK
    <2>2. cut' <=> cut
      BY <1>3 DEF ClearFails
    <2> QED
      BY <1>1, <2>1, <2>2 DEF StampIsRows
  <1> QED
    BY <1>2, <1>3

\* Opening the database of an earlier run, perhaps of an earlier build.
LEMMA RestartStamp ==
    ASSUME TypeOK, StampIsRows, Restart
    PROVE  StampIsRows'
  <1>1. PICK dropped \in SUBSET Redefined, died \in BOOLEAN :
             Opened(dropped, died) /\ (dropped = {} => ~died)
    BY DEF Restart
  <1>2. CASE dropped = {}
    <2>1. UNCHANGED <<crc, norm>> /\ rows' = [T \in Tables |-> rows[T]]
      BY <1>1, <1>2 DEF Opened
    <2>2. rows' = rows
      BY <2>1 DEF TypeOK
    <2>3. crc' # None /\ ~cut' => ~cut /\ \A t \in Tasks : ~HalfCleared(t)
      BY <1>1 DEF Opened
    <2> QED
      BY <2>1, <2>2, <2>3 DEF StampIsRows
  <1>3. CASE dropped # {} /\ ~died
    BY <1>1, <1>3 DEF Opened, StampIsRows
  <1>4. CASE died
    BY <1>1, <1>4 DEF Opened, StampIsRows
  <1> QED
    BY <1>2, <1>3, <1>4

\* Every step keeps the meaning of the stamp.
LEMMA StampStep == TypeInv /\ StampIsRows /\ [Next]_vars => StampIsRows'
  <1> SUFFICES ASSUME TypeInv, StampIsRows, [Next]_vars PROVE StampIsRows'
    OBVIOUS
  <1> USE DEF TypeInv
  <1>1. ASSUME NEW t \in Tasks, Import(t) PROVE StampIsRows'
    <2>1. CASE Apply(t)
      <3>1. job[t] \in Filled
        BY <2>1 DEF Apply, At, InputsAreThere, TypeOK
      <3> QED
        BY <2>1, <3>1, CommitStamps DEF Apply
    <2>2. CASE LateApply(t)
      <3>1. late[t] \in Filled
        BY <2>2 DEF LateApply, TypeOK
      <3> QED
        BY <2>2, <3>1, CommitStamps DEF LateApply
    <2>3. CASE UNCHANGED <<rows, crc, norm, clearAt, cut>>
      BY <2>3, StampKept
    <2> QED
      BY <1>1, <2>1, <2>2, <2>3
         DEF Import, ImportClaim, ImportSkip, ImportCompare, ImportCompareFails, Parse, ParseFails,
             ApplyFails, LateApplyFails, ReenrichRead, ReenrichShow, Leave, dbVars, stamps, history
  <1>2. ASSUME NEW t \in Tasks, Refresh(t) PROVE StampIsRows'
    BY <1>2, StampKept
       DEF Refresh, RefreshStart, RefreshHead, RefreshDownload, RefreshDownloadFails, RefreshEtag,
           dbVars, stamps, history
  <1>3. ASSUME NEW t \in Tasks, Clear(t) PROVE StampIsRows'
    <2>1. CASE ClearStart(t) \/ RegenerateStart(t)
      <3>1. UNCHANGED <<rows, crc, norm, cut>> /\ clearAt' = [clearAt EXCEPT ![t] = 1]
        BY <2>1 DEF ClearStart, RegenerateStart, dbVars, stamps, history
      <3>2. clearAt[t] = 0
        BY <2>1 DEF ClearStart, RegenerateStart, Call
      <3>3. \A u \in Tasks : HalfCleared(u)' <=> HalfCleared(u)
        BY <3>1, <3>2 DEF HalfCleared, TypeOK
      <3> QED
        BY <3>1, <3>3 DEF StampIsRows
    <2>2. CASE ClearTimesOut(t)
      BY <2>2, StampKept DEF ClearTimesOut, dbVars, stamps, history
    <2> QED
      BY <1>3, <2>1, <2>2, ClearStepStamp, ClearFailsStamp DEF Clear
  <1>4. CASE Pipeline
    BY <1>4, StampKept DEF Pipeline, SeedClaim, Seed, VerifyStart, VerifyEnd, dbVars, stamps, history
  <1>5. CASE OtherStart \/ OtherRead \/ OtherShow \/ OtherEnd \/ Publish
    BY <1>5, StampKept DEF OtherStart, OtherRead, OtherShow, OtherEnd, Publish, dbVars, stamps, history, taskVars
  <1>6. CASE RestartRecreated
    BY <1>6 DEF RestartRecreated, StampIsRows
  <1>7. CASE UNCHANGED vars
    BY <1>7, StampKept DEF vars, dbVars, stamps, history, taskVars
  <1> QED
    BY <1>1, <1>2, <1>3, <1>4, <1>5, <1>6, <1>7, RestartStamp DEF Next

\* Whenever the CRC stamp is set, all tables hold the rows of that file as the
\* stamped build parsed it, unless a clear is between its deletes and the
\* stamp's reset, or was cut short there.
THEOREM StampIsTrusted == Spec => []StampIsRows
  <1>1. Init => StampIsRows
    BY DEF Init, StampIsRows
  <1>2. Spec => []TypeInv
    BY TypeInit, TypeStep, PTL DEF Spec
  <1> QED
    BY <1>1, <1>2, StampStep, PTL DEF Spec

-----------------------------------------------------------------------------
(* What the library shows.                                                 *)

\* p, if it is a refresh, is of the file on disk or an earlier one, and of the
\* build that runs or an earlier one.
NotAhead(p) == p # None => xml # None /\ p[1] <= xml /\ p[2] <= build

\* Files and builds only get newer, so that a new file or a new build never turns
\* old rows into fresh ones.
NothingIsAhead ==
    /\ xml # None => xml <= upstream
    /\ \A T \in Tables : NotAhead(rows[T])
    /\ \A t \in Tasks : NotAhead(job[t]) /\ NotAhead(late[t])

\* Fresh rows are shown, or the task that committed them is about to read them, or
\* an enrichment has read just them.
ShownOrDue ==
    Fresh /\ ~lost => IF seen = None THEN lib = rows \/ \E t \in Tasks : pc[t] = "enrich"
                                     ELSE seen = rows

\* Who has read the tables holds the slot until they are written.
ReaderHoldsSlot ==
    seen # None => slot = Other \/ \E t \in Tasks : slot = t /\ pc[t] = "enrich"

ShownInv == NothingIsAhead /\ ShownOrDue /\ ReaderHoldsSlot

\* What was not ahead still is not when file and build do not go back.
LEMMA NotAheadKept ==
    ASSUME TypeOK, TypeOK', NEW p \in Filled \cup {None}, NotAhead(p),
           xml' = xml \/ xml' = upstream,
           xml # None => xml <= upstream,
           build' >= build
    PROVE  NotAhead(p)'
  <1>1. CASE p = None
    BY <1>1 DEF NotAhead
  <1>2. CASE p # None
    <2>1. p[1] \in Nat /\ p[2] \in Nat /\ xml \in Nat /\ upstream \in Nat
          /\ build \in Nat /\ build' \in Nat
      BY <1>2, FilledPair DEF NotAhead, TypeOK, Versions, Builds
    <2>2. upstream # None
      BY <2>1, MetadataAssumption DEF MetadataAssumption
    <2> QED
      BY <1>2, <2>1, <2>2 DEF NotAhead
  <1> QED
    BY <1>1, <1>2

\* Files and builds only get newer.
LEMMA OnlyNewer ==
    ASSUME TypeOK, [Next]_vars
    PROVE  (xml' = xml \/ xml' = upstream) /\ build' >= build /\ upstream' >= upstream
  <1>1. build \in Int /\ upstream \in Int
    BY DEF TypeOK, Builds, Versions
  <1>2. ASSUME UNCHANGED env PROVE build' >= build /\ upstream' >= upstream
    BY <1>1, <1>2 DEF env
  <1>3. ASSUME NEW t \in Tasks, Import(t) \/ Refresh(t) \/ Clear(t)
        PROVE  UNCHANGED env /\ (xml' = xml \/ xml' = upstream)
    BY <1>3 DEF Import, ImportClaim, ImportSkip, ImportCompare, ImportCompareFails, Parse, ParseFails,
                Apply, ApplyFails, LateApply, LateApplyFails, ReenrichRead, ReenrichShow, Leave,
                Refresh, RefreshStart, RefreshHead, RefreshDownload, RefreshDownloadFails,
                RefreshEtag, Clear, ClearStart, RegenerateStart, ClearStep, ClearFails, ClearTimesOut
  <1>4. ASSUME Pipeline \/ OtherStart \/ OtherRead \/ OtherShow \/ OtherEnd
        PROVE  UNCHANGED env /\ (xml' = xml \/ xml' = upstream)
    BY <1>4 DEF Pipeline, SeedClaim, Seed, VerifyStart, VerifyEnd, OtherStart,
                  OtherRead, OtherShow, OtherEnd
  <1>5. ASSUME Publish \/ Restart \/ RestartRecreated
        PROVE  build' >= build /\ upstream' >= upstream /\ xml' = xml
    <2>1. CASE Publish
      BY <1>1, <2>1 DEF Publish
    <2>2. CASE Restart
      BY <1>1, <2>2 DEF Restart, Started
    <2>3. CASE RestartRecreated
      BY <1>1, <2>3 DEF RestartRecreated, Started
    <2> QED
      BY <1>5, <2>1, <2>2, <2>3
  <1>6. CASE UNCHANGED vars
    BY <1>2, <1>6 DEF vars
  <1> QED
    BY <1>2, <1>3, <1>4, <1>5, <1>6 DEF Next

\* Every step keeps file, build and refreshes in their order.
LEMMA AheadStep == TypeInv /\ TypeInv' /\ NothingIsAhead /\ [Next]_vars => NothingIsAhead'
  <1> SUFFICES ASSUME TypeInv, TypeInv', NothingIsAhead, [Next]_vars PROVE NothingIsAhead'
    OBVIOUS
  <1> USE DEF TypeInv
  <1>1. (xml' = xml \/ xml' = upstream) /\ build' >= build /\ upstream' >= upstream
    BY OnlyNewer
  <1>2. xml' # None => xml' <= upstream'
    <2>1. CASE xml' = upstream
      BY <1>1, <2>1 DEF TypeOK, Versions
    <2>2. CASE xml' = xml /\ xml # None
      <3>1. xml \in Int /\ upstream \in Int /\ upstream' \in Int /\ xml <= upstream
        BY <2>2 DEF TypeOK, Versions, NothingIsAhead
      <3> QED
        BY <1>1, <2>2, <3>1
    <2> QED
      BY <1>1, <2>1, <2>2
  <1>3. ASSUME NEW p \in Filled \cup {None}, NotAhead(p) PROVE NotAhead(p)'
    BY <1>1, <1>3, NotAheadKept DEF NothingIsAhead
  <1>4. ASSUME NEW T \in Tables PROVE rows'[T] \in {rows[T], None} \cup {job[t] : t \in Tasks}
                                                  \cup {late[t] : t \in Tasks}
    <2>1. ASSUME NEW t \in Tasks, Apply(t) \/ LateApply(t) PROVE rows'[T] \in {job[t], late[t]}
      BY <2>1 DEF Apply, LateApply, Commit
    <2>2. ASSUME NEW t \in Tasks, Import(t), ~Apply(t), ~LateApply(t) PROVE rows' = rows
      BY <2>2 DEF Import, ImportClaim, ImportSkip, ImportCompare, ImportCompareFails, Parse, ParseFails,
                  ApplyFails, LateApplyFails, ReenrichRead, ReenrichShow, Leave, dbVars
    <2>3. ASSUME NEW t \in Tasks, Refresh(t) PROVE rows' = rows
      BY <2>3 DEF Refresh, RefreshStart, RefreshHead, RefreshDownload, RefreshDownloadFails,
                  RefreshEtag, dbVars
    <2>4. ASSUME NEW t \in Tasks, Clear(t) PROVE rows'[T] \in {rows[T], None}
      <3>1. CASE ClearStep(t)
        BY <3>1 DEF ClearStep, ClearStatement, Delete, dbVars, stamps, TypeOK
      <3> QED
        BY <2>4, <3>1 DEF Clear, ClearStart, RegenerateStart, ClearFails, ClearTimesOut, dbVars
    <2>5. ASSUME Restart \/ RestartRecreated PROVE rows'[T] \in {rows[T], None}
      BY <2>5 DEF Restart, RestartRecreated, Opened, Empty
    <2>6. ASSUME Pipeline \/ OtherStart \/ OtherRead \/ OtherShow \/ OtherEnd \/ Publish \/ UNCHANGED vars PROVE rows' = rows
      BY <2>6 DEF Pipeline, SeedClaim, Seed, VerifyStart, VerifyEnd, OtherStart,
                  OtherRead, OtherShow, OtherEnd, Publish,
                  vars, dbVars
    <2> QED
      BY <2>1, <2>2, <2>3, <2>4, <2>5, <2>6 DEF Next
  <1>5. ASSUME NEW T \in Tables PROVE NotAhead(rows[T])'
    <2>1. NotAhead(None)
      BY DEF NotAhead
    <2>2. NotAhead(rows'[T]) /\ rows'[T] \in Filled \cup {None}
      BY <1>4, <2>1 DEF NothingIsAhead, TypeOK
    <2>3. PICK p \in Filled \cup {None} : p = rows'[T]
      BY <2>2
    <2> QED
      BY <1>3, <2>2, <2>3 DEF NotAhead
  <1>6. ASSUME NEW t \in Tasks PROVE NotAhead(job[t])' /\ NotAhead(late[t])'
    <2>1. ASSUME NEW u \in Tasks, Import(u)
          PROVE  /\ late'[t] \in {None, late[t], job[t]}
                 /\ job'[t] \in {None, job[t]} \/ (Parse(u) /\ job'[t] = <<xml, build>>)
      <3>1. CASE Parse(u)
        BY <3>1 DEF Parse, TypeOK
      <3>2. CASE Apply(u) \/ ApplyFails(u)
        BY <3>2 DEF Apply, ApplyFails, TypeOK
      <3>3. CASE LateApply(u) \/ LateApplyFails(u)
        BY <3>3 DEF LateApply, LateApplyFails, TypeOK, locals
      <3> QED
        BY <2>1, <3>1, <3>2, <3>3 DEF Import, ImportClaim, ImportSkip, ImportCompare,
             ImportCompareFails, ParseFails, ReenrichRead, ReenrichShow, Leave, locals
    <2>2. ASSUME NEW u \in Tasks, Refresh(u) \/ Clear(u) PROVE UNCHANGED <<job, late>>
      BY <2>2 DEF Refresh, RefreshStart, RefreshHead, RefreshDownload, RefreshDownloadFails, RefreshEtag,
                  Clear, ClearStart, RegenerateStart, ClearStep, ClearFails, ClearTimesOut, locals
    <2>3. ASSUME Restart \/ RestartRecreated PROVE job'[t] = None /\ late'[t] = None
      BY <2>3 DEF Restart, RestartRecreated, Started
    <2>4. ASSUME Pipeline \/ OtherStart \/ OtherRead \/ OtherShow \/ OtherEnd \/ Publish \/ UNCHANGED vars
          PROVE  UNCHANGED <<job, late>>
      BY <2>4 DEF Pipeline, SeedClaim, Seed, VerifyStart, VerifyEnd, OtherStart,
                  OtherRead, OtherShow, OtherEnd, Publish,
                  vars, taskVars, locals
    <2>5. /\ late'[t] \in {None, late[t], job[t]}
          /\ job'[t] \in {None, job[t]} \/ (\E u \in Tasks : Parse(u) /\ job'[t] = <<xml, build>>)
      BY <2>1, <2>2, <2>3, <2>4 DEF Next
    <2>6. ASSUME NEW u \in Tasks, Parse(u)
          PROVE  <<xml, build>> \in Filled /\ NotAhead(<<xml, build>>)
      BY <2>6 DEF Parse, At, InputsAreThere, NotAhead, TypeOK, Filled, Versions, Builds
    <2>7. NotAhead(job'[t]) /\ job'[t] \in Filled \cup {None}
      BY <2>5, <2>6 DEF NotAhead, NothingIsAhead, TypeOK
    <2>8. NotAhead(late'[t]) /\ late'[t] \in Filled \cup {None}
      BY <2>5 DEF NotAhead, NothingIsAhead, TypeOK
    <2>9. PICK p \in Filled \cup {None}, q \in Filled \cup {None} : p = job'[t] /\ q = late'[t]
      BY <2>7, <2>8
    <2> QED
      BY <1>3, <2>7, <2>8, <2>9 DEF NotAhead
  <1> QED
    BY <1>2, <1>5, <1>6 DEF NothingIsAhead

\* A step that leaves the tables alone makes no rows fresh.
LEMMA NoNewlyFresh ==
    ASSUME TypeInv, NothingIsAhead, [Next]_vars, rows' = rows, Fresh'
    PROVE  Fresh
  <1>1. PICK T \in Tables : TRUE
    BY DEF Tables
  <1>2. xml' \in Versions /\ build' \in Builds /\ rows[T] = <<xml', build'>>
    BY TypeStep DEF Fresh, TypeInv, TypeOK
  <1>3. rows[T] \in Filled
    BY <1>2 DEF Filled
  <1>4. rows[T] # None /\ rows[T][1] = xml' /\ rows[T][2] = build'
    BY <1>2, <1>3, FilledPair
  <1>5. xml # None /\ xml' <= xml /\ build' <= build /\ xml <= upstream
    BY <1>4 DEF NothingIsAhead, NotAhead
  <1>6. xml' = xml /\ build' = build
    BY <1>2, <1>5, OnlyNewer DEF TypeInv, TypeOK, Versions, Builds
  <1> QED
    BY <1>5, <1>6 DEF Fresh

\* A step after which fresh rows are shown by the library, or due to be.
LEMMA DueKept ==
    ASSUME TypeInv, NothingIsAhead, ShownOrDue, [Next]_vars,
           UNCHANGED <<rows, lib>>,
           seen' = seen \/ (seen' = None /\ (seen # None => lost')),
           lost => lost',
           \A t \in Tasks : pc[t] = "enrich" => pc'[t] = "enrich" \/ lost'
    PROVE  ShownOrDue'
  <1> SUFFICES ASSUME Fresh', ~lost'
               PROVE  IF seen' = None THEN lib' = rows' \/ \E t \in Tasks : pc'[t] = "enrich"
                                      ELSE seen' = rows'
    BY DEF ShownOrDue
  <1>1. Fresh /\ ~lost
    BY NoNewlyFresh
  <1> QED
    BY <1>1 DEF ShownOrDue

\* The task at t moves, the database does not.
LEMMA DueMoves ==
    ASSUME TypeInv, NothingIsAhead, ShownOrDue, [Next]_vars, NEW t \in Tasks,
           UNCHANGED <<rows, lib, seen, lost>>,
           pc[t] # "enrich",
           pc' = pc \/ \E stage : pc' = [pc EXCEPT ![t] = stage]
    PROVE  ShownOrDue'
  BY DueKept DEF TypeInv, TypeOK

\* An empty table is not fresh.
LEMMA EmptyNotFresh ==
    ASSUME TypeInv', NEW T \in Tables, rows'[T] = None
    PROVE  ShownOrDue'
  <1> SUFFICES ASSUME Fresh' PROVE FALSE
    BY DEF ShownOrDue
  <1>1. <<xml', build'>> \in Filled /\ rows'[T] = <<xml', build'>>
    BY DEF Fresh, TypeInv, TypeOK, Filled
  <1> QED
    BY <1>1, FilledPair

\* An enrichment reads the rows as they are, or is lost.
LEMMA ReadDue ==
    ASSUME TypeOK, ReadRows, UNCHANGED rows
    PROVE  ShownOrDue'
  <1>1. rows # None
    BY MetadataAssumption DEF MetadataAssumption, TypeOK, Filled, Versions, Builds
  <1> QED
    BY <1>1 DEF ReadRows, ShownOrDue

\* It writes the rows it has read, or is lost.
LEMMA ShowDue ==
    ASSUME TypeInv, NothingIsAhead, ShownOrDue, [Next]_vars, ShowRows, UNCHANGED rows
    PROVE  ShownOrDue'
  <1> SUFFICES ASSUME Fresh', ~lost' PROVE lib' = rows
    BY DEF ShownOrDue, ShowRows
  <1>1. Fresh /\ ~lost /\ lib' = seen
    BY NoNewlyFresh DEF ShowRows
  <1> QED
    BY <1>1 DEF ShownOrDue, ShowRows

\* A step in which the holder of the slot and its reading stay.
LEMMA ReaderStays ==
    ASSUME ReaderHoldsSlot, seen' = seen, slot' = slot,
           \A t \in Tasks : pc[t] = "enrich" => pc'[t] = "enrich"
    PROVE  ReaderHoldsSlot'
  BY DEF ReaderHoldsSlot

\* Every step leaves the slot with who has read the tables.
LEMMA ReaderStep ==
    TypeInv /\ SingleFlight /\ ReaderHoldsSlot /\ [Next]_vars => ReaderHoldsSlot'
  <1> SUFFICES ASSUME TypeInv, SingleFlight, ReaderHoldsSlot, [Next]_vars PROVE ReaderHoldsSlot'
    OBVIOUS
  <1> USE DEF At, Go
  <1>0. \A t \in Tasks : t # None /\ t # Other
    BY MetadataAssumption DEF MetadataAssumption, Tasks
  <1>00. Other # None
    BY MetadataAssumption DEF MetadataAssumption
  <1>1. ASSUME seen = None, seen' = seen PROVE ReaderHoldsSlot'
    BY <1>1 DEF ReaderHoldsSlot
  <1>2. ASSUME slot = None, seen' = seen PROVE ReaderHoldsSlot'
    BY <1>0, <1>00, <1>1, <1>2 DEF ReaderHoldsSlot
  <1>3. ASSUME NEW t \in Tasks, slot = t, pc[t] # "enrich", seen' = seen PROVE ReaderHoldsSlot'
    BY <1>0, <1>1, <1>3 DEF ReaderHoldsSlot
  <1>4. ASSUME NEW t \in Tasks, pc[t] # "enrich", slot' = slot, seen' = seen,
               pc' = pc \/ \E stage : pc' = [pc EXCEPT ![t] = stage]
        PROVE  ReaderHoldsSlot'
    <2>1. \A u \in Tasks : pc[u] = "enrich" => pc'[u] = "enrich"
      BY <1>4 DEF TypeInv, TypeOK
    <2> QED
      BY <1>4, <2>1, ReaderStays
  <1>5. ASSUME NEW t \in Tasks, Import(t) PROVE ReaderHoldsSlot'
    <2>1. CASE ImportClaim(t)
      BY <1>2, <2>1 DEF ImportClaim
    <2>2. CASE ImportSkip(t) \/ ImportCompare(t) \/ ImportCompareFails(t) \/ Parse(t) \/ ParseFails(t)
               \/ Apply(t) \/ ApplyFails(t)
      BY <1>4, <2>2 DEF ImportSkip, ImportCompare, ImportCompareFails, Parse, ParseFails, Apply, ApplyFails
    <2>3. CASE LateApply(t) \/ LateApplyFails(t)
      BY <2>3, ReaderStays DEF LateApply, LateApplyFails
    <2>4. CASE ReenrichRead(t)
      <3>1. slot = t
        BY <2>4 DEF ReenrichRead, SingleFlight
      <3> QED
        BY <2>4, <3>1 DEF ReenrichRead, ReaderHoldsSlot
    <2>5. CASE ReenrichShow(t)
      BY <2>5 DEF ReenrichShow, ShowRows, ReaderHoldsSlot
    <2>6. CASE Leave(t)
      <3>1. slot = t
        BY <2>6 DEF Leave, SingleFlight
      <3> QED
        BY <1>3, <2>6, <3>1 DEF Leave
    <2> QED
      BY <1>5, <2>1, <2>2, <2>3, <2>4, <2>5, <2>6 DEF Import
  <1>6. ASSUME NEW t \in Tasks, Refresh(t) PROVE ReaderHoldsSlot'
    <2>1. CASE RefreshStart(t)
      BY <1>2, <2>1 DEF RefreshStart
    <2>2. CASE RefreshHead(t) \/ RefreshDownload(t) \/ RefreshDownloadFails(t) \/ RefreshEtag(t)
      BY <1>4, <2>2 DEF RefreshHead, RefreshDownload, RefreshDownloadFails, RefreshEtag
    <2> QED
      BY <1>6, <2>1, <2>2 DEF Refresh
  <1>7. ASSUME NEW t \in Tasks, Clear(t) PROVE ReaderHoldsSlot'
    <2>1. CASE ClearStart(t)
      BY <1>2, <2>1 DEF ClearStart
    <2>2. CASE RegenerateStart(t) \/ ClearTimesOut(t)
      BY <1>4, <2>2 DEF RegenerateStart, Call, ClearTimesOut
    <2>3. CASE ClearStep(t)
      <3>1. \A u \in Tasks : pc[u] = "enrich" => pc'[u] = "enrich"
        BY <2>3 DEF ClearStep, TypeInv, TypeOK
      <3> QED
        BY <2>3, <3>1, ReaderStays DEF ClearStep
    <2>4. CASE ClearFails(t)
      <3>1. \A u \in Tasks : pc[u] = "enrich" => pc'[u] = "enrich"
        BY <2>4 DEF ClearFails, StopClear, TypeInv, TypeOK
      <3> QED
        BY <2>4, <3>1, ReaderStays DEF ClearFails
    <2> QED
      BY <1>7, <2>1, <2>2, <2>3, <2>4 DEF Clear
  <1>8. CASE Pipeline
    <2>0. Boot \in Tasks
      BY DEF Tasks
    <2>1. CASE SeedClaim \/ VerifyStart
      <3>1. CASE slot = None
        BY <1>2, <2>1, <3>1 DEF SeedClaim, VerifyStart
      <3>2. CASE slot # None
        BY <1>4, <2>0, <2>1, <3>2 DEF SeedClaim, VerifyStart
      <3> QED
        BY <3>1, <3>2
    <2>2. CASE Seed \/ VerifyEnd
      <3>1. slot = Boot
        BY <2>0, <2>2 DEF Seed, VerifyEnd, SingleFlight
      <3> QED
        BY <1>3, <2>0, <2>2, <3>1 DEF Seed, VerifyEnd
    <2> QED
      BY <1>8, <2>1, <2>2 DEF Pipeline
  <1>9. CASE OtherStart
    BY <1>2, <1>9 DEF OtherStart
  <1>10. CASE OtherRead
    BY <1>10 DEF OtherRead, ReaderHoldsSlot
  <1>11. CASE OtherShow
    BY <1>11 DEF OtherShow, ShowRows, ReaderHoldsSlot
  <1>12. CASE OtherEnd
    BY <1>1, <1>12 DEF OtherEnd
  <1>13. CASE Publish \/ UNCHANGED vars
    BY <1>13, ReaderStays DEF Publish, vars, taskVars
  <1>14. CASE Restart \/ RestartRecreated
    BY <1>14 DEF Restart, RestartRecreated, Started, ReaderHoldsSlot
  <1> QED
    BY <1>5, <1>6, <1>7, <1>8, <1>9, <1>10, <1>11, <1>12, <1>13, <1>14 DEF Next

\* Every step keeps fresh rows shown or due.
LEMMA DueStep ==
    TypeInv /\ TypeInv' /\ SingleFlight /\ ShownInv /\ [Next]_vars => ShownOrDue'
  <1> SUFFICES ASSUME TypeInv, TypeInv', SingleFlight, NothingIsAhead, ShownOrDue, ReaderHoldsSlot,
                      [Next]_vars
               PROVE  ShownOrDue'
    BY DEF ShownInv
  <1> USE DEF At, Go, dbVars, history
  <1>1. ASSUME NEW t \in Tasks, Import(t) PROVE ShownOrDue'
    <2>1. CASE Apply(t)
      <3>1. slot = t /\ t # Other /\ pc[t] = "apply"
        BY <2>1, MetadataAssumption DEF Apply, SingleFlight, MetadataAssumption, Tasks
      <3>2. seen = None
        BY <3>1 DEF ReaderHoldsSlot
      <3> QED
        BY <2>1, <3>2 DEF Apply, ShownOrDue, TypeInv, TypeOK
    <2>2. CASE LateApply(t)
      BY <2>2 DEF LateApply, ShownOrDue
    <2>3. CASE ReenrichRead(t)
      BY <2>3, ReadDue DEF ReenrichRead, TypeInv
    <2>6. CASE ReenrichShow(t)
      BY <2>6, ShowDue DEF ReenrichShow
    <2>4. CASE LateApplyFails(t)
      BY <2>4, DueKept DEF LateApplyFails
    <2>5. CASE ImportClaim(t) \/ ImportSkip(t) \/ ImportCompare(t) \/ ImportCompareFails(t)
               \/ Parse(t) \/ ParseFails(t) \/ ApplyFails(t) \/ Leave(t)
      BY <2>5, DueMoves
         DEF ImportClaim, ImportSkip, ImportCompare, ImportCompareFails, Parse, ParseFails,
             ApplyFails, Leave
    <2> QED
      BY <1>1, <2>1, <2>2, <2>3, <2>4, <2>5, <2>6 DEF Import
  <1>2. ASSUME NEW t \in Tasks, Refresh(t) PROVE ShownOrDue'
    BY <1>2, DueMoves
       DEF Refresh, RefreshStart, Call, RefreshHead, RefreshDownload, RefreshDownloadFails, RefreshEtag
  <1>3. ASSUME NEW t \in Tasks, Clear(t) PROVE ShownOrDue'
    <2>1. CASE ClearStart(t) \/ RegenerateStart(t) \/ ClearTimesOut(t)
      BY <2>1, DueMoves DEF ClearStart, RegenerateStart, Call, ClearTimesOut
    <2>2. CASE ClearFails(t)
      <3>1. UNCHANGED <<rows, lib, seen, lost>> /\ pc' = [pc EXCEPT ![t] = StopClear(t)]
        BY <2>2 DEF ClearFails
      <3>2. \A u \in Tasks : pc[u] = "enrich" => pc'[u] = "enrich"
        BY <3>1 DEF StopClear, TypeInv, TypeOK
      <3> QED
        BY <3>1, <3>2, DueKept
    <2>3. CASE ClearStep(t)
      <3>1. CASE clearAt[t] \in 1 .. 3
        <4>1. ClearOrder[clearAt[t]] \in Tables
          BY <3>1 DEF ClearOrder, Tables
        <4>2. rows'[ClearOrder[clearAt[t]]] = None
          BY <2>3, <3>1, <4>1 DEF ClearStep, ClearStatement, Delete, TypeInv, TypeOK
        <4> QED
          BY <4>1, <4>2, EmptyNotFresh
      <3>2. CASE clearAt[t] \notin 1 .. 3
        <4>1. UNCHANGED <<rows, lib, seen, lost>>
          BY <2>3, <3>2 DEF ClearStep, ClearStatement
        <4>2. \A u \in Tasks : pc[u] = "enrich" => pc'[u] = "enrich"
          BY <2>3 DEF ClearStep, TypeInv, TypeOK
        <4> QED
          BY <4>1, <4>2, DueKept
      <3> QED
        BY <3>1, <3>2
    <2> QED
      BY <1>3, <2>1, <2>2, <2>3 DEF Clear
  <1>4. CASE Pipeline
    <2>1. Boot \in Tasks
      BY DEF Tasks
    <2> QED
      BY <1>4, <2>1, DueMoves DEF Pipeline, SeedClaim, Seed, VerifyStart, VerifyEnd
  <1>5. CASE OtherStart \/ Publish \/ UNCHANGED vars
    BY <1>5, DueKept DEF OtherStart, Publish, vars, taskVars
  <1>6. CASE OtherRead \/ OtherShow \/ OtherEnd
    <2>1. CASE OtherRead
      BY <2>1, ReadDue DEF OtherRead, TypeInv
    <2>2. CASE OtherShow
      BY <2>2, ShowDue DEF OtherShow
    <2>3. CASE OtherEnd
      BY <2>3, DueKept DEF OtherEnd
    <2> QED
      BY <1>6, <2>1, <2>2, <2>3
  <1>7. CASE Restart
    <2>1. PICK dropped \in SUBSET Redefined, died \in BOOLEAN : Opened(dropped, died)
      BY <1>7 DEF Restart
    <2>2. CASE dropped = {}
      <3>1. rows' = [T \in Tables |-> rows[T]]
        BY <2>1, <2>2 DEF Opened
      <3>2. rows' = rows
        BY <3>1 DEF TypeInv, TypeOK
      <3>3. /\ lib' = lib /\ (lost => lost') /\ seen' = None /\ (seen # None => lost')
            /\ \A t \in Tasks : pc[t] = "enrich" => lost'
        BY <1>7 DEF Restart, Started
      <3> QED
        BY <3>2, <3>3, DueKept
    <2>3. ASSUME NEW T \in dropped PROVE ShownOrDue'
      <3>1. T \in Tables
        BY MetadataAssumption DEF MetadataAssumption
      <3>2. rows'[T] = None
        BY <2>1, <3>1 DEF Opened
      <3> QED
        BY <3>1, <3>2, EmptyNotFresh
    <2> QED
      BY <2>2, <2>3
  <1>8. CASE RestartRecreated
    <2>1. PICK T \in Tables : TRUE
      BY DEF Tables
    <2>2. rows'[T] = None
      BY <1>8 DEF RestartRecreated, Empty
    <2> QED
      BY <2>2, EmptyNotFresh
  <1> QED
    BY <1>1, <1>2, <1>3, <1>4, <1>5, <1>6, <1>7, <1>8 DEF Next

\* While nobody holds the slot, the library shows the metadata of the file on disk
\* whenever the tables hold it, unless its enrichment was lost to a crash or to a
\* commit that had been reported as a timeout, or failed.
THEOREM FreshIsShown == Spec => []ShownIsFresh
  <1>1. Init => ShownInv
    <2> SUFFICES ASSUME Init PROVE ShownInv
      OBVIOUS
    <2>1. NothingIsAhead
      BY DEF Init, NothingIsAhead, NotAhead, Empty
    <2>2. ShownOrDue
      BY DEF Init, ShownOrDue
    <2>3. ReaderHoldsSlot
      BY DEF Init, ReaderHoldsSlot
    <2> QED
      BY <2>1, <2>2, <2>3 DEF ShownInv
  <1>2. TypeInv /\ TypeInv' /\ SingleFlight /\ ShownInv /\ [Next]_vars => ShownInv'
    BY AheadStep, DueStep, ReaderStep DEF ShownInv
  <1>3. Spec => []TypeInv
    BY TypeInit, TypeStep, PTL DEF Spec
  <1>4. Spec => []ShownInv
    BY <1>1, <1>2, <1>3, HolderWorksAlone, PTL DEF Spec
  <1>5. TypeInv /\ SingleFlight /\ ShownInv => ShownIsFresh
    <2> SUFFICES ASSUME SingleFlight, ShownInv, Fresh, slot = None, ~lost
                 PROVE  lib = rows
      BY DEF ShownIsFresh
    <2>1. \A t \in Tasks : t # None
      BY MetadataAssumption DEF MetadataAssumption, Tasks
    <2>2. \A t \in Tasks : pc[t] # "enrich"
      BY <2>1 DEF SingleFlight
    <2>3. seen = None
      BY <2>1, MetadataAssumption DEF ShownInv, ReaderHoldsSlot, MetadataAssumption
    <2> QED
      BY <2>2, <2>3 DEF ShownInv, ShownOrDue
  <1> QED
    BY <1>3, <1>4, <1>5, HolderWorksAlone, PTL
=============================================================================
