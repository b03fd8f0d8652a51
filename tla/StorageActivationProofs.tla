---------------------- MODULE StorageActivationProofs ----------------------
(***************************************************************************)
(* Proofs about StorageActivation: types, why the storage generation       *)
(* protects scans, and why Ready means what it says.                       *)
(***************************************************************************)
EXTENDS StorageActivation, TLAPS

\* What is below a root is a medium or the stub.
LEMMA VolumeIsPlace ==
    ASSUME TypeOK, NEW r \in Roots
    PROVE  VolumeAt(r) \in Places
  BY DEF TypeOK, VolumeAt, Places

\* The id of a mount is a number.
LEMMA MountIdType ==
    ASSUME TypeOK, NEW r \in Roots
    PROVE  /\ MountId(r) \in Nat \cup {None}
           /\ MountId(r) # None => mount[r] # None /\ mount[r].id = MountId(r)
           /\ mount[r] # None => mount[r].id \in Nat /\ mount[r].id # None
  BY StorageAssumption DEF TypeOK, MountId, StorageAssumption

-----------------------------------------------------------------------------
\* Type correctness, one lemma for each group of actions.

\* The state of a process that starts on a well-typed mount table.
LEMMA StartType ==
    ASSUME NEW c \in Roots \cup {None}
    PROVE  /\ StartStatus(c) \in {"starting", "misconfigured", "configUnavailable"}
           /\ StartRedetect(c) \in Redetections
           /\ StartRedetect(c).pc \in {"idle", "bootLibrary"}
           /\ StartRedetect(c).pc = "idle" <=> StartStatus(c) # "starting"
           /\ StartRedetect(c).signature = None
           /\ StartRedetect(c).pc # "idle" =>
                 StartRedetect(c).by # None /\ StartRedetect(c).root # None
  <1>1. CASE Mounted(c)
    <2>1. StartRedetect(c) = [pc |-> "bootLibrary", by |-> Watcher, root |-> c,
                              signature |-> None, volume |-> None]
      BY <1>1 DEF StartRedetect, NoRedetect
    <2>2. StartStatus(c) = "starting" /\ c \in Roots /\ c # None /\ Watcher # None
      BY <1>1, StorageAssumption DEF StartStatus, Mounted, StorageAssumption
    <2> QED
      BY <2>1, <2>2 DEF Redetections
  <1>2. CASE ~Mounted(c)
    BY <1>2 DEF StartRedetect, StartStatus, NoRedetect, Redetections
  <1> QED
    BY <1>1, <1>2

\* Starting with or without a storage gives a well-typed state.
LEMMA TypeInit == Init => TypeOK
  <1> SUFFICES ASSUME Init PROVE TypeOK
    OBVIOUS
  <1>1. mount \in [Roots -> [volume : Volumes, id : Nat] \cup {None}]
    BY DEF Init
  <1>2. /\ status \in {"starting", "misconfigured", "configUnavailable"}
        /\ redetect \in Redetections
        /\ redetect.pc # "idle" => redetect.by # None /\ redetect.root # None
    BY StartType DEF Init
  <1>3. user \in [root : Roots \cup {None}, volume : Places \cup {None}]
    BY DEF Init, NoUser
  <1>4. scan \in [Scans -> ScanStates] /\ \A s \in Scans : scan[s].pc = "idle"
    BY DEF Init, NoScan, ScanStates
  <1>5. moves \in 0 .. MaxMoves /\ faults \in 0 .. MaxFaults
    BY StorageAssumption DEF Init, StorageAssumption
  <1> QED
    BY <1>1, <1>2, <1>3, <1>4, <1>5 DEF Init, TypeOK

\* Mounts, unmounts, edits of replay.cfg and a pool that is flagged.
LEMMA TypeEnvironment == ASSUME TypeOK, Environment PROVE TypeOK'
  <1> USE DEF env, active, pools
  <1>1. ASSUME Move PROVE moves' \in 0 .. MaxMoves /\ moves' \in Nat /\ event' \in BOOLEAN
    BY <1>1, StorageAssumption DEF Move, TypeOK, StorageAssumption
  <1>2. ASSUME NEW r \in Roots, NEW v \in Volumes, Mount(r, v) PROVE TypeOK'
    <2>1. mount' \in [Roots -> [volume : Volumes, id : Nat] \cup {None}]
      BY <1>1, <1>2 DEF Mount, TypeOK
    <2> QED
      BY <1>1, <1>2, <2>1 DEF Mount, TypeOK
  <1>3. ASSUME NEW r \in Roots, Unmount(r) PROVE TypeOK'
    BY <1>1, <1>3 DEF Unmount, TypeOK
  <1>4. ASSUME NEW r \in Roots \cup {None}, EditConfig(r) PROVE TypeOK'
    BY <1>1, <1>4 DEF EditConfig, TypeOK
  <1>5. CASE FlagCorrupt
    BY <1>5, StorageAssumption DEF FlagCorrupt, Fault, TypeOK, StorageAssumption
  <1> QED
    BY <1>2, <1>3, <1>4, <1>5 DEF Environment

\* The end of a redetection.
LEMMA FinishType ==
    ASSUME TypeOK, NEW w, Finish(w)
    PROVE  /\ redetect' \in Redetections /\ redetect'.pc = "idle"
           /\ request' \in [Requests -> {"idle", "redetect", "gate", "reset"}]
  BY DEF Finish, NoRedetect, Redetections, TypeOK

\* The first part of a redetection, whoever asks for it.
LEMMA TypeRedetect ==
    ASSUME TypeOK, NEW w \in Requests \cup {Watcher}, Redetect(w), event' \in BOOLEAN
    PROVE  TypeOK'
  <1> USE DEF env, active, pools
  <1>1. known' \in Roots \cup {None}
    BY DEF Redetect, TypeOK
  <1>2. generation' \in Nat /\ status' \in {"starting", "ready", "misconfigured", "activating",
                                            "error", "configUnavailable"}
    BY DEF Redetect, Cancel, TypeOK
  <1>3. /\ redetect' \in Redetections
        /\ redetect'.pc # "idle" => redetect'.by # None /\ redetect'.root # None
        /\ request' \in [Requests -> {"idle", "redetect", "gate", "reset"}]
    <2>1. CASE Finish(w)
      BY <2>1, FinishType
    <2>2. CASE ~Finish(w)
      <3>1. /\ known' \in Roots /\ mount[known'].id \in Nat
            /\ redetect' = [NoRedetect EXCEPT !.pc = "probe", !.by = w, !.root = known',
                                              !.signature = mount[known'].id]
            /\ request' = [q \in Requests |-> IF q = w THEN "redetect" ELSE request[q]]
        BY <1>1, <2>2 DEF Redetect, TypeOK
      <3>2. redetect' = [pc |-> "probe", by |-> w, root |-> known',
                         signature |-> mount[known'].id, volume |-> None]
        BY <3>1 DEF NoRedetect
      <3>3. w # None /\ known' # None /\ known' \in Roots /\ mount[known'].id \in Nat
        BY <3>1, StorageAssumption DEF StorageAssumption
      <3>4. redetect' \in Redetections /\ redetect'.by # None /\ redetect'.root # None
        BY <3>2, <3>3 DEF Redetections
      <3>5. request' \in [Requests -> {"idle", "redetect", "gate", "reset"}]
        BY <3>1 DEF TypeOK
      <3> QED
        BY <3>4, <3>5
    <2> QED
      BY <2>1, <2>2
  <1> QED
    BY <1>1, <1>2, <1>3 DEF Redetect, TypeOK

\* The steps of an activation.
LEMMA TypeActivation == ASSUME TypeOK, RedetectStep PROVE TypeOK'
  <1> USE DEF env, active, pools
  <1>1. redetect.pc # "idle" => redetect.root \in Roots /\ redetect.by # None
    BY DEF TypeOK, Redetections
  <1>2. ASSUME Fault PROVE faults' \in 0 .. MaxFaults
    BY <1>2, StorageAssumption DEF Fault, TypeOK, StorageAssumption
  <1>3. ASSUME Abort PROVE /\ faults' \in 0 .. MaxFaults /\ status' = "error"
                           /\ redetect' \in Redetections /\ redetect'.pc = "idle"
                           /\ request' \in [Requests -> {"idle", "redetect", "gate", "reset"}]
    BY <1>2, <1>3, FinishType DEF Abort, Fails, TypeOK
  <1>4. ASSUME NEW pc \in {"prepare", "library", "userData", "user", "commit", "bootSign"},
               redetect.pc # "idle", RedetectGoto(pc)
        PROVE  /\ redetect' \in Redetections
               /\ redetect'.by # None /\ redetect'.root # None
    BY <1>1, <1>4 DEF RedetectGoto, Redetections, TypeOK
  <1>5. CASE ProbeFails
    BY <1>2, <1>5, FinishType DEF ProbeFails, Fails, Cancel, TypeOK
  <1>6. CASE ProbeSucceeds
    BY <1>4, <1>6 DEF ProbeSucceeds, TypeOK
  <1>7. CASE Prepare
    <2>1. CASE Abort
      BY <1>3, <1>7, <2>1 DEF Prepare, TypeOK
    <2>2. CASE redetect' = [redetect EXCEPT !.pc = "library",
                                            !.volume = VolumeAt(redetect.root)]
      <3>1. redetect' \in Redetections /\ redetect'.by # None /\ redetect'.root # None
        BY <1>1, <1>7, <2>2, VolumeIsPlace DEF Prepare, Redetections, TypeOK
      <3>2. /\ lib' \in Places \cup {None} /\ faults' \in 0 .. MaxFaults
            /\ status' \in {"starting", "ready", "misconfigured", "activating", "error",
                            "configUnavailable"}
            /\ request' \in [Requests -> {"idle", "redetect", "gate", "reset"}]
        BY <1>3, <1>7 DEF Prepare, TypeOK
      <3> QED
        BY <1>7, <3>1, <3>2 DEF Prepare, TypeOK
    <2> QED
      BY <1>7, <2>1, <2>2 DEF Prepare
  <1>8. CASE ReopenLibrary
    <2>1. CASE Abort
      <3>1. lib' \in Places \cup {None}
        BY <1>8 DEF ReopenLibrary, TypeOK, Redetections
      <3> QED
        BY <1>3, <1>8, <2>1, <3>1 DEF ReopenLibrary, TypeOK
    <2>2. CASE ~Abort
      <3>1. RedetectGoto("userData") /\ lib' \in Places \cup {None}
        BY <1>8, <2>2 DEF ReopenLibrary, TypeOK, Redetections
      <3> QED
        BY <1>4, <1>8, <2>2, <3>1 DEF ReopenLibrary, TypeOK
    <2> QED
      BY <2>1, <2>2
  <1>9. CASE OpenUserData
    <2>1. redetect' \in Redetections /\ redetect'.by # None /\ redetect'.root # None
      BY <1>4, <1>9 DEF OpenUserData
    <2>2. /\ user' \in [root : Roots \cup {None}, volume : Places \cup {None}]
          /\ userCorrupt' \in BOOLEAN
      BY <1>9 DEF OpenUserData, TypeOK
    <2> QED
      BY <1>9, <2>1, <2>2 DEF OpenUserData, TypeOK
  <1>10. CASE ReopenUserData
    <2>1. CASE Abort /\ UNCHANGED <<user, userCorrupt>>
      BY <1>3, <1>10, <2>1 DEF ReopenUserData, TypeOK
    <2>2. CASE ~(Abort /\ UNCHANGED <<user, userCorrupt>>)
      <3>1. /\ RedetectGoto("commit") /\ userCorrupt' = FALSE
            /\ user' = [root |-> redetect.root, volume |-> VolumeAt(redetect.root)]
        BY <1>10, <2>2 DEF ReopenUserData
      <3>2. user' \in [root : Roots \cup {None}, volume : Places \cup {None}]
        BY <1>1, <1>10, <3>1, VolumeIsPlace DEF ReopenUserData
      <3> QED
        BY <1>4, <1>10, <2>2, <3>1, <3>2 DEF ReopenUserData, TypeOK
    <2> QED
      BY <2>1, <2>2
  <1>11. CASE Commit
    BY <1>1, <1>11, FinishType DEF Commit, TypeOK, Redetections
  <1>12. CASE BootLibrary
    <2>1. redetect' \in Redetections /\ redetect'.by # None /\ redetect'.root # None
      BY <1>1, <1>12, MountIdType DEF BootLibrary, Redetections, TypeOK
    <2>2. lib' \in Places \cup {None}
      BY <1>1, <1>12, VolumeIsPlace DEF BootLibrary
    <2> QED
      BY <1>12, <2>1, <2>2 DEF BootLibrary, TypeOK
  <1>13. CASE BootUserData
    <2>1. redetect' \in Redetections /\ redetect'.by # None /\ redetect'.root # None
      BY <1>4, <1>13 DEF BootUserData
    <2>2. /\ user' \in [root : Roots \cup {None}, volume : Places \cup {None}]
          /\ userCorrupt' \in BOOLEAN
      BY <1>1, <1>13, VolumeIsPlace DEF BootUserData
    <2> QED
      BY <1>13, <2>1, <2>2 DEF BootUserData, TypeOK
  <1>14. CASE BootSign
    <2>1. /\ redetect' \in Redetections /\ redetect'.pc = "idle"
          /\ request' \in [Requests -> {"idle", "redetect", "gate", "reset"}]
      BY <1>14, FinishType DEF BootSign
    <2>2. /\ storage' \in Roots /\ signature' \in Nat \cup {None}
          /\ mistaken' \in BOOLEAN /\ status' = "ready"
      BY <1>1, <1>14, MountIdType DEF BootSign
    <2> QED
      BY <1>14, <2>1, <2>2 DEF BootSign, TypeOK
  <1>15. CASE BootFails
    <2>1. /\ redetect' \in Redetections
          /\ redetect'.pc # "idle" => redetect'.by # None /\ redetect'.root # None
          /\ status' \in {"starting", "misconfigured", "configUnavailable"}
      BY <1>15, StartType DEF BootFails, TypeOK
    <2>2. user' \in [root : Roots \cup {None}, volume : Places \cup {None}]
      BY <1>15 DEF BootFails, NoUser
    <2>3. faults' \in 0 .. MaxFaults
      BY <1>2, <1>15 DEF BootFails, Fails, TypeOK
    <2> QED
      BY <1>15, <2>1, <2>2, <2>3 DEF BootFails, TypeOK
  <1> QED
    BY <1>5, <1>6, <1>7, <1>8, <1>9, <1>10, <1>11, <1>12, <1>13, <1>14, <1>15
       DEF RedetectStep, Boot

\* Requests that are dropped, pass their gate or repair user data.
LEMMA TypeRequest ==
    ASSUME TypeOK, NEW q \in Requests, Dropped(q) \/ Gate(q) \/ (q \in Repairs /\ Reset(q))
    PROVE  TypeOK'
  <1> USE DEF env, active, pools
  <1>1. CASE Dropped(q)
    <2>1. redetect' \in Redetections /\ redetect'.pc = "idle"
      BY <1>1 DEF Dropped, NoRedetect, Redetections
    <2>2. faults' \in 0 .. MaxFaults
      BY <1>1, StorageAssumption DEF Dropped, Fault, TypeOK, StorageAssumption
    <2> QED
      BY <1>1, <2>1, <2>2 DEF Dropped, TypeOK
  <1>2. CASE Gate(q)
    BY <1>2 DEF Gate, TypeOK
  <1>3. CASE Reset(q)
    <2>1. /\ bad' \subseteq Volumes /\ userCorrupt' \in BOOLEAN
          /\ user' \in [root : Roots \cup {None}, volume : Places \cup {None}]
      <3>1. CASE user.root = None
        BY <1>3, <3>1 DEF Reset, TypeOK
      <3>2. CASE user.root # None
        <4>1. VolumeAt(user.root) \in Places
          BY <3>2, VolumeIsPlace DEF TypeOK
        <4>2. user' = [user EXCEPT !.volume = VolumeAt(user.root)]
          BY <1>3, <3>2 DEF Reset
        <4>3. user' \in [root : Roots \cup {None}, volume : Places \cup {None}]
          BY <4>1, <4>2 DEF TypeOK
        <4> QED
          BY <1>3, <3>2, <4>3 DEF Reset, TypeOK
      <3> QED
        BY <3>1, <3>2
    <2> QED
      BY <1>3, <2>1 DEF Reset, TypeOK
  <1> QED
    BY <1>1, <1>2, <1>3

\* The steps of a scan.
LEMMA TypeScan ==
    ASSUME TypeOK, NEW s \in Scans, Capture(s) \/ Walk(s) \/ Check(s) \/ Write(s)
    PROVE  TypeOK'
  <1> USE DEF env, active, pools
  <1>1. NoScan \in ScanStates /\ NoScan.pc = "idle"
    BY DEF NoScan, ScanStates
  <1>2. ASSUME NEW x \in ScanStates, x.pc # "idle" => x.root # None,
               scan' = [scan EXCEPT ![s] = x],
               UNCHANGED <<env, faults, active, status, generation, pools, redetect, request>>
        PROVE  TypeOK'
    BY <1>2 DEF TypeOK
  <1>3. CASE Capture(s)
    <2> DEFINE x == [pc |-> "walk", root |-> storage, generation |-> generation,
                     volume |-> None, lib |-> lib, settled |-> redetect.pc \in {"idle", "probe"}]
    <2>1. x \in ScanStates /\ x.root # None
      BY <1>3 DEF Capture, ScanStates, TypeOK
    <2> QED
      BY <1>2, <1>3, <2>1 DEF Capture
  <1>4. CASE Walk(s)
    <2> DEFINE x == [scan[s] EXCEPT !.pc = "walked", !.volume = VolumeAt(scan[s].root)]
    <2>1. scan[s] \in ScanStates /\ scan[s].root \in Roots
      BY <1>4 DEF Walk, TypeOK, ScanStates
    <2>2. x \in ScanStates /\ x.root # None
      BY <2>1, VolumeIsPlace, StorageAssumption DEF ScanStates, StorageAssumption
    <2>3. scan' = [scan EXCEPT ![s] = x]
      BY <1>4 DEF Walk, TypeOK
    <2> QED
      BY <1>2, <1>4, <2>2, <2>3 DEF Walk
  <1>5. CASE Check(s)
    <2> DEFINE x == [scan[s] EXCEPT !.pc = "write"]
    <2>1. scan[s] \in ScanStates /\ scan[s].root # None
      BY <1>5 DEF Check, TypeOK
    <2>2. x \in ScanStates /\ x.root # None
      BY <2>1 DEF ScanStates
    <2>3. scan' = [scan EXCEPT ![s] = x] \/ scan' = [scan EXCEPT ![s] = NoScan]
      BY <1>5 DEF Check, TypeOK
    <2> QED
      BY <1>1, <1>2, <1>5, <2>2, <2>3 DEF Check
  <1>6. CASE Write(s)
    BY <1>1, <1>2, <1>6 DEF Write
  <1> QED
    BY <1>3, <1>4, <1>5, <1>6

\* Every step keeps the types.
LEMMA TypeStep == TypeOK /\ [Next]_vars => TypeOK'
  <1> SUFFICES ASSUME TypeOK, [Next]_vars PROVE TypeOK'
    OBVIOUS
  <1>1. CASE Environment
    BY <1>1, TypeEnvironment
  <1>2. CASE Notified \/ Retry
    BY <1>2, TypeRedetect DEF Notified, Retry, TypeOK
  <1>3. CASE RedetectStep
    BY <1>3, TypeActivation
  <1>4. ASSUME NEW q \in Requests, Ask(q) PROVE TypeOK'
    BY <1>4, TypeRedetect DEF Ask, TypeOK
  <1>5. ASSUME NEW q \in Requests, Dropped(q) \/ Gate(q) PROVE TypeOK'
    BY <1>5, TypeRequest
  <1>6. ASSUME NEW q \in Repairs, Reset(q) PROVE TypeOK'
    BY <1>6, TypeRequest, StorageAssumption DEF StorageAssumption
  <1>7. ASSUME NEW s \in Scans, Capture(s) \/ Walk(s) \/ Check(s) \/ Write(s) PROVE TypeOK'
    BY <1>7, TypeScan
  <1>8. CASE UNCHANGED vars
    BY <1>8 DEF vars, env, active, pools, TypeOK, VolumeAt
  <1> QED
    BY <1>1, <1>2, <1>3, <1>4, <1>5, <1>6, <1>7, <1>8 DEF Next

\* Every reachable state is well typed, for any roots, media, requests, scans
\* and bounds: redetect_storage always knows whom and what it works for.
THEOREM TypeCorrect == Spec => []TypeOK
  BY TypeInit, TypeStep, PTL DEF Spec

-----------------------------------------------------------------------------
\* The startup, and the part of an activation that moves the pools.
Moving == redetect.pc \notin {"idle", "probe"}

\* GenerationGuardsScans made inductive: no scan has a generation of the
\* future, and none that started outside an activation still has the current
\* generation once an activation moves the pools.
GuardInv ==
    \A s \in Scans :
        scan[s].settled =>
            /\ scan[s].generation <= generation
            /\ scan[s].generation = generation => lib = scan[s].lib /\ ~Moving

\* Steps that neither touch the library nor enter the moving part.
LEMMA GuardFrame ==
    ASSUME TypeOK, TypeOK', GuardInv, scan' = scan, lib' = lib, Moving' => Moving,
           generation' >= generation
    PROVE  GuardInv'
  <1> SUFFICES ASSUME NEW s \in Scans, scan[s].settled
               PROVE  /\ scan[s].generation <= generation'
                      /\ scan[s].generation = generation' => lib = scan[s].lib /\ ~Moving'
    BY DEF GuardInv
  <1>1. scan[s].generation \in Nat /\ generation \in Nat /\ generation' \in Nat
    BY DEF TypeOK, ScanStates
  <1> QED
    BY <1>1 DEF GuardInv

\* Whatever happens inside the moving part, no settled scan is current.
LEMMA GuardMoving ==
    ASSUME GuardInv, Moving, scan' = scan, generation' = generation
    PROVE  GuardInv'
  BY DEF GuardInv

\* The first part of a redetection cancels scans or leaves them alone.
LEMMA GuardRedetect ==
    ASSUME TypeOK, TypeOK', GuardInv, NEW w, Redetect(w)
    PROVE  GuardInv'
  <1>1. scan' = scan /\ lib' = lib
    BY DEF Redetect, pools
  <1>2. generation' >= generation
    BY DEF Redetect, Cancel, TypeOK
  <1>3. ~Moving'
    <2>1. \/ redetect' = NoRedetect
          \/ redetect' = [NoRedetect EXCEPT !.pc = "probe", !.by = w, !.root = known',
                                            !.signature = mount[known'].id]
      BY DEF Redetect, Finish
    <2>2. \/ redetect' = NoRedetect
          \/ redetect' = [pc |-> "probe", by |-> w, root |-> known',
                          signature |-> mount[known'].id, volume |-> None]
      BY <2>1 DEF NoRedetect
    <2> QED
      BY <2>2 DEF NoRedetect, Moving
  <1> QED
    BY <1>1, <1>2, <1>3, GuardFrame

\* The generation moves when the activation enters its moving part.
LEMMA GuardActivation ==
    ASSUME TypeOK, TypeOK', GuardInv, RedetectStep
    PROVE  GuardInv'
  <1>1. CASE ProbeFails
    <2>1. scan' = scan /\ lib' = lib
      BY <1>1 DEF ProbeFails, pools
    <2>2. generation' >= generation
      BY <1>1 DEF ProbeFails, Cancel, TypeOK
    <2>3. ~Moving'
      BY <1>1 DEF ProbeFails, Finish, NoRedetect, Moving
    <2> QED
      BY <2>1, <2>2, <2>3, GuardFrame
  <1>2. CASE ProbeSucceeds
    <2> SUFFICES ASSUME NEW s \in Scans, scan[s].settled
                 PROVE  /\ scan[s].generation <= generation'
                        /\ scan[s].generation # generation'
      BY <1>2 DEF ProbeSucceeds, GuardInv
    <2>1. scan[s].generation \in Nat /\ generation \in Nat /\ generation' = generation + 1
      BY <1>2 DEF ProbeSucceeds, TypeOK, ScanStates
    <2> QED
      BY <2>1 DEF GuardInv
  <1>3. CASE Prepare \/ ReopenLibrary \/ OpenUserData \/ ReopenUserData \/ Commit
    <2>1. Moving /\ scan' = scan /\ generation' = generation
      BY <1>3 DEF Prepare, ReopenLibrary, OpenUserData, ReopenUserData, Commit, Moving
    <2> QED
      BY <2>1, GuardMoving
  <1>4. CASE Boot
    <2>1. Moving /\ scan' = scan /\ generation' = generation
      BY <1>4 DEF Boot, BootLibrary, BootUserData, BootSign, BootFails, Moving
    <2> QED
      BY <2>1, GuardMoving
  <1> QED
    BY <1>1, <1>2, <1>3, <1>4 DEF RedetectStep

\* A scan that starts outside an activation sees the library as it is.
LEMMA GuardScan ==
    ASSUME TypeOK, GuardInv, NEW s \in Scans, Capture(s) \/ Walk(s) \/ Check(s) \/ Write(s)
    PROVE  GuardInv'
  <1>1. /\ generation' = generation /\ lib' = lib /\ redetect' = redetect
        /\ generation \in Nat
    BY DEF Capture, Walk, Check, Write, pools, TypeOK
  <1>2. \A t \in Scans : t # s => scan'[t] = scan[t]
    BY DEF Capture, Walk, Check, Write, TypeOK
  <1>3. \/ scan'[s].settled => /\ scan'[s].generation = generation
                               /\ scan'[s].lib = lib /\ ~Moving
        \/ /\ scan'[s].settled => scan[s].settled
           /\ scan'[s].generation = scan[s].generation /\ scan'[s].lib = scan[s].lib
    <2>1. CASE Capture(s)
      BY <2>1 DEF Capture, TypeOK, Moving
    <2>2. CASE Walk(s)
      BY <2>2 DEF Walk, TypeOK, ScanStates
    <2>3. CASE Check(s)
      BY <2>3 DEF Check, NoScan, TypeOK, ScanStates
    <2>4. CASE Write(s)
      BY <2>4 DEF Write, NoScan, TypeOK
    <2> QED
      BY <2>1, <2>2, <2>3, <2>4
  <1> QED
    BY <1>1, <1>2, <1>3 DEF GuardInv, Moving

\* GuardInv is inductive beside the types.
LEMMA GuardStep == TypeOK /\ TypeOK' /\ GuardInv /\ [Next]_vars => GuardInv'
  <1> SUFFICES ASSUME TypeOK, TypeOK', GuardInv, [Next]_vars PROVE GuardInv'
    OBVIOUS
  <1> USE DEF pools
  <1>0. generation \in Nat
    BY DEF TypeOK
  <1>1. CASE Environment
    <2>1. scan' = scan /\ lib' = lib /\ redetect' = redetect /\ generation' = generation
      BY <1>1 DEF Environment, Mount, Unmount, EditConfig, FlagCorrupt
    <2> QED
      BY <1>0, <2>1, GuardFrame DEF Moving
  <1>2. CASE Notified \/ Retry
    BY <1>2, GuardRedetect DEF Notified, Retry
  <1>3. CASE RedetectStep
    BY <1>3, GuardActivation
  <1>4. ASSUME NEW q \in Requests, Ask(q) PROVE GuardInv'
    BY <1>4, GuardRedetect DEF Ask
  <1>5. ASSUME NEW q \in Requests, Dropped(q) PROVE GuardInv'
    <2>1. scan' = scan /\ lib' = lib /\ ~Moving' /\ generation' = generation
      BY <1>5 DEF Dropped, NoRedetect, Moving
    <2> QED
      BY <1>0, <2>1, GuardFrame
  <1>6. ASSUME NEW q \in Requests, Gate(q) \/ Reset(q) PROVE GuardInv'
    <2>1. scan' = scan /\ lib' = lib /\ redetect' = redetect /\ generation' = generation
      BY <1>6 DEF Gate, Reset
    <2> QED
      BY <1>0, <2>1, GuardFrame DEF Moving
  <1>7. ASSUME NEW s \in Scans, Capture(s) \/ Walk(s) \/ Check(s) \/ Write(s) PROVE GuardInv'
    BY <1>7, GuardScan
  <1>8. CASE UNCHANGED vars
    BY <1>8 DEF vars, GuardInv, Moving
  <1>9. Repairs \subseteq Requests
    BY StorageAssumption DEF StorageAssumption
  <1> QED
    BY <1>1, <1>2, <1>3, <1>4, <1>5, <1>6, <1>7, <1>8, <1>9 DEF Next

\* A scan that started outside an activation and passes
\* ensure_storage_generation sees the library it started with, for any number
\* of scans, requests and media, whatever fails or is dropped.
THEOREM ScansAreGuarded == Spec => []GenerationGuardsScans
  <1>1. Init => GuardInv
    BY DEF Init, NoScan, GuardInv
  <1>2. GuardInv => GenerationGuardsScans
    BY DEF GuardInv, GenerationGuardsScans
  <1> QED
    BY <1>1, <1>2, GuardStep, TypeCorrect, PTL DEF Spec

-----------------------------------------------------------------------------
\* Mount i is the one in place at r.
InPlace(r, i) == r # None /\ mount[r] # None /\ mount[r].id = i

\* Ids of mounts come from the past, those the process remembers included: a
\* mount that comes later is never taken for one of them.
IdsArePast ==
    /\ \A r \in Roots : mount[r] # None => mount[r].id <= moves
    /\ signature # None => signature <= moves
    /\ redetect.signature # None => redetect.signature \in Nat /\ redetect.signature <= moves

\* While the pools move the status does not say Ready.
MovingIsActivating == Moving => status # "ready"

\* How far an activation has come, as long as the mount it started on is in
\* place: the storage id it read is that of the medium, then the library is
\* that medium's, then user data is on it or flagged; and how far a startup has,
\* as long as the mount whose library it opened is in place.
Progress ==
    InPlace(redetect.root, redetect.signature) =>
        /\ redetect.pc \in {"library", "userData", "user", "commit"} =>
              redetect.volume = mount[redetect.root].volume
        /\ redetect.pc \in {"userData", "user", "commit"} => lib = redetect.volume
        /\ redetect.pc \in {"bootUser", "bootSign"} => lib = mount[redetect.root].volume
        /\ redetect.pc \in {"commit", "bootSign"} =>
              \/ userCorrupt
              \/ user = [root |-> redetect.root, volume |-> mount[redetect.root].volume]

ReadyInv == IdsArePast /\ MovingIsActivating /\ Progress /\ ReadyIsConsistent

\* A process that starts shows nothing yet.
LEMMA ReadyInit == Init => ReadyInv
  <1> SUFFICES ASSUME Init PROVE ReadyInv
    OBVIOUS
  <1>1. /\ status # "ready" /\ redetect.signature = None
        /\ redetect.pc \in {"idle", "bootLibrary"}
    BY StartType DEF Init
  <1>2. \A r \in Roots : mount[r] # None => mount[r].id = 0
    BY DEF Init
  <1>3. IdsArePast
    BY <1>1, <1>2 DEF Init, IdsArePast
  <1> QED
    BY <1>1, <1>3 DEF ReadyInv, MovingIsActivating, Progress, ReadyIsConsistent

\* A change of the mount table or of replay.cfg: a mount that is in place
\* afterwards under a remembered id was in place before.
LEMMA ReadyMove ==
    ASSUME TypeOK, ReadyInv,
           \/ \E r \in Roots, v \in Volumes : Mount(r, v)
           \/ \E r \in Roots : Unmount(r)
           \/ \E r \in Roots \cup {None} : EditConfig(r)
    PROVE  ReadyInv'
  <1>1. /\ moves \in Nat /\ moves' = moves + 1
        /\ UNCHANGED <<storage, signature, mistaken, status, lib, user, userCorrupt, redetect>>
    BY StorageAssumption
       DEF Mount, Unmount, EditConfig, Move, active, pools, TypeOK, StorageAssumption
  <1>2. \A r \in Roots :
            mount'[r] = mount[r] \/ mount'[r] = None \/ mount'[r].id = moves'
    <2> DEFINE Old(r) == mount'[r] = mount[r] \/ mount'[r] = None \/ mount'[r].id = moves'
    <2>1. ASSUME NEW r \in Roots, NEW v \in Volumes, Mount(r, v) PROVE \A t \in Roots : Old(t)
      BY <2>1 DEF Mount, TypeOK
    <2>2. ASSUME NEW r \in Roots, Unmount(r) PROVE \A t \in Roots : Old(t)
      BY <2>2 DEF Unmount, TypeOK
    <2>3. ASSUME NEW r \in Roots \cup {None}, EditConfig(r) PROVE \A t \in Roots : Old(t)
      BY <2>3 DEF EditConfig
    <2> QED
      BY <2>1, <2>2, <2>3
  <1>3. \A r \in Roots, i \in Nat :
            i <= moves /\ InPlace(r, i)' => InPlace(r, i) /\ mount'[r] = mount[r]
    BY <1>1, <1>2 DEF InPlace
  <1>4. IdsArePast'
    <2>1. \A r \in Roots : mount'[r] # None => mount'[r].id <= moves'
      <3> SUFFICES ASSUME NEW r \in Roots, mount'[r] # None PROVE mount'[r].id <= moves'
        OBVIOUS
      <3>1. mount[r] # None => mount[r].id \in Nat /\ mount[r].id <= moves
        BY DEF ReadyInv, IdsArePast, TypeOK
      <3> QED
        BY <1>1, <1>2, <3>1
    <2>2. signature # None => signature \in Nat /\ signature <= moves
      BY DEF ReadyInv, IdsArePast, TypeOK
    <2>3. redetect.signature # None => redetect.signature \in Nat /\ redetect.signature <= moves
      BY DEF ReadyInv, IdsArePast
    <2> QED
      BY <1>1, <2>1, <2>2, <2>3 DEF IdsArePast
  <1>5. MovingIsActivating'
    BY <1>1 DEF ReadyInv, MovingIsActivating, Moving
  <1>6. Progress'
    <2>1. CASE redetect.pc = "idle"
      BY <1>1, <2>1 DEF Progress
    <2>2. CASE redetect.pc # "idle"
      <3>1. redetect.root \in Roots
        BY <2>2 DEF TypeOK, Redetections
      <3>2. CASE redetect.signature = None
        <4>1. mount'[redetect.root] # None => mount'[redetect.root].id \in Nat
          BY <1>1, <1>2, <3>1 DEF TypeOK
        <4> QED
          BY <1>1, <3>2, <4>1, StorageAssumption DEF Progress, InPlace, StorageAssumption
      <3>3. CASE redetect.signature # None
        <4>1. redetect.signature \in Nat /\ redetect.signature <= moves
          BY <3>3 DEF ReadyInv, IdsArePast
        <4> QED
          BY <1>1, <1>3, <3>1, <4>1 DEF ReadyInv, Progress, InPlace
      <3> QED
        BY <3>2, <3>3
    <2> QED
      BY <2>1, <2>2
  <1>7. ReadyIsConsistent'
    <2> SUFFICES ASSUME status = "ready", redetect.pc \in {"idle", "probe"}
                 PROVE  /\ storage # None
                        /\ ~mistaken /\ mount'[storage] # None /\ mount'[storage].id = signature =>
                              /\ lib = mount'[storage].volume
                              /\ \/ userCorrupt
                                 \/ user = [root |-> storage, volume |-> mount'[storage].volume]
      BY <1>1 DEF ReadyIsConsistent
    <2>1. storage \in Roots
      BY DEF ReadyInv, ReadyIsConsistent, TypeOK
    <2>2. CASE signature = None
      <3>1. mount'[storage] # None => mount'[storage].id \in Nat
        BY <1>1, <1>2, <2>1 DEF TypeOK
      <3> QED
        BY <2>1, <2>2, <3>1, StorageAssumption DEF StorageAssumption
    <2>3. CASE signature # None
      <3>1. signature \in Nat /\ signature <= moves
        BY <2>3 DEF TypeOK, ReadyInv, IdsArePast
      <3>2. InPlace(storage, signature)' => mount'[storage] = mount[storage]
        BY <1>1, <1>3, <2>1, <3>1
      <3> QED
        BY <1>1, <2>1, <3>2, StorageAssumption
           DEF InPlace, ReadyInv, ReadyIsConsistent, StorageAssumption
    <2> QED
      BY <2>2, <2>3
  <1> QED
    BY <1>4, <1>5, <1>6, <1>7 DEF ReadyInv

\* Steps that leave the activation alone; user data may be flagged.
LEMMA ReadyFrame ==
    ASSUME ReadyInv, userCorrupt => userCorrupt',
           UNCHANGED <<mount, moves, signature, mistaken, storage, status, lib, user, redetect>>
    PROVE  ReadyInv'
  BY DEF ReadyInv, IdsArePast, MovingIsActivating, Moving, Progress, InPlace, ReadyIsConsistent

\* A redetection that ends without Ready, or before it has moved anything.
LEMMA ReadyEnd ==
    ASSUME ReadyInv, redetect'.pc = "idle", redetect'.signature = None,
           UNCHANGED <<mount, moves, signature, mistaken, storage>>,
           \/ status' # "ready"
           \/ ~Moving /\ UNCHANGED <<status, lib, user, userCorrupt>>
    PROVE  ReadyInv'
  <1>1. IdsArePast' /\ MovingIsActivating' /\ Progress'
    BY DEF ReadyInv, IdsArePast, MovingIsActivating, Moving, Progress
  <1>2. ReadyIsConsistent'
    BY DEF ReadyInv, Moving, ReadyIsConsistent
  <1> QED
    BY <1>1, <1>2 DEF ReadyInv

\* The first part of a redetection.
LEMMA ReadyRedetect ==
    ASSUME TypeOK, ReadyInv, NEW w, Redetect(w)
    PROVE  ReadyInv'
  <1>0. /\ ~Moving
        /\ UNCHANGED <<mount, moves, signature, mistaken, storage, lib, user, userCorrupt>>
    BY DEF Redetect, Moving, pools
  <1>1. CASE Finish(w)
    <2>1. redetect'.pc = "idle" /\ redetect'.signature = None
      BY <1>1 DEF Finish, NoRedetect
    <2>2. status' = status \/ status' = "misconfigured"
      BY DEF Redetect
    <2> QED
      BY <1>0, <2>1, <2>2, ReadyEnd
  <1>2. CASE ~Finish(w)
    <2>1. /\ known' \in Roots /\ mount[known'] # None /\ status' = status
          /\ redetect' = [NoRedetect EXCEPT !.pc = "probe", !.by = w, !.root = known',
                                            !.signature = mount[known'].id]
      BY <1>2 DEF Redetect, TypeOK
    <2>2. redetect' = [pc |-> "probe", by |-> w, root |-> known',
                       signature |-> mount[known'].id, volume |-> None]
      BY <2>1 DEF NoRedetect
    <2>3. redetect'.pc = "probe" /\ redetect'.signature = mount[known'].id
      BY <2>2
    <2>4. mount[known'].id \in Nat /\ mount[known'].id <= moves
      BY <2>1 DEF TypeOK, ReadyInv, IdsArePast
    <2>5. IdsArePast'
      BY <1>0, <2>3, <2>4 DEF ReadyInv, IdsArePast
    <2>6. MovingIsActivating' /\ Progress'
      BY <2>3 DEF MovingIsActivating, Moving, Progress
    <2>7. ReadyIsConsistent'
      BY <1>0, <2>1, <2>3 DEF ReadyInv, Moving, ReadyIsConsistent
    <2> QED
      BY <2>5, <2>6, <2>7 DEF ReadyInv
  <1> QED
    BY <1>1, <1>2

\* An activation that goes on under the same lock: Progress is what is left.
LEMMA ReadyGoOn ==
    ASSUME TypeOK, ReadyInv, redetect.pc # "idle", UNCHANGED <<mount, moves, signature>>,
           redetect'.pc # "idle", redetect'.signature = redetect.signature,
           status' # "ready", Progress'
    PROVE  ReadyInv'
  BY DEF ReadyInv, IdsArePast, MovingIsActivating, ReadyIsConsistent

\* A redetection that an error ends.
LEMMA ReadyAbort ==
    ASSUME ReadyInv, Abort, UNCHANGED <<mount, moves, signature, mistaken, storage>>
    PROVE  ReadyInv'
  <1>1. redetect'.pc = "idle" /\ redetect'.signature = None /\ status' # "ready"
    BY DEF Abort, Finish, NoRedetect
  <1> QED
    BY <1>1, ReadyEnd

\* The steps of a startup.  The mount it samples at the end is the one whose
\* library it opened, or it is mistaken.
LEMMA ReadyBoot == ASSUME TypeOK, ReadyInv, Boot PROVE ReadyInv'
  <1> USE DEF env, active, pools
  <1>0. redetect \in Redetections /\ redetect.root \in Roots /\ redetect.root # None
    BY DEF TypeOK, Redetections, Boot, BootLibrary, BootUserData, BootSign, BootFails
  <1>1. Moving /\ status # "ready"
    BY DEF Boot, BootLibrary, BootUserData, BootSign, BootFails, Moving, ReadyInv, MovingIsActivating
  <1>2. CASE BootLibrary
    <2>1. /\ redetect'.pc = "bootUser" /\ redetect'.signature = MountId(redetect.root)
          /\ redetect'.root = redetect.root
      BY <1>0, <1>2 DEF BootLibrary, Redetections
    <2>2. IdsArePast'
      BY <1>0, <1>2, <2>1, MountIdType DEF BootLibrary, ReadyInv, IdsArePast, TypeOK
    <2>3. Progress'
      BY <1>0, <1>2, <2>1 DEF BootLibrary, Progress, InPlace, VolumeAt
    <2>4. status' # "ready"
      BY <1>1, <1>2 DEF BootLibrary
    <2> QED
      BY <2>2, <2>3, <2>4 DEF ReadyInv, MovingIsActivating, ReadyIsConsistent
  <1>3. CASE BootUserData
    <2>1. /\ redetect'.pc = "bootSign" /\ redetect'.signature = redetect.signature
          /\ redetect'.root = redetect.root
      BY <1>0, <1>3 DEF BootUserData, RedetectGoto, Redetections
    <2>2. IdsArePast'
      BY <1>3, <2>1 DEF BootUserData, ReadyInv, IdsArePast
    <2>3. Progress'
      BY <1>0, <1>3, <2>1 DEF BootUserData, ReadyInv, Progress, InPlace, VolumeAt
    <2>4. status' # "ready"
      BY <1>1, <1>3 DEF BootUserData
    <2> QED
      BY <2>2, <2>3, <2>4 DEF ReadyInv, MovingIsActivating, ReadyIsConsistent
  <1>4. CASE BootSign
    <2>1. /\ redetect.pc = "bootSign" /\ redetect'.pc = "idle" /\ redetect'.signature = None
          /\ storage' = redetect.root /\ signature' = MountId(redetect.root)
          /\ ~mistaken' => signature' = redetect.signature
          /\ UNCHANGED <<mount, moves, lib, user, userCorrupt>>
      BY <1>4 DEF BootSign, Finish, NoRedetect
    <2>2. IdsArePast'
      BY <1>0, <2>1, MountIdType DEF ReadyInv, IdsArePast, TypeOK
    <2>3. MovingIsActivating' /\ Progress'
      BY <2>1 DEF MovingIsActivating, Moving, Progress
    <2>4. ReadyIsConsistent'
      BY <1>0, <2>1 DEF ReadyInv, Progress, InPlace, ReadyIsConsistent
    <2> QED
      BY <2>2, <2>3, <2>4 DEF ReadyInv
  <1>5. CASE BootFails
    <2>1. /\ status' # "ready" /\ redetect'.signature = None
          /\ redetect'.pc \in {"idle", "bootLibrary"}
          /\ UNCHANGED <<mount, moves, signature, storage, mistaken>>
      BY <1>5, StartType DEF BootFails, TypeOK
    <2>2. IdsArePast'
      BY <2>1 DEF ReadyInv, IdsArePast
    <2> QED
      BY <2>1, <2>2 DEF ReadyInv, MovingIsActivating, Progress, ReadyIsConsistent
  <1> QED
    BY <1>2, <1>3, <1>4, <1>5 DEF Boot

\* The steps of an activation.
LEMMA ReadyActivation == ASSUME TypeOK, ReadyInv, RedetectStep PROVE ReadyInv'
  <1> USE DEF env, active, pools
  <1>0. redetect \in Redetections /\ (redetect.pc # "idle" => redetect.root \in Roots)
    BY DEF TypeOK, Redetections
  <1>1. CASE ProbeFails
    <2>1. redetect'.pc = "idle" /\ redetect'.signature = None /\ status' # "ready"
      BY <1>1 DEF ProbeFails, Finish, NoRedetect
    <2> QED
      BY <1>1, <2>1, ReadyEnd DEF ProbeFails
  <1>2. CASE ProbeSucceeds
    <2>1. redetect'.pc = "prepare" /\ redetect'.signature = redetect.signature
      BY <1>0, <1>2 DEF ProbeSucceeds, RedetectGoto, Redetections
    <2>2. Progress'
      BY <2>1 DEF Progress
    <2> QED
      BY <1>2, <2>1, <2>2, ReadyGoOn DEF ProbeSucceeds
  <1>3. CASE Prepare
    <2>1. CASE Abort
      BY <1>3, <2>1, ReadyAbort DEF Prepare
    <2>2. CASE ~Abort
      <3>1. /\ redetect' = [redetect EXCEPT !.pc = "library",
                                            !.volume = VolumeAt(redetect.root)]
            /\ status' = status /\ mount' = mount /\ moves' = moves /\ signature' = signature
        BY <1>3, <2>2 DEF Prepare
      <3>2. /\ redetect'.pc = "library" /\ redetect'.signature = redetect.signature
            /\ redetect'.root = redetect.root /\ redetect'.volume = VolumeAt(redetect.root)
        BY <1>0, <3>1 DEF Redetections
      <3>3. Progress'
        BY <3>1, <3>2 DEF Progress, InPlace, VolumeAt
      <3>4. status' # "ready" /\ redetect.pc # "idle"
        BY <1>3, <3>1 DEF Prepare, ReadyInv, MovingIsActivating, Moving
      <3> QED
        BY <3>1, <3>2, <3>3, <3>4, ReadyGoOn
    <2> QED
      BY <2>1, <2>2
  <1>4. CASE ReopenLibrary
    <2>1. CASE Abort
      BY <1>4, <2>1, ReadyAbort DEF ReopenLibrary
    <2>2. CASE ~Abort
      <3>1. /\ RedetectGoto("userData") /\ lib' = redetect.volume
            /\ status' = status /\ mount' = mount /\ moves' = moves /\ signature' = signature
        BY <1>4, <2>2 DEF ReopenLibrary
      <3>2. /\ redetect'.pc = "userData" /\ redetect'.signature = redetect.signature
            /\ redetect'.root = redetect.root /\ redetect'.volume = redetect.volume
        BY <1>0, <3>1 DEF RedetectGoto, Redetections
      <3>3. Progress'
        BY <1>4, <3>1, <3>2 DEF ReopenLibrary, ReadyInv, Progress, InPlace
      <3>4. status' # "ready" /\ redetect.pc # "idle"
        BY <1>4, <3>1 DEF ReopenLibrary, ReadyInv, MovingIsActivating, Moving
      <3> QED
        BY <3>1, <3>2, <3>3, <3>4, ReadyGoOn
    <2> QED
      BY <2>1, <2>2
  <1>5. CASE OpenUserData
    <2>1. \/ RedetectGoto("user")
          \/ RedetectGoto("commit") /\ userCorrupt'
      BY <1>5 DEF OpenUserData
    <2>2. /\ redetect'.signature = redetect.signature
          /\ redetect'.root = redetect.root /\ redetect'.volume = redetect.volume
          /\ redetect'.pc = "user" \/ (redetect'.pc = "commit" /\ userCorrupt')
      BY <1>0, <2>1 DEF RedetectGoto, Redetections
    <2>3. Progress'
      BY <1>5, <2>2 DEF OpenUserData, ReadyInv, Progress, InPlace
    <2>4. status' # "ready"
      BY <1>5 DEF OpenUserData, ReadyInv, MovingIsActivating, Moving
    <2> QED
      BY <1>5, <2>2, <2>3, <2>4, ReadyGoOn DEF OpenUserData
  <1>6. CASE ReopenUserData
    <2>1. CASE Abort
      BY <1>6, <2>1, ReadyAbort DEF ReopenUserData
    <2>2. CASE ~Abort
      <3>1. /\ RedetectGoto("commit") /\ lib' = lib
            /\ user' = [root |-> redetect.root, volume |-> VolumeAt(redetect.root)]
            /\ status' = status /\ mount' = mount /\ moves' = moves /\ signature' = signature
        BY <1>6, <2>2 DEF ReopenUserData
      <3>2. /\ redetect'.pc = "commit" /\ redetect'.signature = redetect.signature
            /\ redetect'.root = redetect.root /\ redetect'.volume = redetect.volume
        BY <1>0, <3>1 DEF RedetectGoto, Redetections
      <3>3. Progress'
        BY <1>6, <3>1, <3>2 DEF ReopenUserData, ReadyInv, Progress, InPlace, VolumeAt
      <3>4. status' # "ready" /\ redetect.pc # "idle"
        BY <1>6, <3>1 DEF ReopenUserData, ReadyInv, MovingIsActivating, Moving
      <3> QED
        BY <3>1, <3>2, <3>3, <3>4, ReadyGoOn
    <2> QED
      BY <2>1, <2>2
  <1>7. CASE Commit
    <2>1. /\ redetect.pc = "commit" /\ redetect'.pc = "idle" /\ redetect.root \in Roots
          /\ redetect'.signature = None
          /\ storage' = redetect.root /\ signature' = redetect.signature
          /\ UNCHANGED <<mount, moves, lib, user, userCorrupt>>
      BY <1>0, <1>7 DEF Commit, Finish, NoRedetect
    <2>2. IdsArePast' /\ MovingIsActivating' /\ Progress'
      BY <2>1 DEF ReadyInv, IdsArePast, MovingIsActivating, Moving, Progress
    <2>3. redetect.root # None
      BY <2>1, StorageAssumption DEF StorageAssumption
    <2>4. ReadyIsConsistent'
      BY <2>1, <2>3 DEF ReadyInv, Progress, InPlace, ReadyIsConsistent
    <2> QED
      BY <2>2, <2>4 DEF ReadyInv
  <1>8. CASE Boot
    BY <1>8, ReadyBoot
  <1> QED
    BY <1>1, <1>2, <1>3, <1>4, <1>5, <1>6, <1>7, <1>8 DEF RedetectStep

\* ReadyInv is inductive beside the types when nobody repairs user data: a
\* repair works on the pool's path, which an invalid header leaves behind.
LEMMA ReadyStep ==
    Repairs = {} /\ TypeOK /\ ReadyInv /\ [Next]_vars => ReadyInv'
  <1> SUFFICES ASSUME Repairs = {}, TypeOK, ReadyInv, [Next]_vars PROVE ReadyInv'
    OBVIOUS
  <1> USE DEF env, active, pools
  <1>1. CASE Environment
    <2>1. CASE FlagCorrupt
      BY <2>1, ReadyFrame DEF FlagCorrupt
    <2>2. CASE ~FlagCorrupt
      BY <1>1, <2>2, ReadyMove DEF Environment
    <2> QED
      BY <2>1, <2>2
  <1>2. CASE Notified \/ Retry
    BY <1>2, ReadyRedetect DEF Notified, Retry
  <1>3. CASE RedetectStep
    BY <1>3, ReadyActivation
  <1>4. ASSUME NEW q \in Requests, Ask(q) PROVE ReadyInv'
    BY <1>4, ReadyRedetect DEF Ask
  <1>5. ASSUME NEW q \in Requests, Dropped(q) PROVE ReadyInv'
    <2>1. redetect'.pc = "idle" /\ redetect'.signature = None
      BY <1>5 DEF Dropped, NoRedetect
    <2>2. Moving => status' # "ready"
      BY <1>5 DEF Dropped, ReadyInv, MovingIsActivating
    <2> QED
      BY <1>5, <2>1, <2>2, ReadyEnd DEF Dropped
  <1>6. ASSUME NEW q \in Requests, Gate(q) PROVE ReadyInv'
    BY <1>6, ReadyFrame DEF Gate
  <1>7. ASSUME NEW s \in Scans, Capture(s) \/ Walk(s) \/ Check(s) \/ Write(s) PROVE ReadyInv'
    BY <1>7, ReadyFrame DEF Capture, Walk, Check, Write
  <1>8. CASE UNCHANGED vars
    BY <1>8, ReadyFrame DEF vars
  <1> QED
    BY <1>1, <1>2, <1>3, <1>4, <1>5, <1>6, <1>7, <1>8 DEF Next

\* Ready means that both databases belong to the activated medium, for any
\* number of roots, media, requests and scans, however often media are swapped
\* and wherever AppState::new or redetect_storage fails or is dropped.  Repairs
\* are excluded: they act on the path that reopen_user_data_or_mark_corrupt left
\* in the pool.  So is a process whose medium was replaced between the opening
\* of the library and the sample of the mount at its start.
THEOREM ReadyAgrees == Repairs = {} /\ Spec => []ReadyIsConsistent
  <1> SUFFICES ASSUME Repairs = {} PROVE Spec => []ReadyIsConsistent
    OBVIOUS
  <1>1. TypeOK /\ ReadyInv /\ [Next]_vars => ReadyInv'
    BY ReadyStep
  <1>2. ReadyInv => ReadyIsConsistent
    BY DEF ReadyInv
  <1> QED
    BY <1>1, <1>2, ReadyInit, TypeCorrect, PTL DEF Spec
=============================================================================
