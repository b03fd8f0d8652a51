---------------------------- MODULE DbPoolProofs ----------------------------
(***************************************************************************)
(* DbPool's safety properties for any number of callers, files and pools.  *)
(* The exclusive use of a file holds where lifecycle calls do not overlap  *)
(* and closures end before the timeouts; one run and the README show       *)
(* that neither condition can be dropped.                                  *)
(***************************************************************************)
EXTENDS DbPool, TLAPS

\* One lifecycle caller, and no closure that outlives its call.
Orderly == ~Overruns /\ \A a, b \in Admins : a = b

\* The slots are filled and emptied together, and a lifecycle call on its way
\* between close() and the new pools finds them empty.
SlotsInStep ==
    /\ readPool = writePool
    /\ \A a \in Admins :
          admin[a].pc \in {"drainRead", "drainWrite", "unlink", "recover", "swap",
                           "install"} => writePool = None

\* Every pool that was ever built is in the slots or closed; a write pool is
\* closed only when the drain of the read pool is over.
BuiltIsOpenOrClosed ==
    \A k \in Pools : home[k] # None =>
        /\ k = readPool \/ k \in readClosed
        /\ \/ k = writePool
           \/ k \in writeClosed
           \/ \E a \in Admins : admin[a].pc = "drainRead" /\ admin[a].write = k

\* What is in the slots, and what a call has taken from them, was built.
TakenIsBuilt ==
    /\ writePool # None => home[writePool] # None
    /\ \A c \in Callers : call[c].pc \in {"get", "run"} => home[call[c].pool] # None

\* A connection in use is of a pool in the slots or of one being drained.
RunningIsAccounted ==
    /\ \A r \in Readers : call[r].pc = "run" =>
          \/ call[r].pool = readPool
          \/ \E a \in Admins : admin[a].pc = "drainRead" /\ admin[a].read = call[r].pool
    /\ \A w \in Writers : call[w].pc = "run" =>
          \/ call[w].pool = writePool
          \/ \E a \in Admins : /\ admin[a].pc \in {"drainRead", "drainWrite"}
                               /\ admin[a].write = call[w].pool

NothingLate == \A c \in Callers : late[c] = None

AdminHasPath == \A a \in Admins : admin[a].pc # "idle" => admin[a].path \in Paths

ExclusiveInv ==
    /\ TypeOK
    /\ NothingLate
    /\ SlotsInStep
    /\ BuiltIsOpenOrClosed
    /\ TakenIsBuilt
    /\ RunningIsAccounted
    /\ AdminHasPath

\* The file the slots serve: the one db_path names, or the one that Publish
\* is about to put there.
SlotsServe(p) ==
    writePool # None => home[writePool] = p /\ mode = ModeOf(p)

MatchInv ==
    /\ \A a \in Admins : admin[a].pc = "publish" => SlotsServe(admin[a].path)
    /\ (\A a \in Admins : admin[a].pc # "publish") => SlotsServe(path)
    /\ \A a \in Admins : admin[a].pc = "install" => mode = ModeOf(admin[a].path)

-----------------------------------------------------------------------------
\* The type invariant holds initially.
LEMMA TypeInit == Init => TypeOK
  <1> SUFFICES ASSUME Init PROVE TypeOK
    OBVIOUS
  <1>1. /\ call \in [Callers -> Calls] /\ late \in [Callers -> Pools \cup {None}]
        /\ admin \in [Admins -> AdminCalls]
        /\ \A c \in Callers : call[c].pc = "idle"
    BY DEF Init, NoCall, NoAdmin, Calls, AdminCalls
  <1>2. 1 \in Pools
    BY PoolAssumption DEF Pools
  <1>3. ASSUME NEW p \in Paths, New(p) PROVE TypeOK
    <2>1. home \in [Pools -> Paths \cup {None}] /\ mode \in {"wal", "delete"}
      BY <1>3 DEF New, ModeOf
    <2> QED
      BY <1>1, <1>2, <1>3, <2>1 DEF New, TypeOK, Init
  <1>4. ASSUME NEW p \in Paths \cup {None}, NEW b \in BOOLEAN, NewClosed(p, b) PROVE TypeOK
    <2>1. home \in [Pools -> Paths \cup {None}]
      BY <1>4 DEF NewClosed
    <2> QED
      BY <1>1, <1>4, <2>1 DEF NewClosed, TypeOK, Init
  <1> QED
    BY <1>3, <1>4 DEF Init

\* Every step keeps the types.
LEMMA TypeStep == TypeOK /\ [Next]_vars => TypeOK'
  <1> SUFFICES ASSUME TypeOK, [Next]_vars PROVE TypeOK'
    OBVIOUS
  <1> USE DEF poolVars
  <1>1. ASSUME NEW r \in Readers, StartRead(r) PROVE TypeOK'
    <2>1. readPool \in Pools /\ r \in Callers
      BY <1>1 DEF StartRead, TypeOK, Callers
    <2>2. /\ call' \in [Callers -> Calls]
          /\ \A d \in Callers : call'[d].pc \in {"get", "run"} => call'[d].pool \in Pools
      BY <1>1, <2>1 DEF StartRead, TypeOK, Calls
    <2> QED
      BY <1>1, <2>2 DEF StartRead, TypeOK
  <1>2. ASSUME NEW w \in Writers, Arm(w) PROVE TypeOK'
    <2>1. w \in Callers
      BY DEF Callers
    <2>2. /\ call' \in [Callers -> Calls]
          /\ \A d \in Callers : call'[d].pc \in {"get", "run"} => call'[d].pool \in Pools
      BY <1>2, <2>1 DEF Arm, TypeOK, Calls
    <2>3. gate' \in BOOLEAN
      BY <1>2 DEF Arm, TypeOK
    <2> QED
      BY <1>2, <2>2, <2>3 DEF Arm, TypeOK
  <1>3. ASSUME NEW w \in Writers, StartWrite(w) PROVE TypeOK'
    <2>1. writePool \in Pools /\ w \in Callers
      BY <1>3 DEF StartWrite, TypeOK, Callers
    <2>2. /\ call' \in [Callers -> Calls]
          /\ \A d \in Callers : call'[d].pc \in {"get", "run"} => call'[d].pool \in Pools
      BY <1>3, <2>1 DEF StartWrite, TypeOK, Calls
    <2> QED
      BY <1>3, <2>2 DEF StartWrite, TypeOK
  <1>4. ASSUME NEW c \in Callers, Return(c) 
        PROVE  /\ call' \in [Callers -> Calls]
               /\ gate' \in BOOLEAN
               /\ \A d \in Callers : call'[d].pc \in {"get", "run"} => call'[d].pool \in Pools
    BY <1>4, PoolAssumption DEF Return, TypeOK, NoCall, Calls
  <1>5. ASSUME NEW c \in Callers, Refuse(c) \/ GiveUp(c) PROVE TypeOK'
    BY <1>4, <1>5 DEF Refuse, GiveUp, TypeOK
  <1>6. ASSUME NEW c \in Callers, Acquire(c) PROVE TypeOK'
    BY <1>6 DEF Acquire, TypeOK, Calls
  <1>7. ASSUME NEW c \in Callers, NEW bad \in BOOLEAN, Complete(c, bad) PROVE TypeOK'
    BY <1>4, <1>7 DEF Complete, TypeOK
  <1>8. ASSUME NEW c \in Callers, TimeOut(c) PROVE TypeOK'
    <2>1. call[c].pool \in Pools
      BY <1>8 DEF TimeOut, TypeOK
    <2> QED
      BY <1>4, <1>8, <2>1 DEF TimeOut, TypeOK
  <1>9. ASSUME NEW c \in Callers, NEW bad \in BOOLEAN, LateEnd(c, bad) PROVE TypeOK'
    BY <1>9 DEF LateEnd, TypeOK
  <1>10. ASSUME MarkCorrupt PROVE TypeOK'
    BY <1>10 DEF MarkCorrupt, TypeOK
  <1>11. ASSUME NEW a \in Admins, NEW p \in Paths, StartReopen(a, p) PROVE TypeOK'
    <2>1. admin' \in [Admins -> AdminCalls]
      BY <1>11 DEF StartReopen, TypeOK, AdminCalls, NoAdmin
    <2> QED
      BY <1>11, <2>1 DEF StartReopen, TypeOK
  <1>12. ASSUME NEW a \in Admins, StartFresh(a) PROVE TypeOK'
    <2>1. admin' \in [Admins -> AdminCalls]
      BY <1>12 DEF StartFresh, TypeOK, AdminCalls, NoAdmin
    <2> QED
      BY <1>12, <2>1 DEF StartFresh, TypeOK
  <1>13. ASSUME NEW a \in Admins, AdminStep(a) PROVE TypeOK'
    <2>1. AdminReturn(a) => admin' \in [Admins -> AdminCalls]
      BY DEF AdminReturn, TypeOK, AdminCalls, NoAdmin
    <2>2. ASSUME NEW q \in {"close", "unlink", "recover", "swap", "install", "publish"},
                 AdminGoto(a, q)
          PROVE  admin' \in [Admins -> AdminCalls]
      BY <2>2 DEF AdminGoto, TypeOK, AdminCalls
    <2>3. CASE TryOpener(a)
      BY <2>1, <2>2, <2>3 DEF TryOpener, TypeOK
    <2>4. CASE Close(a)
      <3>1. /\ admin \in [Admins -> AdminCalls]
            /\ readPool \in Pools \cup {None} /\ writePool \in Pools \cup {None}
        BY DEF TypeOK
      <3>2. admin' = [admin EXCEPT ![a].pc = "drainRead", ![a].read = readPool,
                                   ![a].write = writePool, ![a].clean = TRUE]
        BY <2>4 DEF Close
      <3>3. admin' = [admin EXCEPT ![a] =
                         [admin[a] EXCEPT !.pc = "drainRead", !.read = readPool,
                                          !.write = writePool, !.clean = TRUE]]
        BY <3>1, <3>2
      <3>4. [admin[a] EXCEPT !.pc = "drainRead", !.read = readPool,
                             !.write = writePool, !.clean = TRUE] \in AdminCalls
        BY <3>1 DEF AdminCalls
      <3>5. admin' \in [Admins -> AdminCalls]
        BY <3>1, <3>3, <3>4
      <3> QED
        BY <2>4, <3>5 DEF Close, TypeOK
    <2>5. CASE DrainRead(a)
      <3>1. admin \in [Admins -> AdminCalls] /\ admin[a].write \in Pools \cup {None}
        BY DEF TypeOK, AdminCalls
      <3>2. PICK t \in BOOLEAN :
               admin' = [admin EXCEPT ![a].pc = "drainWrite", ![a].clean = ~t]
        BY <2>5 DEF DrainRead
      <3>3. admin' = [admin EXCEPT ![a] =
                         [admin[a] EXCEPT !.pc = "drainWrite", !.clean = ~t]]
        BY <3>1, <3>2
      <3>4. [admin[a] EXCEPT !.pc = "drainWrite", !.clean = ~t] \in AdminCalls
        BY <3>1 DEF AdminCalls
      <3>5. admin' \in [Admins -> AdminCalls]
        BY <3>1, <3>3, <3>4
      <3> QED
        BY <2>5, <3>1, <3>5 DEF DrainRead, TypeOK
    <2>6. CASE DrainWrite(a)
      BY <2>1, <2>2, <2>6 DEF DrainWrite, TypeOK
    <2>7. CASE Unlink(a)
      <3>1. admin' \in [Admins -> AdminCalls]
        BY <2>1, <2>7 DEF Unlink, TypeOK, AdminCalls
      <3> QED
        BY <2>7, <3>1 DEF Unlink, TypeOK
    <2>8. CASE Recover(a)
      BY <2>1, <2>2, <2>8 DEF Recover, NeedsRecovery, TypeOK
    <2>9. CASE SwapMode(a)
      BY <2>2, <2>9 DEF SwapMode, ModeOf, TypeOK
    <2>10. CASE Install(a)
      <3>1. admin[a].path \in Paths \cup {None}
        BY DEF TypeOK, AdminCalls
      <3> QED
        BY <2>2, <2>10, <3>1 DEF Install, TypeOK
    <2>11. CASE Publish(a)
      <3>1. admin[a].path \in Paths \cup {None}
        BY DEF TypeOK, AdminCalls
      <3> QED
        BY <2>1, <2>11, <3>1 DEF Publish, TypeOK
    <2> QED
      BY <1>13, <2>3, <2>4, <2>5, <2>6, <2>7, <2>8, <2>9, <2>10, <2>11 DEF AdminStep
  <1>14. CASE UNCHANGED vars
    BY <1>14 DEF vars, TypeOK
  <1> QED
    BY <1>1, <1>2, <1>3, <1>5, <1>6, <1>7, <1>8, <1>9, <1>10, <1>11, <1>12, <1>13, <1>14
       DEF Next, CallStep, Callers

\* Every reachable state of the pool is well typed: no call ever waits for, or
\* runs on, a pool that was not there.
THEOREM TypeCorrect == Spec => []TypeOK
  BY TypeInit, TypeStep, PTL DEF Spec

-----------------------------------------------------------------------------
\* NoStuckGate is inductive beside the fact that a caller between two calls
\* has no gate: Arm overwrites what the record says.
GateInv == NoStuckGate /\ \A c \in Callers : call[c].pc = "idle" => ~call[c].gated

\* A write that shut the gate opens it when it returns, whatever ends it.
LEMMA GateStep == TypeOK /\ GateInv /\ [Next]_vars => GateInv'
  <1> SUFFICES ASSUME TypeOK, GateInv, [Next]_vars PROVE GateInv'
    OBVIOUS
  <1> USE DEF Callers
  <1>1. ASSUME NEW c \in Callers, Return(c) PROVE GateInv'
    BY <1>1 DEF Return, NoStuckGate, GateInv, TypeOK, NoCall
  <1>2. ASSUME NEW w \in Writers, Arm(w) PROVE GateInv'
    <2>1. \A d \in Callers : d # w => call'[d] = call[d]
      BY <1>2 DEF Arm, TypeOK
    <2>2. call'[w].pc = "armed" /\ (mode = "delete" => call'[w].gated)
      BY <1>2 DEF Arm, TypeOK, Calls
    <2>3. gate' => gate \/ mode = "delete"
      BY <1>2 DEF Arm
    <2>4. ~call[w].gated
      BY <1>2 DEF Arm, GateInv
    <2> QED
      BY <2>1, <2>2, <2>3, <2>4 DEF NoStuckGate, GateInv
  <1>3. ASSUME NEW c \in Callers, StartRead(c) \/ StartWrite(c) \/ Acquire(c)
        PROVE  GateInv'
    <2>1. gate' = gate /\ \A d \in Callers : d # c => call'[d] = call[d]
      BY <1>3 DEF StartRead, StartWrite, Acquire, TypeOK
    <2>2. CASE StartRead(c)
      BY <1>3, <2>1, <2>2 DEF StartRead, NoStuckGate, GateInv, TypeOK, Calls
    <2>3. CASE StartWrite(c)
      BY <1>3, <2>1, <2>3 DEF StartWrite, NoStuckGate, GateInv, TypeOK, Calls
    <2>4. CASE Acquire(c)
      <3>1. call' = [call EXCEPT ![c].pc = "run"]
        BY <2>4 DEF Acquire
      <3>2. call'[c].pc = "run" /\ call'[c].gated = call[c].gated
        BY <3>1 DEF TypeOK, Calls
      <3> QED
        BY <2>1, <3>2 DEF NoStuckGate, GateInv
    <2> QED
      BY <1>3, <2>2, <2>3, <2>4
  <1>4. ASSUME UNCHANGED <<gate, call>> PROVE GateInv'
    BY <1>4 DEF NoStuckGate, GateInv
  <1>5. ASSUME NEW a \in Admins, AdminStep(a) PROVE UNCHANGED <<gate, call>>
    BY <1>5 DEF AdminStep, TryOpener, Close, DrainRead, DrainWrite, Unlink, Recover,
                SwapMode, Install, Publish
  <1> QED
    BY <1>1, <1>2, <1>3, <1>4, <1>5
       DEF Next, CallStep, Refuse, GiveUp, Complete, TimeOut, LateEnd, MarkCorrupt,
           StartReopen, StartFresh, vars

\* The gate of a DELETE-mode file is never left shut: refused writes, failed
\* acquisitions, timeouts and reopens to another mode all open it again.
THEOREM GateReopens == Spec => []NoStuckGate
  <1>1. Init => GateInv
    BY DEF Init, NoStuckGate, GateInv, NoCall
  <1>2. GateInv => NoStuckGate
    BY DEF GateInv
  <1> QED
    BY <1>1, <1>2, GateStep, TypeCorrect, PTL DEF Spec

-----------------------------------------------------------------------------
\* The initial state satisfies the invariant behind FileIsExclusive.
LEMMA ExclusiveInit == Init => ExclusiveInv
  <1> SUFFICES ASSUME Init PROVE ExclusiveInv
    OBVIOUS
  <1>1. TypeOK
    BY TypeInit
  <1>2. NothingLate /\ RunningIsAccounted /\ AdminHasPath
    BY DEF Init, NothingLate, RunningIsAccounted, AdminHasPath, NoCall, NoAdmin, Callers
  <1>3. SlotsInStep
    BY DEF Init, New, NewClosed, NoAdmin, SlotsInStep
  <1>4. BuiltIsOpenOrClosed
    BY DEF Init, New, NewClosed, BuiltIsOpenOrClosed
  <1>5. TakenIsBuilt
    <2>1. 1 \in Pools /\ None \notin Paths
      BY PoolAssumption DEF Pools
    <2> QED
      BY <2>1 DEF Init, New, NewClosed, NoCall, TakenIsBuilt
  <1> QED
    BY <1>1, <1>2, <1>3, <1>4, <1>5 DEF ExclusiveInv

\* A call's own steps: what it takes is in the slots, and what it is handed is
\* of a pool that close() has not reached yet.
LEMMA ExclusiveCall ==
    ASSUME Orderly, ExclusiveInv, TypeOK', NEW c \in Callers,
           UNCHANGED <<readPool, writePool, home, readClosed, writeClosed, admin>>,
           \/ StartRead(c) /\ c \in Readers
           \/ StartWrite(c) /\ c \in Writers
           \/ Arm(c) \/ Refuse(c) \/ Acquire(c) \/ GiveUp(c) \/ TimeOut(c)
           \/ \E bad \in BOOLEAN : Complete(c, bad) \/ LateEnd(c, bad)
    PROVE  ExclusiveInv'
  <1>1. SlotsInStep' /\ BuiltIsOpenOrClosed' /\ AdminHasPath'
    BY DEF ExclusiveInv, SlotsInStep, BuiltIsOpenOrClosed, AdminHasPath
  <1>2. NothingLate'
    <2>1. late' = late \/ late' = [late EXCEPT ![c] = None]
      BY DEF StartRead, StartWrite, Arm, Refuse, Acquire, GiveUp, TimeOut, Complete,
             LateEnd, Orderly
    <2> QED
      BY <2>1 DEF ExclusiveInv, NothingLate, TypeOK
  <1>3. \A d \in Callers : d # c => call'[d] = call[d]
    BY DEF StartRead, StartWrite, Arm, Refuse, Acquire, GiveUp, TimeOut, Complete,
           LateEnd, Return, ExclusiveInv, TypeOK
  <1>4. \/ call'[c] = call[c]
        \/ call'[c].pc \in {"idle", "armed"}
        \/ c \in Readers /\ call'[c].pc = "get" /\ call'[c].pool = readPool /\ readPool # None
        \/ c \in Writers /\ call'[c].pc = "get" /\ call'[c].pool = writePool /\ writePool # None
        \/ Acquire(c) /\ call'[c].pc = "run" /\ call'[c].pool = call[c].pool
    <2>0. call \in [Callers -> Calls]
      BY DEF ExclusiveInv, TypeOK
    <2>1. Return(c) => call'[c].pc = "idle"
      BY <2>0 DEF Return, NoCall
    <2>2. ASSUME StartRead(c)
          PROVE  call'[c].pc = "get" /\ call'[c].pool = readPool /\ readPool # None
      BY <2>0, <2>2 DEF StartRead, Calls
    <2>3. ASSUME StartWrite(c)
          PROVE  call'[c].pc = "get" /\ call'[c].pool = writePool /\ writePool # None
      BY <2>0, <2>3 DEF StartWrite, Calls
    <2>4. ASSUME Arm(c) PROVE call'[c].pc = "armed"
      BY <2>0, <2>4 DEF Arm, Calls
    <2>5. ASSUME Acquire(c) PROVE call'[c].pc = "run" /\ call'[c].pool = call[c].pool
      <3>1. call' = [call EXCEPT ![c].pc = "run"]
        BY <2>5 DEF Acquire
      <3> QED
        BY <2>0, <3>1 DEF Calls
    <2> QED
      BY <2>1, <2>2, <2>3, <2>4, <2>5 DEF Refuse, GiveUp, TimeOut, Complete, LateEnd
  <1>5. TakenIsBuilt'
    BY <1>3, <1>4 DEF TakenIsBuilt, ExclusiveInv, SlotsInStep, Acquire
  <1>6. RunningIsAccounted'
    <2>1. ASSUME Acquire(c), c \in Readers PROVE call[c].pool = readPool
      BY <2>1 DEF Acquire, ExclusiveInv, TypeOK, BuiltIsOpenOrClosed, TakenIsBuilt
    <2>2. ASSUME Acquire(c), c \in Writers
          PROVE  \/ call[c].pool = writePool
                 \/ \E a \in Admins : admin[a].pc = "drainRead" /\ admin[a].write = call[c].pool
      BY <2>2, PoolAssumption
         DEF Acquire, ExclusiveInv, TypeOK, BuiltIsOpenOrClosed, TakenIsBuilt
    <2> QED
      BY <1>3, <1>4, <2>1, <2>2 DEF RunningIsAccounted, ExclusiveInv, Callers
  <1> QED
    BY <1>1, <1>2, <1>5, <1>6 DEF ExclusiveInv

\* A lifecycle call's steps.  With one lifecycle caller nothing refills or
\* empties the slots behind its back.
LEMMA ExclusiveAdmin ==
    ASSUME Orderly, ExclusiveInv, TypeOK', NEW a \in Admins, AdminStep(a)
    PROVE  ExclusiveInv'
  <1>0. /\ admin \in [Admins -> AdminCalls] /\ admin' \in [Admins -> AdminCalls]
        /\ call \in [Callers -> Calls] /\ call' = call /\ late' = late
        /\ \A b \in Admins : b = a
    BY DEF ExclusiveInv, TypeOK, Orderly, AdminStep, TryOpener, Close, DrainRead,
           DrainWrite, Unlink, Recover, SwapMode, Install, Publish
  <1>1. NothingLate'
    BY <1>0 DEF ExclusiveInv, NothingLate
  <1>2. \/ admin'[a].pc = "idle"
        \/ admin[a].pc # "idle" /\ admin'[a].path = admin[a].path
    BY <1>0 DEF AdminStep, TryOpener, Close, DrainRead, DrainWrite, Unlink, Recover,
                SwapMode, Install, Publish, AdminGoto, AdminReturn, NoAdmin, AdminCalls
  <1>3. AdminHasPath'
    BY <1>0, <1>2 DEF ExclusiveInv, AdminHasPath
  <1>4. /\ None \notin Pools /\ None \notin Paths
        /\ \A c \in Callers : call[c].pc = "run" => call[c].pool # None
    BY PoolAssumption DEF ExclusiveInv, TypeOK, Pools
  <1>5. CASE Close(a)
    <2>1. /\ admin[a].pc = "close" /\ admin'[a].pc = "drainRead"
          /\ admin'[a].read = readPool /\ admin'[a].write = writePool
          /\ readPool' = None /\ writePool' = None /\ home' = home
          /\ readClosed' = readClosed \cup ({readPool} \ {None})
          /\ writeClosed' = writeClosed
      BY <1>0, <1>5 DEF Close, AdminCalls
    <2>2. SlotsInStep'
      BY <2>1 DEF SlotsInStep
    <2>3. BuiltIsOpenOrClosed'
      BY <1>0, <1>4, <2>1 DEF ExclusiveInv, BuiltIsOpenOrClosed
    <2>4. TakenIsBuilt'
      BY <1>0, <2>1 DEF ExclusiveInv, TakenIsBuilt
    <2>5. RunningIsAccounted'
      BY <1>0, <2>1 DEF ExclusiveInv, RunningIsAccounted
    <2> QED
      BY <1>1, <1>3, <2>2, <2>3, <2>4, <2>5 DEF ExclusiveInv
  <1>6. CASE DrainRead(a)
    <2>1. /\ admin[a].pc = "drainRead" /\ admin'[a].pc = "drainWrite"
          /\ admin'[a].write = admin[a].write
          /\ UNCHANGED <<readPool, writePool, home, readClosed>>
          /\ writeClosed' = writeClosed \cup ({admin[a].write} \ {None})
          /\ writePool = None /\ readPool = None
      BY <1>0, <1>6 DEF DrainRead, AdminCalls, ExclusiveInv, SlotsInStep
    <2>2. \A r \in Readers : call[r].pc # "run"
      <3>1. Drained(admin[a].read, Readers)
        BY <1>6 DEF DrainRead, DrainTimedOut, Orderly
      <3> QED
        BY <1>0, <1>4, <2>1, <3>1
           DEF Drained, Holding, ExclusiveInv, RunningIsAccounted, Callers
    <2>3. SlotsInStep'
      BY <2>1 DEF SlotsInStep
    <2>4. BuiltIsOpenOrClosed'
      BY <1>0, <1>4, <2>1 DEF ExclusiveInv, BuiltIsOpenOrClosed
    <2>5. TakenIsBuilt'
      BY <1>0, <2>1 DEF ExclusiveInv, TakenIsBuilt
    <2>6. RunningIsAccounted'
      BY <1>0, <2>1, <2>2 DEF ExclusiveInv, RunningIsAccounted
    <2> QED
      BY <1>1, <1>3, <2>3, <2>4, <2>5, <2>6 DEF ExclusiveInv
  <1>7. CASE DrainWrite(a)
    <2>1. /\ admin[a].pc = "drainWrite" /\ admin'[a].pc \in {"recover", "unlink", "idle"}
          /\ UNCHANGED <<readPool, writePool, home, readClosed, writeClosed>>
          /\ writePool = None /\ readPool = None
      BY <1>0, <1>7 DEF DrainWrite, AdminCalls, AdminGoto, AdminReturn, NoAdmin,
                        ExclusiveInv, SlotsInStep, poolVars
    <2>2. \A c \in Callers : call[c].pc # "run"
      <3>1. Drained(admin[a].write, Writers)
        BY <1>7 DEF DrainWrite, DrainTimedOut, Orderly
      <3> QED
        BY <1>0, <1>4, <2>1, <3>1
           DEF Drained, Holding, ExclusiveInv, RunningIsAccounted, Callers
    <2>3. SlotsInStep'
      BY <2>1 DEF SlotsInStep
    <2>4. BuiltIsOpenOrClosed'
      BY <1>0, <2>1 DEF ExclusiveInv, BuiltIsOpenOrClosed
    <2>5. TakenIsBuilt'
      BY <1>0, <2>1 DEF ExclusiveInv, TakenIsBuilt
    <2>6. RunningIsAccounted'
      BY <1>0, <2>2 DEF RunningIsAccounted, Callers
    <2> QED
      BY <1>1, <1>3, <2>3, <2>4, <2>5, <2>6 DEF ExclusiveInv
  <1>8. CASE Install(a)
    <2>1. /\ admin[a].pc = "install" /\ admin'[a].pc = "publish"
          /\ writePool = None /\ readPool = None /\ admin[a].path \in Paths
          /\ UNCHANGED <<readClosed, writeClosed>>
      BY <1>0, <1>8 DEF Install, AdminGoto, AdminCalls, ExclusiveInv, SlotsInStep,
                        AdminHasPath
    <2>2. PICK k \in Pools : /\ home[k] = None
                             /\ readPool' = k /\ writePool' = k
                             /\ home' = [home EXCEPT ![k] = admin[a].path]
      BY <1>8 DEF Install
    <2>3. /\ home'[k] # None
          /\ \A j \in Pools : j # k => home'[j] = home[j]
      BY <1>4, <2>1, <2>2 DEF ExclusiveInv, TypeOK
    <2>4. \A c \in Callers : call[c].pc # "run"
      BY <1>0, <1>4, <2>1 DEF ExclusiveInv, RunningIsAccounted, Callers
    <2>5. SlotsInStep'
      BY <1>0, <2>1, <2>2 DEF SlotsInStep
    <2>6. BuiltIsOpenOrClosed'
      BY <1>0, <1>4, <2>1, <2>2, <2>3 DEF ExclusiveInv, BuiltIsOpenOrClosed
    <2>7. TakenIsBuilt'
      BY <1>0, <2>2, <2>3 DEF ExclusiveInv, TakenIsBuilt, TypeOK
    <2>8. RunningIsAccounted'
      BY <1>0, <2>4 DEF RunningIsAccounted, Callers
    <2> QED
      BY <1>1, <1>3, <2>5, <2>6, <2>7, <2>8 DEF ExclusiveInv
  <1>9. CASE TryOpener(a) \/ Unlink(a) \/ Recover(a) \/ SwapMode(a) \/ Publish(a)
    <2>1. /\ admin[a].pc \notin {"drainRead", "drainWrite"}
          /\ \/ admin'[a].pc \in {"close", "reopen", "idle"}
             \/ admin[a].pc \in {"recover", "swap"} /\ admin'[a].pc \in {"swap", "install"}
          /\ UNCHANGED <<readPool, writePool, home, readClosed, writeClosed>>
      <3>1. AdminReturn(a) => admin'[a].pc = "idle"
        BY <1>0 DEF AdminReturn, NoAdmin
      <3>2. ASSUME NEW q, AdminGoto(a, q) PROVE admin'[a].pc = q
        BY <1>0, <3>2 DEF AdminGoto, AdminCalls
      <3>3. Unlink(a) => admin'[a].pc \in {"reopen", "idle"}
        BY <1>0, <3>1 DEF Unlink, AdminCalls
      <3> QED
        <4>1. CASE TryOpener(a)
          BY <3>1, <3>2, <4>1 DEF TryOpener, poolVars
        <4>2. CASE Unlink(a)
          BY <3>3, <4>2 DEF Unlink
        <4>3. CASE Recover(a)
          BY <3>1, <3>2, <4>3 DEF Recover
        <4>4. CASE SwapMode(a)
          BY <3>2, <4>4 DEF SwapMode
        <4>5. CASE Publish(a)
          BY <3>1, <4>5 DEF Publish
        <4> QED
          BY <1>9, <4>1, <4>2, <4>3, <4>4, <4>5
    <2>2. SlotsInStep'
      BY <1>0, <2>1 DEF ExclusiveInv, SlotsInStep
    <2>3. BuiltIsOpenOrClosed'
      BY <1>0, <2>1 DEF ExclusiveInv, BuiltIsOpenOrClosed
    <2>4. TakenIsBuilt'
      BY <1>0, <2>1 DEF ExclusiveInv, TakenIsBuilt
    <2>5. RunningIsAccounted'
      BY <1>0, <2>1 DEF ExclusiveInv, RunningIsAccounted
    <2> QED
      BY <1>1, <1>3, <2>2, <2>3, <2>4, <2>5 DEF ExclusiveInv
  <1> QED
    BY <1>5, <1>6, <1>7, <1>8, <1>9 DEF AdminStep

\* Every step keeps the invariant when lifecycle calls do not overlap and no
\* closure outlives its call.
LEMMA ExclusiveStep == Orderly /\ ExclusiveInv /\ [Next]_vars => ExclusiveInv'
  <1> SUFFICES ASSUME Orderly, ExclusiveInv, [Next]_vars PROVE ExclusiveInv'
    OBVIOUS
  <1>0. TypeOK'
    BY TypeStep DEF ExclusiveInv
  <1>1. ASSUME NEW c \in Callers,
               \/ StartRead(c) /\ c \in Readers
               \/ StartWrite(c) /\ c \in Writers
               \/ Arm(c) \/ Refuse(c) \/ CallStep(c)
        PROVE  ExclusiveInv'
    <2>1. UNCHANGED <<readPool, writePool, home, readClosed, writeClosed, admin>>
      BY <1>1 DEF StartRead, StartWrite, Arm, Refuse, CallStep, Acquire, GiveUp, TimeOut,
                  Complete, LateEnd, poolVars
    <2> QED
      BY <1>0, <1>1, <2>1, ExclusiveCall DEF CallStep
  <1>2. ASSUME NEW a \in Admins, AdminStep(a) PROVE ExclusiveInv'
    BY <1>0, <1>2, ExclusiveAdmin
  <1>3. ASSUME NEW a \in Admins,
               StartFresh(a) \/ \E p \in Paths : StartReopen(a, p)
        PROVE  ExclusiveInv'
    <2>1. /\ admin[a].pc = "idle"
          /\ admin'[a].pc \in {"close", "reopen"} /\ admin'[a].path \in Paths
          /\ \A b \in Admins : b = a
          /\ UNCHANGED <<readPool, writePool, home, readClosed, writeClosed, call, late>>
      <3>1. admin \in [Admins -> AdminCalls] /\ \A b \in Admins : b = a
        BY DEF Orderly, ExclusiveInv, TypeOK
      <3>2. CASE StartFresh(a)
        <4>1. path \in Paths
          BY <3>2 DEF StartFresh, ExclusiveInv, TypeOK
        <4> QED
          BY <3>1, <3>2, <4>1 DEF StartFresh, NoAdmin, poolVars
      <3>3. ASSUME NEW p \in Paths, StartReopen(a, p)
            PROVE  /\ admin[a].pc = "idle"
                   /\ admin'[a].pc = "reopen" /\ admin'[a].path \in Paths
                   /\ UNCHANGED <<readPool, writePool, home, readClosed, writeClosed,
                                  call, late>>
        BY <3>1, <3>3 DEF StartReopen, NoAdmin, poolVars
      <3> QED
        BY <1>3, <3>1, <3>2, <3>3
    <2>2. NothingLate' /\ SlotsInStep' /\ AdminHasPath'
      BY <2>1 DEF ExclusiveInv, NothingLate, SlotsInStep, AdminHasPath
    <2>3. BuiltIsOpenOrClosed' /\ TakenIsBuilt'
      BY <2>1 DEF ExclusiveInv, BuiltIsOpenOrClosed, TakenIsBuilt
    <2>4. RunningIsAccounted'
      BY <2>1 DEF ExclusiveInv, RunningIsAccounted
    <2> QED
      BY <1>0, <2>2, <2>3, <2>4 DEF ExclusiveInv
  <1>4. CASE MarkCorrupt \/ UNCHANGED vars
    BY <1>0, <1>4 DEF MarkCorrupt, vars, poolVars, ExclusiveInv, NothingLate, SlotsInStep,
       AdminHasPath, BuiltIsOpenOrClosed, TakenIsBuilt, RunningIsAccounted
  <1> QED
    BY <1>1, <1>2, <1>3, <1>4 DEF Next, Callers

\* The safety contract of db_pool.rs for any number of readers, writers, files
\* and pools: with one lifecycle call at a time and closures that end in time,
\* no connection is in use on a file while it is unlinked or recovered.
THEOREM FilesAreExclusive == Orderly /\ Spec => []FileIsExclusive
  <1> SUFFICES ASSUME Orderly PROVE Spec => []FileIsExclusive
    OBVIOUS
  <1>1. ExclusiveInv => FileIsExclusive
    <2> SUFFICES ASSUME ExclusiveInv, NEW a \in Admins, admin[a].pc \in {"unlink", "recover"}
                 PROVE  OnFile(admin[a].path) = {}
      BY DEF FileIsExclusive
    <2>1. /\ writePool = None /\ readPool = None
          /\ \A b \in Admins : admin[b].pc \notin {"drainRead", "drainWrite"}
      BY DEF ExclusiveInv, SlotsInStep, Orderly
    <2>2. \A c \in Callers : call[c].pc # "run"
      <3>1. None \notin Pools
        BY PoolAssumption DEF Pools
      <3> QED
        BY <2>1, <3>1 DEF ExclusiveInv, RunningIsAccounted, TypeOK, Callers
    <2> QED
      BY <2>2 DEF OnFile, ExclusiveInv, NothingLate
  <1>2. ExclusiveInv /\ [Next]_vars => ExclusiveInv'
    BY ExclusiveStep
  <1> QED
    BY <1>1, <1>2, ExclusiveInit, PTL DEF Spec

-----------------------------------------------------------------------------
\* Every step keeps the slots, db_path and the journal mode together.
LEMMA MatchStep == Orderly /\ ExclusiveInv /\ MatchInv /\ [Next]_vars => MatchInv'
  <1> SUFFICES ASSUME Orderly, ExclusiveInv, MatchInv, [Next]_vars PROVE MatchInv'
    OBVIOUS
  <1>0. admin \in [Admins -> AdminCalls] /\ \A a, b \in Admins : a = b
    BY DEF Orderly, ExclusiveInv, TypeOK
  <1>1. ASSUME UNCHANGED <<mode, writePool, path, home, admin>> PROVE MatchInv'
    BY <1>1 DEF MatchInv, SlotsServe, ModeOf
  <1>2. ASSUME NEW a \in Admins, admin[a].pc # "publish",
               admin'[a].pc \notin {"publish", "install"},
               UNCHANGED <<mode, path, home>>, writePool' \in {writePool, None}
        PROVE  MatchInv'
    BY <1>0, <1>2 DEF MatchInv, SlotsServe, ModeOf
  <1>3. ASSUME NEW a \in Admins, SwapMode(a) PROVE MatchInv'
    <2>1. /\ writePool = None /\ writePool' = None /\ mode' = ModeOf(admin[a].path)
          /\ admin'[a].pc = "install" /\ admin'[a].path = admin[a].path
      BY <1>0, <1>3 DEF SwapMode, AdminGoto, AdminCalls, ExclusiveInv, SlotsInStep
    <2> QED
      BY <1>0, <2>1 DEF MatchInv, SlotsServe, ModeOf
  <1>4. ASSUME NEW a \in Admins, Install(a) PROVE MatchInv'
    <2>1. /\ admin'[a].pc = "publish" /\ admin'[a].path = admin[a].path
          /\ mode' = mode /\ mode = ModeOf(admin[a].path)
      BY <1>0, <1>4 DEF Install, AdminGoto, AdminCalls, MatchInv
    <2>2. home'[writePool'] = admin[a].path
      BY <1>4 DEF Install, ExclusiveInv, TypeOK
    <2> QED
      BY <1>0, <2>1, <2>2 DEF MatchInv, SlotsServe, ModeOf
  <1>5. ASSUME NEW a \in Admins, Publish(a) PROVE MatchInv'
    <2>1. /\ admin'[a].pc = "idle" /\ path' = admin[a].path
          /\ SlotsServe(admin[a].path) /\ UNCHANGED <<writePool, home, mode>>
      BY <1>0, <1>5 DEF Publish, AdminReturn, NoAdmin, MatchInv
    <2> QED
      BY <1>0, <2>1 DEF MatchInv, SlotsServe, ModeOf
  <1>6. ASSUME NEW a \in Admins, TryOpener(a) \/ DrainWrite(a) \/ Recover(a) PROVE MatchInv'
    <2>1. AdminReturn(a) => admin'[a].pc = "idle"
      BY <1>0 DEF AdminReturn, NoAdmin
    <2>2. ASSUME NEW q, AdminGoto(a, q) PROVE admin'[a].pc = q
      BY <1>0, <2>2 DEF AdminGoto, AdminCalls
    <2> QED
      BY <1>2, <1>6, <2>1, <2>2 DEF TryOpener, DrainWrite, Recover, poolVars
  <1>7. ASSUME NEW a \in Admins, Close(a) \/ DrainRead(a) \/ Unlink(a) PROVE MatchInv'
    <2>1. admin[a].pc # "publish" /\ admin'[a].pc \in {"drainRead", "drainWrite", "reopen", "idle"}
      BY <1>0, <1>7 DEF Close, DrainRead, Unlink, AdminReturn, NoAdmin, AdminCalls
    <2> QED
      BY <1>2, <1>7, <2>1 DEF Close, DrainRead, Unlink
  <1>8. ASSUME NEW a \in Admins, StartFresh(a) \/ \E p \in Paths : StartReopen(a, p)
        PROVE  MatchInv'
    <2>1. admin[a].pc = "idle" /\ admin'[a].pc \in {"close", "reopen"}
      BY <1>0, <1>8 DEF StartFresh, StartReopen, NoAdmin
    <2> QED
      BY <1>2, <1>8, <2>1 DEF StartFresh, StartReopen, poolVars
  <1>9. ASSUME NEW c \in Callers,
               StartRead(c) \/ Arm(c) \/ StartWrite(c) \/ Refuse(c) \/ CallStep(c)
        PROVE  MatchInv'
    BY <1>1, <1>9 DEF StartRead, StartWrite, Arm, Refuse, CallStep, Acquire, GiveUp,
       TimeOut, Complete, LateEnd, poolVars
  <1>10. CASE MarkCorrupt \/ UNCHANGED vars
    BY <1>1, <1>10 DEF MarkCorrupt, vars, poolVars
  <1> QED
    BY <1>3, <1>4, <1>5, <1>6, <1>7, <1>8, <1>9, <1>10 DEF Next, AdminStep, Callers

\* Between lifecycle calls db_path names the file that the open pools serve and
\* the journal mode is that file's, for any number of callers, files and pools
\* and whichever step of a reopen failed: a repair or a restore, which takes
\* its target from db_path, works on the file that the calls work on.
THEOREM SlotsMatchPath == Orderly /\ Spec => []OpenMatchesPath
  <1> SUFFICES ASSUME Orderly PROVE Spec => []OpenMatchesPath
    OBVIOUS
  <1>1. Init => MatchInv
    <2> SUFFICES ASSUME Init PROVE MatchInv
      OBVIOUS
    <2>1. \A a \in Admins : admin[a].pc = "idle"
      BY DEF Init, NoAdmin
    <2>2. SlotsServe(path)
      <3>1. ASSUME NEW p \in Paths, New(p) PROVE SlotsServe(path)
        <4>1. 1 \in Pools
          BY PoolAssumption DEF Pools
        <4> QED
          BY <3>1, <4>1 DEF New, SlotsServe, ModeOf
      <3>2. ASSUME NEW p, NEW b, NewClosed(p, b) PROVE SlotsServe(path)
        BY <3>2 DEF NewClosed, SlotsServe
      <3> QED
        BY <3>1, <3>2 DEF Init
    <2> QED
      BY <2>1, <2>2 DEF MatchInv
  <1>2. ExclusiveInv /\ [Next]_vars => ExclusiveInv'
    BY ExclusiveStep
  <1>3. ExclusiveInv /\ MatchInv /\ [Next]_vars => MatchInv'
    BY MatchStep
  <1>4. ExclusiveInv /\ MatchInv => OpenMatchesPath
    BY DEF ExclusiveInv, SlotsInStep, MatchInv, SlotsServe, OpenMatchesPath, Active
  <1> QED
    BY <1>1, <1>2, <1>3, <1>4, ExclusiveInit, PTL DEF Spec

-----------------------------------------------------------------------------
(* The refinement of PoolService.                                          *)

Serves == {home[k] : k \in Held}

WorkOf == [c \in Callers |-> Work(c)]

\* A call's work is its running closure's, as no closure outlives its call.
LEMMA WorkIsRunning ==
    ASSUME ExclusiveInv, NEW c \in Callers
    PROVE  /\ call[c].pc = "run" => Work(c) = home[call[c].pool] /\ Work(c) # None
           /\ call[c].pc # "run" => Work(c) = None
  BY DEF ExclusiveInv, NothingLate, TakenIsBuilt, Work

\* With one lifecycle caller connections are out of one pool at most: the one in the
\* slots, or the one that is being drained.
LEMMA OneHeld ==
    ASSUME Orderly, ExclusiveInv, NEW j \in Held, NEW k \in Held
    PROVE  j = k
  <1>1. None \notin Pools
    BY PoolAssumption DEF Pools
  <1>2. ASSUME NEW a \in Admins, admin[a].pc \in {"drainRead", "drainWrite"}
        PROVE  writePool = None
    BY <1>2 DEF ExclusiveInv, SlotsInStep
  <1> QED
    BY <1>1, <1>2 DEF Held, Orderly

\* Who works does so on a held pool.
LEMMA RunningIsHeld ==
    ASSUME Orderly, ExclusiveInv, NEW c \in Callers, call[c].pc = "run"
    PROVE  \/ call[c].pool \in Held
           \/ c \in Readers /\ \E a \in Admins :
                 admin[a].pc = "drainRead" /\ admin[a].read = call[c].pool
  BY DEF Held, ExclusiveInv, RunningIsAccounted, SlotsInStep, TypeOK, Callers

\* A call gets its connection from a held pool, which no closed one is.
LEMMA AcquiredIsHeld ==
    ASSUME Orderly, ExclusiveInv, NEW c \in Callers, Acquire(c)
    PROVE  call[c].pool \in Held
  <1>1. call[c].pool \in Pools /\ home[call[c].pool] # None
    BY DEF Acquire, ExclusiveInv, TypeOK, TakenIsBuilt
  <1> QED
    BY <1>1 DEF Acquire, Held, ExclusiveInv, BuiltIsOpenOrClosed, SlotsInStep

\* pool.get(): work begins, and of a writer only when no other writer is at work.
LEMMA AcquireBegins ==
    ASSUME Orderly, ExclusiveInv, NEW c \in Callers, Acquire(c)
    PROVE  Service!Begin(c)
  <1>1. call \in [Callers -> Calls] /\ c \in Readers \cup Writers
    BY DEF ExclusiveInv, TypeOK, Callers
  <1>2. call' = [call EXCEPT ![c].pc = "run"] /\ UNCHANGED <<home, late, writePool, admin>>
    BY DEF Acquire, poolVars
  <1>3. Held' = Held /\ Serves' = Serves
    BY <1>2 DEF Held, Serves
  <1>4. Work(c) = None
    BY WorkIsRunning DEF Acquire
  <1>5. home[call[c].pool] \in Serves
    BY AcquiredIsHeld DEF Serves
  <1>6. WorkOf' = [WorkOf EXCEPT ![c] = home[call[c].pool]]
    <2>1. \A d \in Callers : late[d] = None
      BY DEF ExclusiveInv, NothingLate
    <2>2. \A d \in Callers \ {c} : Work(d)' = Work(d)
      BY <1>1, <1>2 DEF Work
    <2>3. Work(c)' = home[call[c].pool]
      BY <1>1, <1>2, <2>1 DEF Work, Calls
    <2> QED
      BY <2>2, <2>3 DEF WorkOf
  <1>7. ASSUME c \in Writers, NEW w \in Writers PROVE Work(w) = None
    <2> SUFFICES ASSUME call[w].pc = "run" PROVE FALSE
      BY WorkIsRunning DEF Callers
    <2>1. w \notin Readers /\ c \notin Readers /\ w \in Callers
      BY <1>7, PoolAssumption DEF Callers
    <2>2. call[w].pool \in Held
      BY <2>1, RunningIsHeld
    <2>3. call[w].pool = call[c].pool
      BY <2>2, AcquiredIsHeld, OneHeld
    <2> QED
      BY <2>1, <2>3 DEF Acquire, Holding
  <1> QED
    BY <1>2, <1>3, <1>4, <1>5, <1>6, <1>7
       DEF Service!Begin, Service!Callers, Callers, Serves, WorkOf

\* What a step leaves alone that changes neither slots, drains nor running closures.
Unseen ==
    /\ UNCHANGED <<writePool, late>>
    /\ Held' = Held
    /\ \A k \in Held : home'[k] = home[k]
    /\ \A c \in Callers : Work(c)' = Work(c)

LEMMA UnseenStutters ==
    ASSUME Unseen
    PROVE  UNCHANGED <<writePool # None, Serves, WorkOf>>
  BY DEF Unseen, Serves, WorkOf

\* A call that ends gives up its work; one that starts or is refused has none yet.
LEMMA CallServes ==
    ASSUME Orderly, ExclusiveInv, ExclusiveInv', NEW c \in Callers,
           \/ StartRead(c) \/ StartWrite(c) \/ Arm(c) \/ Refuse(c) \/ CallStep(c)
    PROVE  Unseen \/ Service!Begin(c) \/ Service!End(c)
  <1>0. /\ call \in [Callers -> Calls]
        /\ \A d \in Callers : late[d] = None /\ late'[d] = None
    BY DEF ExclusiveInv, TypeOK, NothingLate
  <1>1. UNCHANGED <<writePool, home, admin>>
    BY DEF StartRead, StartWrite, Arm, Refuse, CallStep, Acquire, GiveUp, TimeOut, Complete,
           LateEnd, poolVars
  <1>2. Held' = Held /\ Serves' = Serves
    BY <1>1 DEF Held, Serves
  <1>3. CASE Acquire(c)
    BY <1>3, AcquireBegins
  <1>4. CASE TimeOut(c) \/ \E bad \in BOOLEAN : LateEnd(c, bad)
    BY <1>0, <1>4 DEF TimeOut, LateEnd, Orderly
  <1>5. ASSUME NEW bad \in BOOLEAN, Complete(c, bad) PROVE Service!End(c)
    <2>1. call[c].pc = "run" /\ call' = [call EXCEPT ![c] = NoCall]
      BY <1>5 DEF Complete, Return
    <2>2. Work(c) # None
      BY <2>1, WorkIsRunning
    <2>3. \A d \in Callers \ {c} : Work(d)' = Work(d)
      BY <1>0, <1>1, <2>1 DEF Work
    <2>4. Work(c)' = None
      BY <1>0, <2>1 DEF Work, NoCall
    <2>5. WorkOf' = [WorkOf EXCEPT ![c] = None]
      BY <2>3, <2>4 DEF WorkOf
    <2> QED
      BY <1>1, <1>2, <2>2, <2>5 DEF Service!End, Serves, WorkOf
  <1>6. CASE StartRead(c) \/ StartWrite(c) \/ Arm(c) \/ Refuse(c) \/ GiveUp(c)
    <2>1. /\ call[c].pc # "run" /\ call'[c].pc # "run"
          /\ \A d \in Callers \ {c} : call'[d] = call[d]
      <3>1. CASE StartRead(c)
        BY <1>0, <3>1 DEF StartRead
      <3>2. CASE StartWrite(c)
        BY <1>0, <3>2 DEF StartWrite
      <3>3. CASE Arm(c)
        BY <1>0, <3>3 DEF Arm
      <3>4. CASE Refuse(c) \/ GiveUp(c)
        <4>1. call[c].pc # "run" /\ call' = [call EXCEPT ![c] = NoCall]
          BY <3>4 DEF Refuse, GiveUp, Return
        <4> QED
          BY <1>0, <4>1 DEF NoCall
      <3> QED
        BY <1>6, <3>1, <3>2, <3>3, <3>4
    <2>2. \A d \in Callers : Work(d)' = Work(d)
      BY <1>0, <1>1, <2>1 DEF Work
    <2>3. late' = late
      BY <1>6 DEF StartRead, StartWrite, Arm, Refuse, GiveUp
    <2> QED
      BY <1>1, <1>2, <2>2, <2>3 DEF Unseen
  <1> QED
    BY <1>3, <1>4, <1>5, <1>6 DEF CallStep

\* A lifecycle call shuts the pool, leaves its file once every closure has ended, and opens
\* the next; its other steps are its own business.
LEMMA AdminServes ==
    ASSUME Orderly, ExclusiveInv, ExclusiveInv', NEW a \in Admins, AdminStep(a)
    PROVE  \/ Unseen \/ Service!Shut \/ Service!Leave
           \/ \E p \in Paths : Service!Open(p)
  <1>0. /\ admin \in [Admins -> AdminCalls] /\ \A b \in Admins : b = a
        /\ None \notin Pools
        /\ readPool = writePool
        /\ call' = call /\ late' = late
    BY PoolAssumption
       DEF ExclusiveInv, TypeOK, Orderly, SlotsInStep, Pools, AdminStep, TryOpener, Close,
           DrainRead, DrainWrite, Unlink, Recover, SwapMode, Install, Publish
  <1>1. ASSUME UNCHANGED home PROVE WorkOf' = WorkOf /\ \A c \in Callers : Work(c)' = Work(c)
    BY <1>0, <1>1 DEF WorkOf, Work
  <1>2. CASE \/ TryOpener(a) \/ Unlink(a) \/ Recover(a) \/ SwapMode(a) \/ Publish(a)
    <2>1. /\ UNCHANGED <<writePool, home>>
          /\ admin[a].pc \notin {"drainRead", "drainWrite"}
          /\ admin'[a].pc \notin {"drainRead", "drainWrite"}
      <3> USE <1>0 DEF AdminGoto, AdminReturn, NoAdmin, AdminCalls, poolVars
      <3>1. CASE TryOpener(a)
        BY <3>1 DEF TryOpener
      <3>2. CASE Unlink(a)
        BY <3>2 DEF Unlink
      <3>3. CASE Recover(a)
        BY <3>3 DEF Recover
      <3>4. CASE SwapMode(a) \/ Publish(a)
        BY <3>4 DEF SwapMode, Publish
      <3> QED
        BY <1>2, <3>1, <3>2, <3>3, <3>4
    <2>2. Held' = Held
      BY <1>0, <2>1 DEF Held
    <2> QED
      BY <1>0, <1>1, <2>1, <2>2 DEF Unseen
  <1>3. CASE Close(a)
    <2>1. /\ admin[a].pc = "close" /\ admin'[a].pc = "drainRead"
          /\ admin'[a].write = writePool /\ writePool' = None /\ UNCHANGED home
      BY <1>0, <1>3 DEF Close, AdminCalls
    <2>2. Held' = Held
      BY <1>0, <2>1 DEF Held
    <2>3. Serves' = Serves
      BY <2>1, <2>2 DEF Serves
    <2>4. CASE writePool = None
      BY <1>0, <1>1, <2>1, <2>2, <2>4 DEF Unseen
    <2>5. CASE writePool # None
      BY <1>1, <2>1, <2>3, <2>5 DEF Service!Shut, Serves, WorkOf
    <2> QED
      BY <2>4, <2>5
  <1>4. CASE DrainRead(a)
    <2>1. /\ admin[a].pc = "drainRead" /\ admin'[a].pc = "drainWrite"
          /\ admin'[a].write = admin[a].write /\ UNCHANGED <<writePool, home>>
      BY <1>0, <1>4 DEF DrainRead, AdminCalls
    <2>2. Held' = Held
      BY <1>0, <2>1 DEF Held
    <2> QED
      BY <1>0, <1>1, <2>1, <2>2 DEF Unseen
  <1>5. CASE DrainWrite(a)
    <2>1. /\ admin[a].pc = "drainWrite" /\ admin'[a].pc \notin {"drainRead", "drainWrite"}
          /\ UNCHANGED <<writePool, home>> /\ Drained(admin[a].write, Writers)
          /\ writePool = None
      <3>1. /\ admin[a].pc = "drainWrite" /\ Drained(admin[a].write, Writers)
            /\ UNCHANGED <<writePool, home>>
        BY <1>5 DEF DrainWrite, DrainTimedOut, Orderly, poolVars
      <3>2. admin'[a].pc \notin {"drainRead", "drainWrite"}
        BY <1>0, <1>5 DEF DrainWrite, AdminGoto, AdminReturn, NoAdmin, AdminCalls
      <3> QED
        BY <3>1, <3>2 DEF ExclusiveInv, SlotsInStep
    <2>2. Held' = {}
      BY <1>0, <2>1 DEF Held
    <2>3. ASSUME NEW c \in Callers PROVE Work(c) = None
      <3> SUFFICES ASSUME call[c].pc = "run" PROVE FALSE
        BY WorkIsRunning
      <3>1. call[c].pool \in Held
        BY <1>0, <2>1, RunningIsHeld
      <3>2. c \in Writers /\ call[c].pool = admin[a].write /\ admin[a].write # None
        BY <1>0, <2>1, <3>1
           DEF Held, ExclusiveInv, RunningIsAccounted, Callers
      <3> QED
        BY <2>1, <3>2 DEF Drained, Holding
    <2>4. Serves' = {}
      BY <2>2 DEF Serves
    <2> QED
      BY <1>1, <2>1, <2>3, <2>4
         DEF Service!Leave, Service!Callers, Callers, Serves, WorkOf
  <1>6. CASE Install(a)
    <2>1. PICK k \in Pools : /\ home[k] = None
                             /\ writePool' = k
                             /\ home' = [home EXCEPT ![k] = admin[a].path]
      BY <1>6 DEF Install
    <2>2. /\ admin[a].pc = "install" /\ admin'[a].pc = "publish"
          /\ writePool = None /\ admin[a].path \in Paths
      BY <1>0, <1>6 DEF Install, AdminGoto, ExclusiveInv, SlotsInStep, AdminHasPath
    <2>3. Held = {} /\ Held' = {k}
      BY <1>0, <2>1, <2>2 DEF Held
    <2>4. Serves = {} /\ Serves' = {admin[a].path}
      <3>1. home'[k] = admin[a].path
        BY <2>1 DEF ExclusiveInv, TypeOK
      <3> QED
        BY <2>3, <3>1 DEF Serves
    <2>5. WorkOf' = WorkOf
      <3>1. \A c \in Callers : call[c].pc # "run"
        BY <1>0, <2>2, <2>3, RunningIsHeld
      <3> QED
        BY <1>0, <3>1 DEF WorkOf, Work, ExclusiveInv, NothingLate
    <2> QED
      BY <1>0, <2>1, <2>2, <2>4, <2>5 DEF Service!Open, Serves, WorkOf
  <1> QED
    BY <1>2, <1>3, <1>4, <1>5, <1>6 DEF AdminStep

\* Every step of the pool is a step of the service or a stutter.
LEMMA ServiceStep ==
    ASSUME Orderly, ExclusiveInv, ExclusiveInv', [Next]_vars
    PROVE  [Service!Next]_<<writePool # None, Serves, WorkOf>>
  <1>1. ASSUME NEW c \in Callers,
               \/ StartRead(c) \/ StartWrite(c) \/ Arm(c) \/ Refuse(c) \/ CallStep(c)
        PROVE  [Service!Next]_<<writePool # None, Serves, WorkOf>>
    BY <1>1, CallServes, UnseenStutters DEF Service!Next, Service!Callers, Callers
  <1>2. ASSUME NEW a \in Admins, AdminStep(a)
        PROVE  [Service!Next]_<<writePool # None, Serves, WorkOf>>
    BY <1>2, AdminServes, UnseenStutters DEF Service!Next
  <1>3. ASSUME NEW a \in Admins, StartFresh(a) \/ \E p \in Paths : StartReopen(a, p)
        PROVE  UNCHANGED <<writePool # None, Serves, WorkOf>>
    <2>1. /\ admin \in [Admins -> AdminCalls] /\ \A b \in Admins : b = a
          /\ UNCHANGED <<writePool, home, call, late>>
      BY <1>3 DEF ExclusiveInv, TypeOK, Orderly, StartFresh, StartReopen, poolVars
    <2>2. /\ admin[a].pc \notin {"drainRead", "drainWrite"}
          /\ admin'[a].pc \notin {"drainRead", "drainWrite"}
      BY <1>3, <2>1 DEF StartFresh, StartReopen, NoAdmin
    <2>3. Held' = Held
      BY <2>1, <2>2 DEF Held
    <2> QED
      BY <2>1, <2>3 DEF Serves, WorkOf, Work
  <1>4. CASE MarkCorrupt \/ UNCHANGED vars
    BY <1>4 DEF MarkCorrupt, vars, poolVars, Serves, Held, WorkOf, Work
  <1> QED
    BY <1>1, <1>2, <1>3, <1>4 DEF Next, Callers

\* A new pool is open on its file, a deferred or corrupt one closed, and nobody works.
LEMMA ServiceInit == Init => Service!Init
  <1> SUFFICES ASSUME Init PROVE Service!Init
    OBVIOUS
  <1>1. WorkOf = [c \in Callers |-> None]
    BY DEF Init, WorkOf, Work, NoCall
  <1>2. \A a \in Admins : admin[a].pc = "idle"
    BY DEF Init, NoAdmin
  <1>3. ASSUME NEW p \in Paths, New(p) PROVE writePool # None /\ Serves = {p}
    <2>1. 1 \in Pools /\ None \notin Pools
      BY PoolAssumption DEF Pools
    <2>2. Held = {1} /\ home[1] = p
      BY <1>2, <1>3, <2>1 DEF New, Held
    <2> QED
      BY <1>3, <2>1, <2>2 DEF New, Serves
  <1>4. ASSUME NEW p, NEW b, NewClosed(p, b) PROVE writePool = None /\ Serves = {}
    <2>1. None \notin Pools
      BY PoolAssumption DEF Pools
    <2> QED
      BY <1>2, <1>4, <2>1 DEF NewClosed, Held, Serves
  <1>5. \/ writePool = None /\ Serves = {}
        \/ \E p \in Paths : writePool # None /\ Serves = {p}
    BY <1>3, <1>4 DEF Init
  <1> QED
    BY <1>1, <1>5 DEF Service!Init, Service!Callers, Callers, Serves, WorkOf

\* The pool is what StorageActivation takes it for (ImplementsService): open on one file or
\* closed, with one writer, and no closure of an earlier file left when the next is
\* opened, through every close, drain and failed reopen.
THEOREM PoolIsService == Orderly /\ Spec => ImplementsService
  <1> SUFFICES ASSUME Orderly PROVE Spec => ImplementsService
    OBVIOUS
  <1>1. ExclusiveInv /\ [Next]_vars => ExclusiveInv'
    BY ExclusiveStep
  <1>2. ExclusiveInv /\ ExclusiveInv' /\ [Next]_vars => [Service!Next]_(Service!vars)
    BY ServiceStep DEF Service!vars, Serves, WorkOf
  <1> QED
    BY <1>1, <1>2, ExclusiveInit, ServiceInit, PTL DEF Spec, Service!Spec, ImplementsService
=============================================================================
