------------------------------- MODULE DbPool -------------------------------
(***************************************************************************)
(* The SQLite connection pool (replay-control-core-server/src/db_pool.rs): *)
(* calls that borrow a connection, the write gate of DELETE-mode files,    *)
(* and the lifecycle calls that drain, unlink, recover and reopen.         *)
(*                                                                         *)
(* A pool number stands for one read pool and one write pool built         *)
(* together.  A call holds a connection while its closure runs on the      *)
(* blocking pool.  A closure cannot be cancelled: when its call times out, *)
(* the call gives its connection back and the closure runs on.             *)
(***************************************************************************)
EXTENDS Naturals, FiniteSets

CONSTANTS Readers,      \* callers of try_read
          Writers,      \* callers of try_write
          Admins,       \* callers of reopen, reset_to_empty, replace_with_file
          Paths,        \* database files
          DeletePaths,  \* those in DELETE journal mode; the others are WAL
          ReadSize,     \* connections of a read pool
          Overruns,     \* whether closures can outlast the timeouts
          MaxPool,      \* bound on the pools ever built
          None

Callers == Readers \cup Writers

Pools == 1 .. MaxPool

ASSUME PoolAssumption ==
    /\ Readers \cap Writers = {}
    /\ DeletePaths \subseteq Paths
    /\ ReadSize \in Nat \ {0}
    /\ Overruns \in BOOLEAN
    /\ MaxPool \in Nat \ {0}
    /\ None \notin Paths \cup Nat

VARIABLES mode,         \* the atomic journal_mode
          readPool,     \* read_pool: a pool, or None when closed
          writePool,    \* write_pool
          path,         \* db_path
          gate,         \* write_gate
          corrupt,      \* the corruption flag
          recovered,    \* WAL recovery has run for path
          home,         \* home[k]: the file of pool k
          readClosed,   \* pools whose read half deadpool has closed
          writeClosed,  \* pools whose write half deadpool has closed
          call,         \* call[c]: the call c is in
          late,         \* late[c]: pool of a closure that outlived its call
          admin         \* admin[a]: the lifecycle call a is in

poolVars == <<mode, readPool, writePool, path, corrupt, recovered, home,
              readClosed, writeClosed>>
vars == <<poolVars, gate, call, late, admin>>

ModeOf(p) == IF p \in DeletePaths THEN "delete" ELSE "wal"

Calls == [pc : {"idle", "armed", "get", "run"},
          pool : Pools \cup {None},
          gated : BOOLEAN]

AdminCalls == [pc : {"idle", "reopen", "close", "drainRead", "drainWrite", "unlink",
                     "recover", "swap", "install", "publish"},
               locked : BOOLEAN,              \* called under storage_redetect_lock
               fresh : BOOLEAN,               \* with_fresh_file, before its unlink
               path : Paths \cup {None},
               read : Pools \cup {None},      \* what close() took out of the slots
               write : Pools \cup {None},
               clean : BOOLEAN]               \* no drain has timed out

TypeOK ==
    /\ mode \in {"wal", "delete"}
    /\ readPool \in Pools \cup {None}
    /\ writePool \in Pools \cup {None}
    /\ path \in Paths \cup {None}
    /\ gate \in BOOLEAN
    /\ corrupt \in BOOLEAN
    /\ recovered \in BOOLEAN
    /\ home \in [Pools -> Paths \cup {None}]
    /\ readClosed \subseteq Pools
    /\ writeClosed \subseteq Pools
    /\ call \in [Callers -> Calls]
    /\ \A c \in Callers : call[c].pc \in {"get", "run"} => call[c].pool \in Pools
    /\ late \in [Callers -> Pools \cup {None}]
    /\ admin \in [Admins -> AdminCalls]

NoCall == [pc |-> "idle", pool |-> None, gated |-> FALSE]

NoAdmin == [pc |-> "idle", locked |-> FALSE, fresh |-> FALSE, path |-> None,
            read |-> None, write |-> None, clean |-> TRUE]

\* DbPool::new
New(p) ==
    /\ path = p
    /\ mode = ModeOf(p)
    /\ readPool = 1 /\ writePool = 1
    /\ home = [k \in Pools |-> IF k = 1 THEN p ELSE None]
    /\ recovered = TRUE
    /\ corrupt = FALSE

\* DbPool::new_deferred (no path yet) and DbPool::new_corrupt
NewClosed(p, bad) ==
    /\ path = p
    /\ mode = "delete"
    /\ readPool = None /\ writePool = None
    /\ home = [k \in Pools |-> None]
    /\ recovered = FALSE
    /\ corrupt = bad

Init ==
    /\ \/ \E p \in Paths : New(p) \/ NewClosed(p, TRUE)
       \/ NewClosed(None, FALSE)
    /\ gate = FALSE
    /\ readClosed = {} /\ writeClosed = {}
    /\ call = [c \in Callers |-> NoCall]
    /\ late = [c \in Callers |-> None]
    /\ admin = [a \in Admins |-> NoAdmin]

-----------------------------------------------------------------------------
(* try_read and try_write.                                                 *)

\* Pre-flight of a read; a refused read returns at once and changes nothing.
StartRead(r) ==
    /\ call[r].pc = "idle"
    /\ ~corrupt
    /\ ~gate
    /\ readPool # None
    /\ call' = [call EXCEPT ![r].pc = "get", ![r].pool = readPool]
    /\ UNCHANGED <<poolVars, gate, late, admin>>

\* WriteGate::activate, decided by the journal mode of this moment.
Arm(w) ==
    /\ call[w].pc = "idle"
    /\ call' = [call EXCEPT ![w].pc = "armed", ![w].gated = (mode = "delete")]
    /\ gate' = (gate \/ mode = "delete")
    /\ UNCHANGED <<poolVars, late, admin>>

\* Pre-flight of a write that finds the pool open.
StartWrite(w) ==
    /\ call[w].pc = "armed"
    /\ ~corrupt
    /\ writePool # None
    /\ call' = [call EXCEPT ![w].pc = "get", ![w].pool = writePool]
    /\ UNCHANGED <<poolVars, gate, late, admin>>

\* Variant: an early return forgets the gate.
ReturnLeaking(c) ==
    /\ call' = [call EXCEPT ![c] = NoCall]
    /\ gate' = IF call[c].gated /\ call[c].pc = "run" THEN FALSE ELSE gate

\* The call returns: the connection goes back and WriteGate is dropped.
Return(c) ==
    /\ call' = [call EXCEPT ![c] = NoCall]
    /\ gate' = IF call[c].gated THEN FALSE ELSE gate

\* Pre-flight of a write that finds the pool corrupt or closed.
Refuse(w) ==
    /\ call[w].pc = "armed"
    /\ corrupt \/ writePool = None
    /\ Return(w)
    /\ UNCHANGED <<poolVars, late, admin>>

Holding(k, C) == {c \in C : call[c].pc = "run" /\ call[c].pool = k}

\* pool.get(): a free connection of a pool that is not closed.
Acquire(c) ==
    /\ call[c].pc = "get"
    /\ IF c \in Readers
       THEN /\ call[c].pool \notin readClosed
            /\ Cardinality(Holding(call[c].pool, Readers)) < ReadSize
       ELSE /\ call[c].pool \notin writeClosed
            /\ Holding(call[c].pool, Writers) = {}
    /\ call' = [call EXCEPT ![c].pc = "run"]
    /\ UNCHANGED <<poolVars, gate, late, admin>>

\* pool.get() fails: closed, or no connection within its wait timeout.
GiveUp(c) ==
    /\ call[c].pc = "get"
    /\ Return(c)
    /\ UNCHANGED <<poolVars, late, admin>>

\* The closure ends; check_for_corruption looks at its last error code.
Complete(c, bad) ==
    /\ call[c].pc = "run"
    /\ Return(c)
    /\ corrupt' = (corrupt \/ bad)
    /\ UNCHANGED <<mode, readPool, writePool, path, recovered, home, readClosed,
                   writeClosed, late, admin>>

\* DbError::Timeout: the call returns, the closure runs on.
TimeOut(c) ==
    /\ Overruns
    /\ call[c].pc = "run"
    /\ late[c] = None
    /\ Return(c)
    /\ late' = [late EXCEPT ![c] = call[c].pool]
    /\ UNCHANGED <<poolVars, admin>>

LateEnd(c, bad) ==
    /\ late[c] # None
    /\ late' = [late EXCEPT ![c] = None]
    /\ corrupt' = (corrupt \/ bad)
    /\ UNCHANGED <<mode, readPool, writePool, path, recovered, home, readClosed,
                   writeClosed, gate, call, admin>>

\* mark_corrupt by the host: the new storage's user_data has a bad header.
MarkCorrupt ==
    /\ ~corrupt
    /\ corrupt' = TRUE
    /\ UNCHANGED <<mode, readPool, writePool, path, recovered, home, readClosed,
                   writeClosed, gate, call, late, admin>>

-----------------------------------------------------------------------------
(* reopen and with_fresh_file.                                             *)

Built == Cardinality({k \in Pools : home[k] # None})

Active == {a \in Admins : admin[a].pc # "idle"}

MayBuild == Built + Cardinality(Active) < MaxPool

AdminGoto(a, pc) == admin' = [admin EXCEPT ![a].pc = pc]

AdminReturn(a) == admin' = [admin EXCEPT ![a] = NoAdmin]

\* redetect_storage, one at a time.
StartReopen(a, p) ==
    /\ admin[a].pc = "idle"
    /\ MayBuild
    /\ \A b \in Admins : ~admin[b].locked
    /\ admin' = [admin EXCEPT ![a] = [NoAdmin EXCEPT !.pc = "reopen", !.locked = TRUE,
                                                     !.path = p]]
    /\ UNCHANGED <<poolVars, gate, call, late>>

\* reset_to_empty and replace_with_file, both with_fresh_file on db_path: the
\* repair and restore requests, which look at the corruption flag first.
StartFresh(a) ==
    /\ admin[a].pc = "idle"
    /\ MayBuild
    /\ corrupt
    /\ path # None
    /\ admin' = [admin EXCEPT ![a] = [NoAdmin EXCEPT !.pc = "close", !.fresh = TRUE,
                                                     !.path = path]]
    /\ UNCHANGED <<poolVars, gate, call, late>>

\* The opener checks that the file can be opened, and reopen fails if not.
TryOpener(a) ==
    /\ admin[a].pc = "reopen"
    /\ AdminGoto(a, "close") \/ AdminReturn(a)
    /\ UNCHANGED <<poolVars, gate, call, late>>

\* close() empties both slots and closes what was in the read slot.
Close(a) ==
    /\ admin[a].pc = "close"
    /\ readPool' = None /\ writePool' = None
    /\ readClosed' = readClosed \cup ({readPool} \ {None})
    /\ admin' = [admin EXCEPT ![a].pc = "drainRead", ![a].read = readPool,
                              ![a].write = writePool, ![a].clean = TRUE]
    /\ UNCHANGED <<mode, path, corrupt, recovered, home, writeClosed, gate, call, late>>

\* Variant: the drain does not look at the connections that are out.
DrainedAtOnce(k, C) == TRUE

\* drain_pool: status().size has reached zero.
Drained(k, C) == k = None \/ Holding(k, C) = {}

\* Variant: the drain waits without a deadline.
MayStopWaiting(k, C) == FALSE

\* drain_pool: the deadline has passed while connections are still out.
DrainTimedOut(k, C) == Overruns /\ ~Drained(k, C)

\* Variant: the write pool is drained without being closed.
DrainReadUnclosed(a) ==
    /\ admin[a].pc = "drainRead"
    /\ \E timedOut \in BOOLEAN :
            /\ IF timedOut THEN DrainTimedOut(admin[a].read, Readers)
                           ELSE Drained(admin[a].read, Readers)
            /\ admin' = [admin EXCEPT ![a].pc = "drainWrite", ![a].clean = ~timedOut]
    /\ UNCHANGED <<mode, readPool, writePool, path, corrupt, recovered, home, readClosed,
                   writeClosed, gate, call, late>>

DrainRead(a) ==
    /\ admin[a].pc = "drainRead"
    /\ \E timedOut \in BOOLEAN :
            /\ IF timedOut THEN DrainTimedOut(admin[a].read, Readers)
                           ELSE Drained(admin[a].read, Readers)
            /\ admin' = [admin EXCEPT ![a].pc = "drainWrite", ![a].clean = ~timedOut]
    /\ writeClosed' = writeClosed \cup ({admin[a].write} \ {None})
    /\ UNCHANGED <<mode, readPool, writePool, path, corrupt, recovered, home, readClosed,
                   gate, call, late>>

\* with_fresh_file gives up unless both drains were clean; reopen goes on.
DrainWrite(a) ==
    /\ admin[a].pc = "drainWrite"
    /\ \E timedOut \in BOOLEAN :
            /\ IF timedOut THEN DrainTimedOut(admin[a].write, Writers)
                           ELSE Drained(admin[a].write, Writers)
            /\ IF ~admin[a].fresh THEN AdminGoto(a, "recover")
               ELSE IF admin[a].clean /\ ~timedOut THEN AdminGoto(a, "unlink")
               ELSE AdminReturn(a)
    /\ UNCHANGED <<poolVars, gate, call, late>>

\* delete_db_files, then the restored copy; a failed copy ends the call.
Unlink(a) ==
    /\ admin[a].pc = "unlink"
    /\ \/ /\ recovered' = FALSE
          /\ admin' = [admin EXCEPT ![a].pc = "reopen", ![a].fresh = FALSE]
       \/ /\ UNCHANGED recovered
          /\ AdminReturn(a)
    /\ UNCHANGED <<mode, readPool, writePool, path, corrupt, home, readClosed,
                   writeClosed, gate, call, late>>

NeedsRecovery(a) == path # admin[a].path \/ ~recovered

\* recover_after_unclean_shutdown where needed, then the warm-up connection.
Recover(a) ==
    /\ admin[a].pc = "recover"
    /\ recovered' = (recovered \/ NeedsRecovery(a))
    /\ AdminGoto(a, "swap") \/ AdminReturn(a)
    /\ UNCHANGED <<mode, readPool, writePool, path, corrupt, home, readClosed,
                   writeClosed, gate, call, late>>

\* The new journal mode is visible before the new pools are.
SwapMode(a) ==
    /\ admin[a].pc = "swap"
    /\ mode' = ModeOf(admin[a].path)
    /\ AdminGoto(a, "install")
    /\ UNCHANGED <<readPool, writePool, path, corrupt, recovered, home, readClosed,
                   writeClosed, gate, call, late>>

\* Both slots get a pool that has never been used.
Install(a) ==
    /\ admin[a].pc = "install"
    /\ \E k \in Pools :
            /\ home[k] = None /\ \A j \in Pools : home[j] = None => k <= j
            /\ readPool' = k /\ writePool' = k
            /\ home' = [home EXCEPT ![k] = admin[a].path]
    /\ AdminGoto(a, "publish")
    /\ UNCHANGED <<mode, path, corrupt, recovered, readClosed, writeClosed, gate, call, late>>

\* Variant: db_path keeps naming the previous file.
PublishFlagOnly(a) ==
    /\ admin[a].pc = "publish"
    /\ corrupt' = FALSE
    /\ AdminReturn(a)
    /\ UNCHANGED <<mode, readPool, writePool, path, recovered, home, readClosed,
                   writeClosed, gate, call, late>>

\* db_path and the corruption flag follow the slots.
Publish(a) ==
    /\ admin[a].pc = "publish"
    /\ path' = admin[a].path
    /\ corrupt' = FALSE
    /\ AdminReturn(a)
    /\ UNCHANGED <<mode, readPool, writePool, recovered, home, readClosed, writeClosed,
                   gate, call, late>>

-----------------------------------------------------------------------------
CallStep(c) ==
    \/ Acquire(c) \/ GiveUp(c) \/ TimeOut(c)
    \/ \E bad \in BOOLEAN : Complete(c, bad) \/ LateEnd(c, bad)

AdminStep(a) ==
    \/ TryOpener(a) \/ Close(a) \/ DrainRead(a) \/ DrainWrite(a) \/ Unlink(a)
    \/ Recover(a) \/ SwapMode(a) \/ Install(a) \/ Publish(a)

Next ==
    \/ \E r \in Readers : StartRead(r)
    \/ \E w \in Writers : Arm(w) \/ StartWrite(w) \/ Refuse(w)
    \/ \E c \in Callers : CallStep(c)
    \/ MarkCorrupt
    \/ \E a \in Admins : \/ \E p \in Paths : StartReopen(a, p)
                         \/ StartFresh(a)
                         \/ AdminStep(a)

Spec == Init /\ [][Next]_vars

\* Lifecycle calls are awaited by a request or by redetection and keep being
\* polled.  Nothing is assumed of closures: they may run for ever.
FairSpec == Spec /\ \A a \in Admins : WF_vars(AdminStep(a))

-----------------------------------------------------------------------------
\* The callers whose closures work on file p, awaited or not.
OnFile(p) ==
    {c \in Callers : \/ call[c].pc = "run" /\ home[call[c].pool] = p
                     \/ late[c] # None /\ home[late[c]] = p}

\* The safety contract at the top of db_pool.rs: no closure of this process
\* works on a file that is unlinked, or whose WAL sidecars are recovered away.
FileIsExclusive ==
    \A a \in Admins :
        admin[a].pc = "unlink" \/ (admin[a].pc = "recover" /\ NeedsRecovery(a))
            => OnFile(admin[a].path) = {}

\* The gate never stays shut: some write that shut it has not returned yet.
\* A gate left behind would refuse every read as Busy until the restart.
NoStuckGate == gate => \E w \in Writers : call[w].gated

\* A pool in the slots serves the file that db_path names, in that file's
\* journal mode: reset, restore and backup derive their targets from db_path.
OpenMatchesPath ==
    writePool # None /\ Active = {} =>
        /\ readPool = writePool
        /\ home[writePool] = path
        /\ mode = ModeOf(path)

\* The pools that connections can be out of: the one in the slots, and what close() took
\* from there until its drains are over.
Held ==
    {k \in Pools : \/ k = writePool
                   \/ \E a \in Admins : /\ admin[a].pc \in {"drainRead", "drainWrite"}
                                        /\ admin[a].write = k}

Work(c) ==
    IF late[c] # None THEN home[late[c]]
    ELSE IF call[c].pc = "run" THEN home[call[c].pool] ELSE None

\* Towards its host a pool is open on one file or closed, has one writer, and lets go of
\* a file before it opens the next, with the calls that are under way through every
\* close, drain and reopen: what StorageActivation uses a pool as.
Service == INSTANCE PoolService
               WITH open <- writePool # None,
                    serves <- {home[k] : k \in Held},
                    work <- [c \in Callers |-> Work(c)]

ImplementsService == Service!Spec

\* Every lifecycle call ends, even when a closure never does.
LifecycleEnds == \A a \in Admins : []<>(admin[a].pc = "idle")
=============================================================================
