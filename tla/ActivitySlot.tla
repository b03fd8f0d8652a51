---------------------------- MODULE ActivitySlot ----------------------------
(***************************************************************************)
(* The activity slot of AppState (replay-control-app/src/api/activity.rs)  *)
(* and the /sse/activity stream that shows it to browsers (main.rs).       *)
(*                                                                         *)
(* The slot is an RwLock<Activity>.  Every operation that changes it locks,*)
(* mutates, clones, UNLOCKS and only then sends the clone on the broadcast *)
(* channel, so each operation is two steps here: one that leaves the clone *)
(* in the thread's outbox, and Send, which empties the outbox into every   *)
(* subscriber's queue.  Progress counters are abstracted away: an activity *)
(* is the task that runs it and whether it has reached a terminal phase.   *)
(***************************************************************************)
EXTENDS Naturals, Sequences

CONSTANTS Tasks,     \* tasks that claim the slot (scan, refresh, update, ...)
          Updaters,  \* those of them that install a self-update
          Workers,   \* worker tasks and blocking closures a holder spawns
          Clients,   \* connected browsers
          Cap,       \* capacity of the broadcast channel
          Idle,      \* Activity::Idle
          Nobody       \* absence of a value

Activities == [task : Tasks, phase : {"running", "terminal"}]

Threads == Tasks \cup Workers

ASSUME SlotAssumption ==
    /\ Cap \in Nat \ {0}
    /\ Updaters \subseteq Tasks
    /\ Tasks \cap Workers = {}
    /\ Nobody \notin Tasks
    /\ Idle \notin Activities
    /\ Nobody \notin Activities
    /\ Idle # Nobody

VARIABLES activity,  \* AppState::activity
          guard,     \* guard[t]: "none", "held", or "leaked" by mem::forget
          employer,  \* employer[w]: the task that spawned w and will join it
          outbox,    \* outbox[p]: clone that thread p is about to send, or Nobody
          conn,      \* conn[c]: "off", "subscribed" (no snapshot yet), "live"
          queue,     \* queue[c]: broadcast values not yet received
          lagged,    \* lagged[c]: c lost values to the capacity limit
          view       \* view[c]: the activity the browser shows

holderVars == <<activity, guard, employer, outbox>>
clientVars == <<conn, queue, lagged, view>>
slotVars == <<activity, guard, employer, outbox, conn, queue, lagged, view>>

Shown == Activities \cup {Idle}

SlotTypeOK ==
    /\ activity \in Shown
    /\ guard \in [Tasks -> {"none", "held", "leaked"}]
    /\ employer \in [Workers -> Tasks \cup {Nobody}]
    /\ outbox \in [Threads -> Shown \cup {Nobody}]
    /\ conn \in [Clients -> {"off", "subscribed", "live"}]
    /\ queue \in [Clients -> Seq(Shown)]
    /\ \A c \in Clients : Len(queue[c]) <= Cap
    /\ lagged \in [Clients -> BOOLEAN]
    /\ view \in [Clients -> Shown \cup {Nobody}]

SlotInit ==
    /\ activity = Idle
    /\ guard = [t \in Tasks |-> "none"]
    /\ employer = [w \in Workers |-> Nobody]
    /\ outbox = [p \in Threads |-> Nobody]
    /\ conn = [c \in Clients |-> "off"]
    /\ queue = [c \in Clients |-> <<>>]
    /\ lagged = [c \in Clients |-> FALSE]
    /\ view = [c \in Clients |-> Nobody]

-----------------------------------------------------------------------------
(* The holder's operations.                                                *)

\* Variant: the Idle check is missing.
TryStartUnchecked(t) ==
    /\ outbox[t] = Nobody
    /\ guard[t] = "none"
    /\ activity' = [task |-> t, phase |-> "running"]
    /\ guard' = [guard EXCEPT ![t] = "held"]
    /\ outbox' = [outbox EXCEPT ![t] = activity']
    /\ UNCHANGED <<employer, clientVars>>

\* try_start_activity: refused unless Idle; the guard exists once the value
\* is in the slot, the broadcast follows after the unlock.
TryStart(t) ==
    /\ outbox[t] = Nobody
    /\ guard[t] = "none"
    /\ activity = Idle
    /\ activity' = [task |-> t, phase |-> "running"]
    /\ guard' = [guard EXCEPT ![t] = "held"]
    /\ outbox' = [outbox EXCEPT ![t] = activity']
    /\ UNCHANGED <<employer, clientVars>>

\* JoinSet::spawn of an identity worker, spawn_blocking of a parse or download.
SpawnWorker(t, w) ==
    /\ guard[t] = "held"
    /\ outbox[t] = Nobody
    /\ activity.phase = "running"
    /\ employer[w] = Nobody
    /\ employer' = [employer EXCEPT ![w] = t]
    /\ UNCHANGED <<activity, guard, outbox, clientVars>>

\* The awaited end of a worker: it has no send outstanding.
Join(w) ==
    /\ employer[w] # Nobody
    /\ outbox[w] = Nobody
    /\ employer' = [employer EXCEPT ![w] = Nobody]
    /\ UNCHANGED <<activity, guard, outbox, clientVars>>

Joined(t) == \A w \in Workers : employer[w] # t

\* update / update_activity by the holder: a progress report, or the report
\* of a terminal phase, which every holder makes after joining its workers.
Update(t, p) ==
    /\ guard[t] = "held"
    /\ outbox[t] = Nobody
    /\ activity.phase = "running"
    /\ p = "terminal" => Joined(t)
    /\ activity' = [activity EXCEPT !.phase = p]
    /\ outbox' = [outbox EXCEPT ![t] = activity']
    /\ UNCHANGED <<guard, employer, clientVars>>

\* Variant: a worker that nobody employs any more puts its activity back.
WorkerUpdateDetached(w) ==
    /\ outbox[w] = Nobody
    /\ activity' = [task |-> employer[w], phase |-> "running"]
    /\ outbox' = [outbox EXCEPT ![w] = activity']
    /\ UNCHANGED <<guard, employer, clientVars>>

\* update_activity by a worker: the counters it writes are abstracted away.
WorkerUpdate(w) ==
    /\ employer[w] # Nobody
    /\ outbox[w] = Nobody
    /\ outbox' = [outbox EXCEPT ![w] = activity]
    /\ UNCHANGED <<activity, guard, employer, clientVars>>

\* Variant: the guard is dropped while a worker may still be reporting.
DropUnjoined(t) ==
    /\ guard[t] = "held"
    /\ outbox[t] = Nobody
    /\ activity' = Idle
    /\ guard' = [guard EXCEPT ![t] = "none"]
    /\ outbox' = [outbox EXCEPT ![t] = Idle]
    /\ UNCHANGED <<employer, clientVars>>

\* ActivityGuard::drop, at the end of the holder's scope or in its unwinding.
Drop(t) ==
    /\ guard[t] = "held"
    /\ outbox[t] = Nobody
    /\ Joined(t)
    /\ activity' = Idle
    /\ guard' = [guard EXCEPT ![t] = "none"]
    /\ outbox' = [outbox EXCEPT ![t] = Idle]
    /\ UNCHANGED <<employer, clientVars>>

\* An archive update reports Restarting and forgets its guard: the helper
\* script will restart the service.
Leak(t) ==
    /\ guard[t] = "held"
    /\ outbox[t] = Nobody
    /\ activity.phase = "terminal"
    /\ Joined(t)
    /\ guard' = [guard EXCEPT ![t] = "leaked"]
    /\ UNCHANGED <<activity, employer, outbox, clientVars>>

\* broadcast::Sender::send: one value to every subscriber.  A full queue loses
\* its oldest value and the subscriber is told that it lagged.
Enqueue(q, m) == IF Len(q) < Cap THEN Append(q, m) ELSE Append(Tail(q), m)

Send(p) ==
    /\ outbox[p] # Nobody
    /\ queue' = [c \in Clients |->
                    IF conn[c] = "off" THEN queue[c] ELSE Enqueue(queue[c], outbox[p])]
    /\ lagged' = [c \in Clients |->
                    lagged[c] \/ (conn[c] # "off" /\ Len(queue[c]) >= Cap)]
    /\ outbox' = [outbox EXCEPT ![p] = Nobody]
    /\ UNCHANGED <<activity, guard, employer, conn, view>>

\* The update helper kills the service and systemd starts a new process.
Restart ==
    /\ \E t \in Tasks : guard[t] = "leaked"
    /\ activity' = Idle
    /\ guard' = [t \in Tasks |-> "none"]
    /\ employer' = [w \in Workers |-> Nobody]
    /\ outbox' = [p \in Threads |-> Nobody]
    /\ conn' = [c \in Clients |-> "off"]
    /\ queue' = [c \in Clients |-> <<>>]
    /\ lagged' = [c \in Clients |-> FALSE]
    /\ view' = [c \in Clients |-> Nobody]

-----------------------------------------------------------------------------
(* The stream of one browser: subscribe, snapshot, then receive.           *)

Subscribe(c) ==
    /\ conn[c] = "off"
    /\ conn' = [conn EXCEPT ![c] = "subscribed"]
    /\ UNCHANGED <<holderVars, queue, lagged, view>>

Snapshot(c) ==
    /\ conn[c] = "subscribed"
    /\ conn' = [conn EXCEPT ![c] = "live"]
    /\ view' = [view EXCEPT ![c] = activity]
    /\ UNCHANGED <<holderVars, queue, lagged>>

Receive(c) ==
    /\ conn[c] = "live"
    /\ ~lagged[c]
    /\ queue[c] # <<>>
    /\ view' = [view EXCEPT ![c] = Head(queue[c])]
    /\ queue' = [queue EXCEPT ![c] = Tail(queue[c])]
    /\ UNCHANGED <<holderVars, conn, lagged>>

\* Variant: a lagging stream subscribes afresh and takes no snapshot.
CatchUpResubscribed(c) ==
    /\ conn[c] = "live"
    /\ lagged[c]
    /\ queue' = [queue EXCEPT ![c] = <<>>]
    /\ lagged' = [lagged EXCEPT ![c] = FALSE]
    /\ UNCHANGED <<holderVars, conn, view>>

\* RecvError::Lagged: show the current activity, then go on with what the
\* channel still holds.
CatchUp(c) ==
    /\ conn[c] = "live"
    /\ lagged[c]
    /\ view' = [view EXCEPT ![c] = activity]
    /\ lagged' = [lagged EXCEPT ![c] = FALSE]
    /\ UNCHANGED <<holderVars, conn, queue>>

Disconnect(c) ==
    /\ conn[c] # "off"
    /\ conn' = [conn EXCEPT ![c] = "off"]
    /\ queue' = [queue EXCEPT ![c] = <<>>]
    /\ lagged' = [lagged EXCEPT ![c] = FALSE]
    /\ view' = [view EXCEPT ![c] = Nobody]
    /\ UNCHANGED holderVars

-----------------------------------------------------------------------------
TaskStep(t) ==
    \/ TryStart(t)
    \/ \E w \in Workers : SpawnWorker(t, w)
    \/ \E p \in {"running", "terminal"} : Update(t, p)
    \/ Drop(t)

WorkerStep(w) == WorkerUpdate(w) \/ Join(w)

Stream(c) == Snapshot(c) \/ Receive(c) \/ CatchUp(c)

SlotNext ==
    \/ \E t \in Tasks : TaskStep(t)
    \/ \E t \in Updaters : Leak(t)
    \/ \E w \in Workers : WorkerStep(w)
    \/ \E p \in Threads : Send(p)
    \/ Restart
    \/ \E c \in Clients : Subscribe(c) \/ Stream(c) \/ Disconnect(c)

SlotSpec == SlotInit /\ [][SlotNext]_slotVars

\* A thread that has left the lock reaches its send, and a connected stream is
\* polled: both run on a multi-threaded tokio runtime without further waiting.
Fairness ==
    /\ \A p \in Threads : WF_slotVars(Send(p))
    /\ \A c \in Clients : WF_slotVars(Stream(c))

SlotFairSpec == SlotSpec /\ Fairness

-----------------------------------------------------------------------------
\* The slot is non-Idle exactly while one guard exists, and that guard belongs
\* to the task whose activity it shows: try_start_activity and Drop together
\* are a lock (activity.rs, "at most one Activity != Idle at a time").
SlotHasOneHolder ==
    /\ \A t \in Tasks : guard[t] # "none" => activity # Idle /\ activity.task = t
    /\ activity # Idle => guard[activity.task] # "none"

Drained(c) == conn[c] = "live" /\ queue[c] = <<>> /\ ~lagged[c]

AllSent == \A p \in Threads : outbox[p] = Nobody

\* A browser that has received everything never keeps a finished activity on
\* screen: once the slot is Idle and every thread has sent, it shows Idle.
\* This needs the workers to be joined before Drop and the stream to subscribe
\* before it takes its snapshot.
NoStuckBanner ==
    \A c \in Clients : activity = Idle /\ AllSent /\ Drained(c) => view[c] = Idle

\* The slot implements the abstract mutex: it is never taken over from a
\* holder and never handed on without passing through Idle.
Slot == INSTANCE SlotMutex
            WITH holder <- IF activity = Idle THEN Nobody ELSE activity.task

ImplementsMutex == Slot!Spec

\* If the slot stays Idle for good, every stream that stays connected ends up
\* showing Idle for good, however many broadcasts it missed.
IdleIsShown ==
    \A c \in Clients :
        <>[](activity = Idle /\ conn[c] # "off") => <>[](view[c] = Idle)
=============================================================================
