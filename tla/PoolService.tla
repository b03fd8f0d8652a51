---------------------------- MODULE PoolService ----------------------------
(***************************************************************************)
(* What a database pool of Replay Control promises to its host, without    *)
(* connections, gates, drains or lifecycle calls: it is open on one file   *)
(* or closed, closures work on that file, one writer at a time, and the    *)
(* next file is opened only when all work on the last one has ended.       *)
(***************************************************************************)
CONSTANTS Readers, Writers, Paths, None

VARIABLES open,    \* new calls are accepted
          serves,  \* the file whose connections can be out, if any
          work     \* work[c]: the file that c's closure works on, or None

vars == <<open, serves, work>>

Callers == Readers \cup Writers

Init ==
    /\ \/ open = FALSE /\ serves = {}
       \/ \E p \in Paths : open = TRUE /\ serves = {p}
    /\ work = [c \in Callers |-> None]

\* A call that was accepted in time may still begin while the pool is closing.
Begin(c) ==
    /\ work[c] = None
    /\ c \in Writers => \A w \in Writers : work[w] = None
    /\ \E p \in serves : work' = [work EXCEPT ![c] = p]
    /\ UNCHANGED <<open, serves>>

End(c) ==
    /\ work[c] # None
    /\ work' = [work EXCEPT ![c] = None]
    /\ UNCHANGED <<open, serves>>

Shut ==
    /\ open
    /\ open' = FALSE
    /\ UNCHANGED <<serves, work>>

Leave ==
    /\ ~open
    /\ \A c \in Callers : work[c] = None
    /\ serves' = {}
    /\ UNCHANGED <<open, work>>

Open(p) ==
    /\ serves = {}
    /\ open' = TRUE
    /\ serves' = {p}
    /\ UNCHANGED work

Next ==
    \/ \E c \in Callers : Begin(c) \/ End(c)
    \/ Shut \/ Leave
    \/ \E p \in Paths : Open(p)

Spec == Init /\ [][Next]_vars
=============================================================================
