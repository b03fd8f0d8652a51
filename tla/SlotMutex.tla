----------------------------- MODULE SlotMutex -----------------------------
(***************************************************************************)
(* What the activity slot of Replay Control promises, without threads,     *)
(* broadcasts or clients: one task at a time, and the slot only changes    *)
(* hands by being given back first.                                        *)
(***************************************************************************)
CONSTANTS Tasks, Nobody

VARIABLE holder

Init == holder = Nobody

Acquire(t) == holder = Nobody /\ holder' = t

Release == holder # Nobody /\ holder' = Nobody

Next == Release \/ \E t \in Tasks : Acquire(t)

Spec == Init /\ [][Next]_holder
=============================================================================
