-------------------------- MODULE ViewCachesProofs --------------------------
(***************************************************************************)
(* Proofs about ViewCaches: that locks are held by who fills a view and    *)
(* waits for nobody, that a view is filled once per invalidation, and that *)
(* what an operation replaced does not come back after its invalidation.   *)
(***************************************************************************)
EXTENDS ViewCaches, TLAPS

-----------------------------------------------------------------------------
(* Stages and what follows them.                                           *)

Filling(c) == {<<c, "load">>, <<c, "store">>}

Stages == {Idle, <<"snapshot", "get">>, <<"library", "read">>, <<"library", "finish">>}
          \cup {<<"favs", "get">>, <<"favs", "load">>, <<"favs", "store">>}
          \cup {<<"recents", "get">>, <<"recents", "load">>, <<"recents", "store">>}

After == {<<"recents", "get">>, <<"favs", "get">>, <<"library", "read">>}

\* The stages are told apart by their names.
LEMMA StagesDiffer ==
    /\ After \subseteq Stages /\ Idle \notin After /\ <<"snapshot", "get">> \notin After
    /\ \A c \in Markers :
          /\ Filling(c) \subseteq Stages /\ <<c, "get">> \in Stages
          /\ Filling(c) \cap After = {}
          /\ Idle \notin Filling(c) /\ <<"snapshot", "get">> \notin Filling(c)
          /\ <<"library", "read">> \notin Filling(c) /\ <<"library", "finish">> \notin Filling(c)
          /\ <<c, "get">> \in After
          /\ \A d \in Markers : d # c => Filling(c) \cap Filling(d) = {}
    /\ <<"library", "read">> # Idle /\ <<"library", "finish">> # Idle
    /\ <<"library", "read">> # <<"snapshot", "get">> /\ <<"library", "finish">> # <<"snapshot", "get">>
    /\ <<"library", "finish">> \notin After /\ <<"snapshot", "get">> # Idle
    /\ \A c \in Markers : \A x \in {"get", "load", "store"} : <<c, x>> \in Stages \ {Idle, <<"snapshot", "get">>}
  BY DEF Stages, After, Filling, Markers, Idle

\* Where a request goes after a view.
LEMMA FollowingStages ==
    ASSUME NEW r \in Requests, NEW c \in Markers
    PROVE  Following(r, c) \subseteq After
  <1>1. CASE r \in Homes /\ c = "favs"
    BY <1>1, CachesAssumption DEF Following, After, CachesAssumption
  <1>2. CASE r \in Homes /\ c = "recents"
    BY <1>2, CachesAssumption DEF Following, After, CachesAssumption
  <1>3. CASE r \in Pages /\ c = "recents"
    BY <1>3, CachesAssumption DEF Following, After, CachesAssumption
  <1>4. CASE r \in Pages /\ c = "favs"
    BY <1>4, CachesAssumption DEF Following, After, CachesAssumption
  <1> QED
    BY <1>1, <1>2, <1>3, <1>4 DEF Requests, Markers

-----------------------------------------------------------------------------
(* Locks.                                                                  *)

LockType ==
    /\ lock \in [Locked -> Requests \cup {None}]
    /\ pc \in [Requests -> Stages]
    /\ value = [c \in Caches |-> value[c]]

\* Who fills a view holds its lock, and nobody else does.
FillersHold == \A c \in Markers, r \in Requests : pc[r] \in Filling(c) <=> lock[c] = r

\* A home page that is past its look at the snapshot holds the snapshot's lock.
HomesHold ==
    /\ \A r \in Homes : pc[r] \notin {Idle, <<"snapshot", "get">>} <=> lock["snapshot"] = r
    /\ \A r \in Pages : lock["snapshot"] # r /\ pc[r] # <<"snapshot", "get">>

\* A view whose lock is held is not filled yet.
LockedIsEmpty == \A c \in Locked : lock[c] # None => value[c] = None

LockInv == LockType /\ FillersHold /\ HomesHold /\ LockedIsEmpty

\* Names of caches.
LEMMA LockNames ==
    /\ Markers \subseteq Locked /\ Locked \subseteq Caches /\ "snapshot" \in Locked
    /\ "snapshot" \notin Markers
    /\ \A c \in Locked : c = "snapshot" \/ c \in Markers
    /\ None \notin Requests
    /\ \A r \in Requests : (r \in Homes <=> r \notin Pages)
  BY CachesAssumption DEF Markers, Locked, Caches, Requests, CachesAssumption

\* Nothing is locked at the start.
LEMMA LockInit == Init => LockInv
  <1> SUFFICES ASSUME Init PROVE LockInv
    OBVIOUS
  <1>1. /\ \A r \in Requests : pc[r] = Idle
        /\ \A c \in Locked : lock[c] = None
        /\ \A r \in Homes \cup Pages : r # None /\ r \in Requests
    BY LockNames DEF Init, Requests
  <1>2. LockType
    BY DEF Init, LockType, Stages
  <1>3. FillersHold
    BY <1>1, StagesDiffer, LockNames DEF FillersHold, Requests
  <1>4. HomesHold
    BY <1>1, StagesDiffer, LockNames DEF HomesHold
  <1> QED
    BY <1>1, <1>2, <1>3, <1>4 DEF LockInv, LockedIsEmpty

\* What leaves locks and stages alone, and at most empties caches.
LEMMA LockKept ==
    ASSUME LockInv, UNCHANGED <<lock, pc>>, value' = [c \in Caches |-> value'[c]],
           \A c \in Locked : value'[c] \in {value[c], None}
    PROVE  LockInv'
  BY DEF LockInv, LockType, FillersHold, HomesHold, LockedIsEmpty

\* The operations.
LEMMA LockOperation ==
    ASSUME LockInv, NEW w \in Writers, Operation(w)
    PROVE  LockInv' /\ \A c \in Locked : value[c] # None => value'[c] \in {value[c], None}
  <1> USE DEF cacheVars, requestVars
  <1>0. value = [c \in Caches |-> value[c]]
    BY DEF LockInv, LockType
  <1>1. CASE OpInvalidate(w)
    <2>1. UNCHANGED <<lock, pc>> /\ value' = [value EXCEPT ![Target(w)] = None]
      BY <1>1 DEF OpInvalidate, Cleared
    <2>2. value' = [c \in Caches |-> value'[c]] /\ \A c \in Caches : value'[c] \in {value[c], None}
      BY <1>0, <2>1
    <2>3. \A c \in Locked : value'[c] \in {value[c], None}
      BY <2>2, LockNames
    <2> QED
      BY <2>1, <2>2, <2>3, LockKept
  <1>2. CASE UNCHANGED <<value, lock, pc>>
    BY <1>0, <1>2, LockKept
  <1> QED
    BY <1>1, <1>2 DEF Operation, OpStart, OpWrite, OpSwap, OpWriteFails, OpDropped

\* A request that moves from one stage to another without a lock in between.
LEMMA LockMove ==
    ASSUME LockInv, NEW r \in Requests, NEW stage \in Stages, pc' = [pc EXCEPT ![r] = stage],
           UNCHANGED <<lock, value>>,
           \A c \in Markers : pc[r] \in Filling(c) <=> stage \in Filling(c),
           r \in Homes => ((pc[r] \in {Idle, <<"snapshot", "get">>}) <=>
                               (stage \in {Idle, <<"snapshot", "get">>})),
           r \in Pages => stage # <<"snapshot", "get">>
    PROVE  LockInv'
  <1>1. /\ pc' \in [Requests -> Stages] /\ pc'[r] = stage
        /\ \A q \in Requests : q # r => pc'[q] = pc[q]
    BY DEF LockInv, LockType
  <1>2. LockType' /\ LockedIsEmpty'
    BY <1>1 DEF LockInv, LockType, LockedIsEmpty
  <1>3. FillersHold'
    BY <1>1 DEF LockInv, FillersHold
  <1>4. HomesHold'
    BY <1>1, LockNames DEF LockInv, HomesHold, Requests
  <1> QED
    BY <1>2, <1>3, <1>4 DEF LockInv

\* The looks at the snapshot.
LEMMA LockHomes ==
    ASSUME LockInv, NEW r \in Requests, HomeMiss(r) \/ HomeLock(r)
    PROVE  LockInv' /\ value' = value
  <1> USE DEF cacheVars
  <1>0. pc[r] \in Stages
    BY DEF LockInv, LockType
  <1>1. CASE HomeMiss(r)
    <2>0. PICK stage : stage = <<"snapshot", "get">>
      OBVIOUS
    <2>1. pc' = [pc EXCEPT ![r] = stage] /\ UNCHANGED <<lock, value>>
            /\ r \in Homes /\ pc[r] = Idle
      BY <1>1, <2>0 DEF HomeMiss, Go
    <2>2. r \notin Pages /\ stage \in Stages /\ stage \in {Idle, <<"snapshot", "get">>}
      BY <2>0, <2>1, LockNames DEF Stages
    <2>3. \A c \in Markers : pc[r] \notin Filling(c) /\ stage \notin Filling(c)
      BY <2>0, <2>1, StagesDiffer
    <2> QED
      BY <2>1, <2>2, <2>3, LockMove
  <1>2. CASE HomeLock(r) /\ value["snapshot"] # None
    <2>1. pc' = [pc EXCEPT ![r] = Idle] /\ UNCHANGED <<lock, value>>
            /\ pc[r] = <<"snapshot", "get">>
      BY <1>2 DEF HomeLock, Go
    <2>2. /\ Idle \in Stages /\ Idle # <<"snapshot", "get">>
          /\ \A c \in Markers : pc[r] \notin Filling(c) /\ Idle \notin Filling(c)
      BY <2>1 DEF Stages, Filling, Markers, Idle
    <2> QED
      BY <2>1, <2>2, LockMove
  <1>3. CASE HomeLock(r) /\ value["snapshot"] = None
    <2>1. /\ pc' = [pc EXCEPT ![r] = <<"favs", "get">>] /\ UNCHANGED value
          /\ lock["snapshot"] = None /\ lock' = [lock EXCEPT !["snapshot"] = r]
          /\ pc[r] = <<"snapshot", "get">>
      BY <1>3 DEF HomeLock, Go
    <2>2. r \in Homes
      BY <2>1, LockNames DEF LockInv, HomesHold
    <2>3. /\ <<"favs", "get">> \in Stages /\ <<"favs", "get">> \notin {Idle, <<"snapshot", "get">>}
          /\ \A c \in Markers : <<"favs", "get">> \notin Filling(c)
          /\ \A c \in Markers : <<"snapshot", "get">> \notin Filling(c)
      BY DEF Stages, Filling, Markers, Idle
    <2>4. /\ pc'[r] = <<"favs", "get">> /\ \A q \in Requests : q # r => pc'[q] = pc[q]
          /\ lock'["snapshot"] = r /\ \A c \in Markers : lock'[c] = lock[c]
      BY <2>1, LockNames DEF LockInv, LockType
    <2>5. LockType'
      BY <2>1, <2>3 DEF LockInv, LockType
    <2>1a. FillersHold'
      BY <2>1, <2>3, <2>4 DEF LockInv, FillersHold
    <2>7. HomesHold'
      BY <2>1, <2>2, <2>3, <2>4, LockNames DEF LockInv, HomesHold, Requests
    <2>8. LockedIsEmpty'
      BY <1>3, <2>1, <2>4, LockNames DEF LockInv, LockedIsEmpty
    <2> QED
      BY <2>1, <2>5, <2>1a, <2>7, <2>8 DEF LockInv
  <1> QED
    BY <1>1, <1>2, <1>3

\* Requests in the stages between their locks.
LEMMA LockReads ==
    ASSUME LockInv, NEW r \in Requests,
           \/ PageMiss(r)
           \/ ReadLibrary(r)
           \/ ReadUnavailable(r)
           \/ \E c \in Markers : ViewLoad(r, c)
    PROVE  LockInv' /\ value' = value
  <1> USE DEF cacheVars
  <1>1. CASE PageMiss(r)
    <2>1. /\ pc' = [pc EXCEPT ![r] = <<"recents", "get">>] /\ UNCHANGED <<lock, value>>
          /\ r \in Pages /\ pc[r] = Idle
      BY <1>1 DEF PageMiss, Go
    <2>2. /\ <<"recents", "get">> \in Stages \ {<<"snapshot", "get">>}
          /\ \A c \in Markers : pc[r] \notin Filling(c) /\ <<"recents", "get">> \notin Filling(c)
          /\ r \notin Homes
      BY <2>1, LockNames DEF Stages, Filling, Markers, Idle
    <2> QED
      BY <2>1, <2>2, LockMove
  <1>2. CASE ReadLibrary(r) \/ ReadUnavailable(r)
    <2>1. /\ pc' = [pc EXCEPT ![r] = <<"library", "finish">>] /\ UNCHANGED <<lock, value>>
          /\ pc[r] = <<"library", "read">>
      BY <1>2 DEF ReadLibrary, ReadUnavailable, Go
    <2>2. /\ <<"library", "finish">> \in Stages \ {Idle, <<"snapshot", "get">>}
          /\ pc[r] \notin {Idle, <<"snapshot", "get">>}
          /\ \A c \in Markers : pc[r] \notin Filling(c) /\ <<"library", "finish">> \notin Filling(c)
      BY <2>1 DEF Stages, Filling, Markers, Idle
    <2> QED
      BY <2>1, <2>2, LockMove
  <1>3. ASSUME NEW c \in Markers, ViewLoad(r, c) PROVE LockInv' /\ value' = value
    <2>1. /\ pc' = [pc EXCEPT ![r] = <<c, "store">>] /\ UNCHANGED <<lock, value>>
          /\ pc[r] = <<c, "load">>
      BY <1>3 DEF ViewLoad, Go
    <2>2. /\ <<c, "store">> \in Stages \ {Idle, <<"snapshot", "get">>}
          /\ pc[r] \notin {Idle, <<"snapshot", "get">>}
          /\ \A d \in Markers : pc[r] \in Filling(d) <=> <<c, "store">> \in Filling(d)
      BY <2>1 DEF Stages, Filling, Markers, Idle
    <2> QED
      BY <2>1, <2>2, LockMove
  <1> QED
    BY <1>1, <1>2, <1>3

\* The lock of a view is taken by who will fill it.
LEMMA LockTaken ==
    ASSUME LockInv, NEW r \in Requests, NEW c \in Markers,
           pc[r] = <<c, "get">>, lock[c] = None, value[c] = None,
           lock' = [lock EXCEPT ![c] = r], pc' = [pc EXCEPT ![r] = <<c, "load">>], value' = value
    PROVE  LockInv'
  <1>1. /\ <<c, "load">> \in Stages \ {Idle, <<"snapshot", "get">>} /\ <<c, "load">> \in Filling(c)
        /\ pc[r] \notin {Idle, <<"snapshot", "get">>}
        /\ \A d \in Markers : pc[r] \notin Filling(d)
        /\ \A d \in Markers : d # c => <<c, "load">> \notin Filling(d)
    BY DEF Stages, Filling, Markers, Idle
  <1>2. /\ pc' \in [Requests -> Stages] /\ pc'[r] = <<c, "load">>
        /\ \A q \in Requests : q # r => pc'[q] = pc[q]
        /\ lock'[c] = r /\ \A d \in Locked : d # c => lock'[d] = lock[d]
        /\ lock' \in [Locked -> Requests \cup {None}] /\ c \in Locked /\ c # "snapshot"
    BY <1>1, LockNames DEF LockInv, LockType
  <1>3. LockType' /\ LockedIsEmpty'
    BY <1>2 DEF LockInv, LockType, LockedIsEmpty
  <1>4. FillersHold'
    BY <1>1, <1>2, LockNames DEF LockInv, FillersHold
  <1>5. HomesHold'
    BY <1>1, <1>2, LockNames DEF LockInv, HomesHold, Requests
  <1> QED
    BY <1>3, <1>4, <1>5 DEF LockInv

\* The lock of a view is given back by who held it, whatever it filled in.
LEMMA LockGivenBack ==
    ASSUME LockInv, NEW r \in Requests, NEW c \in Markers, NEW stage \in After,
           pc[r] \in Filling(c),
           lock' = [lock EXCEPT ![c] = None], pc' = [pc EXCEPT ![r] = stage],
           value' = [d \in Caches |-> value'[d]],
           \A d \in Locked : d # c => value'[d] = value[d]
    PROVE  LockInv'
  <1>1. /\ stage \in Stages \ {Idle, <<"snapshot", "get">>}
        /\ pc[r] \notin {Idle, <<"snapshot", "get">>}
        /\ \A d \in Markers : stage \notin Filling(d)
        /\ \A d \in Markers : d # c => pc[r] \notin Filling(d)
    BY DEF After, Stages, Filling, Markers, Idle
  <1>2. /\ pc' \in [Requests -> Stages] /\ pc'[r] = stage
        /\ \A q \in Requests : q # r => pc'[q] = pc[q]
        /\ lock'[c] = None /\ \A d \in Locked : d # c => lock'[d] = lock[d]
        /\ lock' \in [Locked -> Requests \cup {None}] /\ c \in Locked /\ c # "snapshot"
    BY <1>1, LockNames DEF LockInv, LockType
  <1>3. LockType' /\ LockedIsEmpty'
    BY <1>2 DEF LockInv, LockType, LockedIsEmpty
  <1>4. FillersHold'
    BY <1>1, <1>2, LockNames DEF LockInv, FillersHold
  <1>5. HomesHold'
    BY <1>1, <1>2, LockNames DEF LockInv, HomesHold, Requests
  <1> QED
    BY <1>3, <1>4, <1>5 DEF LockInv

\* The views.
LEMMA LockViews ==
    ASSUME LockInv, NEW r \in Requests, NEW c \in Markers,
           ViewGet(r, c) \/ ViewLoadFails(r, c) \/ ViewStore(r, c)
    PROVE  LockInv' /\ \A d \in Locked : value[d] # None => value'[d] \in {value[d], None}
  <1>0. value = [d \in Caches |-> value[d]]
    BY DEF LockInv, LockType
  <1>1. CASE ViewGet(r, c) /\ value[c] = None
    BY <1>1, LockTaken DEF ViewGet, Go
  <1>2. CASE ViewGet(r, c) /\ value[c] # None
    <2>1. PICK stage \in After : /\ pc' = [pc EXCEPT ![r] = stage] /\ UNCHANGED <<lock, value>>
                                 /\ pc[r] = <<c, "get">>
      BY <1>2, FollowingStages DEF ViewGet, Go
    <2>2. /\ stage \in Stages \ {Idle, <<"snapshot", "get">>}
          /\ pc[r] \notin {Idle, <<"snapshot", "get">>}
          /\ \A d \in Markers : pc[r] \notin Filling(d) /\ stage \notin Filling(d)
      BY <2>1 DEF After, Stages, Filling, Markers, Idle
    <2> QED
      BY <2>1, <2>2, LockMove
  <1>3. CASE ViewLoadFails(r, c) /\ c = "favs"
    <2>1. /\ pc' = [pc EXCEPT ![r] = <<c, "store">>] /\ UNCHANGED <<lock, value>>
          /\ pc[r] = <<c, "load">>
      BY <1>3 DEF ViewLoadFails, Go
    <2>2. /\ <<c, "store">> \in Stages \ {Idle, <<"snapshot", "get">>}
          /\ pc[r] \notin {Idle, <<"snapshot", "get">>}
          /\ \A d \in Markers : pc[r] \in Filling(d) <=> <<c, "store">> \in Filling(d)
      BY <2>1 DEF Stages, Filling, Markers, Idle
    <2> QED
      BY <2>1, <2>2, LockMove
  <1>4. CASE ViewLoadFails(r, c) /\ c # "favs"
    <2>1. PICK stage \in After :
             /\ pc' = [pc EXCEPT ![r] = stage] /\ UNCHANGED value
             /\ lock' = [lock EXCEPT ![c] = None] /\ pc[r] = <<c, "load">>
      BY <1>4, FollowingStages DEF ViewLoadFails, Go
    <2>2. pc[r] \in Filling(c)
      BY <2>1 DEF Filling
    <2> QED
      BY <1>0, <2>1, <2>2, LockGivenBack
  <1>5. CASE ViewStore(r, c)
    <2>1. PICK stage \in After :
             /\ pc' = [pc EXCEPT ![r] = stage] /\ value' = [value EXCEPT ![c] = got[r][c]]
             /\ lock' = [lock EXCEPT ![c] = None] /\ pc[r] = <<c, "store">>
      BY <1>5, FollowingStages DEF ViewStore, Go
    <2>2. pc[r] \in Filling(c)
      BY <2>1 DEF Filling
    <2>3. value' = [d \in Caches |-> value'[d]] /\ \A d \in Locked : d # c => value'[d] = value[d]
      BY <1>0, <2>1, LockNames
    <2>4. value[c] = None
      BY <2>2, LockNames DEF LockInv, FillersHold, LockedIsEmpty
    <2> QED
      BY <2>1, <2>2, <2>3, <2>4, LockGivenBack
  <1> QED
    BY <1>1, <1>2, <1>3, <1>4, <1>5

\* A request that ends: it holds no lock of a view, and gives back the others.
LEMMA LockEnds ==
    ASSUME LockInv, NEW r \in Requests, HomeFinish(r) \/ PageFinish(r) \/ Leave(r)
    PROVE  LockInv' /\ \A c \in Locked : value[c] # None => value'[c] \in {value[c], None}
  <1>0. value = [d \in Caches |-> value[d]] /\ Idle \in Stages
    BY DEF LockInv, LockType, Stages
  <1>1. ASSUME NEW L \in [Locked -> Requests \cup {None}],
               L = [c \in Locked |-> IF lock[c] = r THEN None ELSE lock[c]],
               lock' = L, pc' = [pc EXCEPT ![r] = Idle],
               value' = [d \in Caches |-> value'[d]],
               \A c \in Locked : value'[c] = value[c] \/ lock[c] = r
        PROVE  LockInv' /\ \A c \in Locked : value[c] # None => value'[c] \in {value[c], None}
    <2>1. /\ pc' \in [Requests -> Stages] /\ pc'[r] = Idle
          /\ \A q \in Requests : q # r => pc'[q] = pc[q]
          /\ \A c \in Locked : lock'[c] = IF lock[c] = r THEN None ELSE lock[c]
          /\ \A c \in Markers : Idle \notin Filling(c)
          /\ r # None
      BY <1>0, <1>1, LockNames, StagesDiffer DEF LockInv, LockType
    <2>2. LockType' /\ LockedIsEmpty'
      BY <1>1, <2>1 DEF LockInv, LockType, LockedIsEmpty
    <2>3. FillersHold'
      BY <2>1, LockNames DEF LockInv, FillersHold
    <2>4. HomesHold'
      BY <2>1, LockNames, StagesDiffer DEF LockInv, HomesHold, Requests
    <2>5. \A c \in Locked : value[c] # None => value'[c] \in {value[c], None}
      BY <1>1, LockNames DEF LockInv, LockedIsEmpty
    <2> QED
      BY <2>2, <2>3, <2>4, <2>5 DEF LockInv
  <1>2. [c \in Locked |-> IF lock[c] = r THEN None ELSE lock[c]] \in [Locked -> Requests \cup {None}]
    BY DEF LockInv, LockType
  <1>3. CASE Leave(r)
    BY <1>0, <1>1, <1>2, <1>3 DEF Leave, Forget, Go
  <1>4. CASE HomeFinish(r)
    <2>1. /\ r \in Homes /\ pc[r] = <<"library", "finish">> /\ pc' = [pc EXCEPT ![r] = Idle]
          /\ lock' = [lock EXCEPT !["snapshot"] = None]
      BY <1>4 DEF HomeFinish, Forget, Go
    <2>1a. pc[r] \notin {Idle, <<"snapshot", "get">>} /\ \A c \in Markers : pc[r] \notin Filling(c)
      BY <2>1 DEF Idle, Filling, Markers
    <2>2. lock["snapshot"] = r /\ \A c \in Markers : lock[c] # r
      BY <2>1, <2>1a DEF LockInv, HomesHold, FillersHold
    <2>3. lock' = [c \in Locked |-> IF lock[c] = r THEN None ELSE lock[c]]
      BY <2>1, <2>2, LockNames DEF LockInv, LockType
    <2>4. value' = [d \in Caches |-> value'[d]] /\ \A c \in Markers : value'[c] = value[c]
      BY <1>0, <1>4, LockNames DEF HomeFinish, Markers
    <2>5. \A c \in Locked : value'[c] = value[c] \/ lock[c] = r
      BY <2>2, <2>4, LockNames
    <2> QED
      BY <1>1, <1>2, <2>1, <2>3, <2>4, <2>5
  <1>5. CASE PageFinish(r)
    <2>1. /\ r \in Pages /\ pc[r] = <<"library", "finish">> /\ pc' = [pc EXCEPT ![r] = Idle]
          /\ lock' = lock
      BY <1>5 DEF PageFinish, Forget, Go
    <2>1a. pc[r] \notin {Idle, <<"snapshot", "get">>} /\ \A c \in Markers : pc[r] \notin Filling(c)
      BY <2>1 DEF Idle, Filling, Markers
    <2>2. \A c \in Locked : lock[c] # r
      BY <2>1, <2>1a, LockNames DEF LockInv, HomesHold, FillersHold
    <2>3. lock' = [c \in Locked |-> IF lock[c] = r THEN None ELSE lock[c]]
      BY <2>1, <2>2 DEF LockInv, LockType
    <2>4. value' = [d \in Caches |-> value'[d]] /\ \A c \in Locked : value'[c] = value[c]
      BY <1>0, <1>5 DEF PageFinish, Locked, Caches
    <2> QED
      BY <1>1, <1>2, <2>1, <2>3, <2>4
  <1> QED
    BY <1>3, <1>4, <1>5

\* A step keeps the locks in order and fills no view that is filled.
LEMMA LockNext ==
    ASSUME LockInv, [Next]_vars
    PROVE  LockInv' /\ \A c \in Locked : value[c] # None => value'[c] \in {value[c], None}
  <1>1. ASSUME NEW w \in Writers, Operation(w)
        PROVE  LockInv' /\ \A c \in Locked : value[c] # None => value'[c] \in {value[c], None}
    BY <1>1, LockOperation
  <1>2. ASSUME NEW r \in Requests, HomeMiss(r) \/ PageMiss(r) \/ Progress(r) \/ Leave(r)
        PROVE  LockInv' /\ \A c \in Locked : value[c] # None => value'[c] \in {value[c], None}
    <2>1. CASE HomeMiss(r) \/ HomeLock(r)
      BY <2>1, LockHomes
    <2>2. CASE PageMiss(r) \/ ReadLibrary(r) \/ ReadUnavailable(r) \/ \E c \in Markers : ViewLoad(r, c)
      BY <2>2, LockReads
    <2>3. CASE HomeFinish(r) \/ PageFinish(r) \/ Leave(r)
      BY <2>3, LockEnds
    <2>4. CASE \E c \in Markers : ViewGet(r, c) \/ ViewLoadFails(r, c) \/ ViewStore(r, c)
      BY <2>4, LockViews
    <2> QED
      BY <1>2, <2>1, <2>2, <2>3, <2>4 DEF Progress
  <1>3. CASE Expire \/ UNCHANGED vars
    <2>1. UNCHANGED <<value, lock, pc>>
      BY <1>3 DEF Expire, vars, cacheVars, requestVars
    <2> QED
      BY <2>1, LockKept DEF LockInv, LockType
  <1> QED
    BY <1>1, <1>2, <1>3 DEF Next

\* The invariant holds in every reachable state.
LEMMA LockInvariant == Spec => []LockInv
  <1>1. LockInv /\ [Next]_vars => LockInv'
    BY LockNext
  <1> QED
    BY <1>1, LockInit, PTL DEF Spec

\* Whatever requests fill, finish or leave, a lock is held only by who is
\* filling its view, so a holder of two locks waits for nobody: for any
\* number of home pages and favorites pages.
THEOREM LocksMakeNoCycle == Spec => []NoLockCycle
  <1>1. LockInv => NoLockCycle
    <2> SUFFICES ASSUME LockInv PROVE NoLockCycle
      OBVIOUS
    <2>1. \A c \in Locked : lock[c] # None => lock[c] \in Requests
      BY DEF LockInv, LockType
    <2>2. ASSUME NEW c \in Markers, lock[c] # None
          PROVE  pc[lock[c]] \in {c} \X {"load", "store"}
      <3>1. pc[lock[c]] \in Filling(c)
        BY <2>1, <2>2, LockNames DEF LockInv, FillersHold
      <3> QED
        BY <3>1 DEF Filling
    <2>3. ASSUME lock["snapshot"] # None
          PROVE  /\ lock["snapshot"] \in Homes
                 /\ pc[lock["snapshot"]] \notin {Idle, <<"snapshot", "get">>}
      BY <2>1, <2>3, LockNames DEF LockInv, HomesHold, Requests
    <2> QED
      BY <2>2, <2>3 DEF NoLockCycle
  <1> QED
    BY <1>1, LockInvariant, PTL

\* Requests that miss at the same time share one result: a filled view is
\* replaced only after an invalidation has emptied it.
THEOREM FilledOnce == Spec => FilledOncePerWindow
  <1>1. LockInv /\ [Next]_vars =>
           [\A c \in Locked : value[c] # None => value'[c] \in {value[c], None}]_vars
    BY LockNext
  <1> QED
    BY <1>1, LockInvariant, PTL DEF Spec, FilledOncePerWindow

-----------------------------------------------------------------------------
(* Operations.                                                             *)

Steps == {Write(src) : src \in Sources} \cup {Invalidate(c) : c \in Caches} \cup {Swap}

Kinds == DOMAIN Script \cup {None}

\* The invalidation of m is still to come, before that of the snapshot.
Pending(todo, m) ==
    \E k \in 1 .. Len(todo) :
        /\ todo[k] = Invalidate(m)
        /\ \A j \in 1 .. k - 1 : todo[j] # Invalidate("snapshot")

\* After what changes m comes the invalidation of m, before the snapshot's.
Orderly(todo) ==
    \A i \in 1 .. Len(todo), m \in Markers :
        todo[i] \in {Write(m), Swap} =>
            \E k \in i + 1 .. Len(todo) :
                /\ todo[k] = Invalidate(m)
                /\ \A j \in i + 1 .. k - 1 : todo[j] # Invalidate("snapshot")

\* The parts of a step of an operation.
LEMMA StepParts ==
    /\ \A st \in Steps :
          /\ st[1] = "write" => st[2] \in Sources /\ st = Write(st[2])
          /\ st[1] = "invalidate" => st[2] \in Caches /\ st = Invalidate(st[2])
          /\ st[1] = "swap" => st = Swap
    /\ \A c, d \in Caches : Invalidate(c) = Invalidate(d) => c = d
    /\ \A src \in Sources, c \in Caches : Write(src) # Invalidate(c) /\ Write(src) # Swap
    /\ \A src, other \in Sources : Write(src) = Write(other) => src = other
    /\ \A c \in Caches : Swap # Invalidate(c)
  BY DEF Steps, Write, Invalidate, Swap

\* Taking the first step off.
LEMMA TailOfSteps ==
    ASSUME NEW q \in Seq(Steps), q # <<>>
    PROVE  /\ Head(q) \in Steps /\ Head(q) = q[1] /\ Tail(q) \in Seq(Steps)
           /\ Len(q) \in Nat /\ Len(q) >= 1 /\ Len(Tail(q)) = Len(q) - 1
           /\ \A i \in 1 .. Len(q) - 1 : Tail(q)[i] = q[i + 1]
  OBVIOUS

\* What is orderly stays so, step by step.
LEMMA OrderlyTail ==
    ASSUME NEW q \in Seq(Steps), q # <<>>, Orderly(q)
    PROVE  /\ Orderly(Tail(q))
           /\ \A m \in Markers : Head(q) \in {Write(m), Swap} => Pending(Tail(q), m)
  <1> USE TailOfSteps
  <1>1. ASSUME NEW i \in 1 .. Len(q), NEW m \in Markers, q[i] \in {Write(m), Swap}
        PROVE  \E k \in i .. Len(Tail(q)) :
                  /\ Tail(q)[k] = Invalidate(m)
                  /\ \A j \in i .. k - 1 : Tail(q)[j] # Invalidate("snapshot")
    <2>1. PICK k \in i + 1 .. Len(q) :
             /\ q[k] = Invalidate(m)
             /\ \A j \in i + 1 .. k - 1 : q[j] # Invalidate("snapshot")
      BY <1>1 DEF Orderly
    <2>2. k - 1 \in i .. Len(Tail(q)) /\ Tail(q)[k - 1] = Invalidate(m)
      BY <2>1
    <2>3. \A j \in i .. (k - 1) - 1 : Tail(q)[j] # Invalidate("snapshot")
      BY <2>1
    <2> QED
      BY <2>2, <2>3
  <1>2. Orderly(Tail(q))
    <2> SUFFICES ASSUME NEW i \in 1 .. Len(Tail(q)), NEW m \in Markers, Tail(q)[i] \in {Write(m), Swap}
                 PROVE  \E k \in i + 1 .. Len(Tail(q)) :
                           /\ Tail(q)[k] = Invalidate(m)
                           /\ \A j \in i + 1 .. k - 1 : Tail(q)[j] # Invalidate("snapshot")
      BY DEF Orderly
    <2>1. i + 1 \in 1 .. Len(q) /\ q[i + 1] \in {Write(m), Swap}
      OBVIOUS
    <2> QED
      BY <1>1, <2>1
  <1>3. \A m \in Markers : Head(q) \in {Write(m), Swap} => Pending(Tail(q), m)
    <2>1. 1 \in 1 .. Len(q) /\ Head(q) = q[1]
      OBVIOUS
    <2> QED
      BY <1>1, <2>1 DEF Pending
  <1> QED
    BY <1>2, <1>3

\* An invalidation that is to come still is, unless it is the next step.
LEMMA PendingTail ==
    ASSUME NEW q \in Seq(Steps), NEW m \in Markers, Pending(q, m)
    PROVE  /\ q # <<>>
           /\ Head(q) # Invalidate("snapshot")
           /\ Head(q) # Invalidate(m) => Pending(Tail(q), m)
  <1>1. PICK k \in 1 .. Len(q) :
           /\ q[k] = Invalidate(m)
           /\ \A j \in 1 .. k - 1 : q[j] # Invalidate("snapshot")
    BY DEF Pending
  <1>2. q # <<>>
    BY <1>1
  <1>3. Invalidate(m) # Invalidate("snapshot")
    BY DEF Invalidate, Markers
  <1>4. Head(q) # Invalidate("snapshot")
    BY <1>1, <1>2, <1>3, TailOfSteps
  <1>5. ASSUME Head(q) # Invalidate(m) PROVE Pending(Tail(q), m)
    <2>1. k - 1 \in 1 .. Len(Tail(q)) /\ Tail(q)[k - 1] = Invalidate(m)
      BY <1>1, <1>2, <1>5, TailOfSteps
    <2>2. \A j \in 1 .. (k - 1) - 1 : Tail(q)[j] # Invalidate("snapshot")
      BY <1>1, <1>2, TailOfSteps
    <2> QED
      BY <2>1, <2>2 DEF Pending
  <1> QED
    BY <1>2, <1>4, <1>5

\* What a concatenation is made of.
LEMMA ConcatSteps ==
    ASSUME NEW p \in Seq(Steps), NEW q \in Seq(Steps)
    PROVE  /\ p \o q \in Seq(Steps)
           /\ Len(p) \in Nat /\ Len(q) \in Nat /\ Len(p \o q) = Len(p) + Len(q)
           /\ \A i \in 1 .. Len(p) : (p \o q)[i] = p[i]
           /\ \A i \in 1 .. Len(q) : (p \o q)[Len(p) + i] = q[i]
  OBVIOUS

\* An orderly list before an orderly list is orderly.
LEMMA ConcatOrderly ==
    ASSUME NEW p \in Seq(Steps), NEW q \in Seq(Steps), Orderly(p), Orderly(q)
    PROVE  p \o q \in Seq(Steps) /\ Orderly(p \o q)
  <1>1. PICK c : c = p \o q
    OBVIOUS
  <1>2. /\ c \in Seq(Steps)
        /\ Len(p) \in Nat /\ Len(q) \in Nat /\ Len(c) = Len(p) + Len(q)
        /\ \A i \in 1 .. Len(p) : c[i] = p[i]
        /\ \A i \in 1 .. Len(q) : c[Len(p) + i] = q[i]
    BY <1>1, ConcatSteps
  <1>3. Orderly(c)
    <2> SUFFICES ASSUME NEW i \in 1 .. Len(c), NEW m \in Markers, c[i] \in {Write(m), Swap}
                 PROVE  \E k \in i + 1 .. Len(c) :
                           /\ c[k] = Invalidate(m)
                           /\ \A j \in i + 1 .. k - 1 : c[j] # Invalidate("snapshot")
      BY DEF Orderly
    <2>1. CASE i <= Len(p)
      <3>1. PICK k \in i + 1 .. Len(p) :
               /\ p[k] = Invalidate(m)
               /\ \A j \in i + 1 .. k - 1 : p[j] # Invalidate("snapshot")
        BY <1>2, <2>1 DEF Orderly
      <3>2. k \in i + 1 .. Len(c) /\ c[k] = Invalidate(m)
        BY <1>2, <3>1
      <3>3. \A j \in i + 1 .. k - 1 : c[j] # Invalidate("snapshot")
        BY <1>2, <3>1
      <3> QED
        BY <3>2, <3>3
    <2>2. CASE i > Len(p)
      <3>0. PICK h \in 1 .. Len(q) : i = Len(p) + h
        <4>1. i - Len(p) \in 1 .. Len(q) /\ i = Len(p) + (i - Len(p))
          BY <1>2, <2>2
        <4> QED
          BY <4>1
      <3>1. PICK k \in h + 1 .. Len(q) :
               /\ q[k] = Invalidate(m)
               /\ \A j \in h + 1 .. k - 1 : q[j] # Invalidate("snapshot")
        BY <1>2, <3>0 DEF Orderly
      <3>2. Len(p) + k \in i + 1 .. Len(c) /\ c[Len(p) + k] = Invalidate(m)
        BY <1>2, <3>0, <3>1
      <3>3. ASSUME NEW j \in i + 1 .. (Len(p) + k) - 1 PROVE c[j] # Invalidate("snapshot")
        <4>1. j - Len(p) \in h + 1 .. k - 1 /\ j - Len(p) \in 1 .. Len(q) /\ j = Len(p) + (j - Len(p))
          BY <1>2, <3>0, <3>1
        <4>2. c[j] = q[j - Len(p)]
          BY <1>2, <4>1
        <4> QED
          BY <3>1, <4>1, <4>2
      <3> QED
        BY <3>2, <3>3
    <2> QED
      BY <1>2, <2>1, <2>2
  <1> QED
    BY <1>1, <1>2, <1>3

\* Lists that change no marker.
LEMMA QuietIsOrderly ==
    ASSUME NEW q \in Seq(Steps),
           \A i \in 1 .. Len(q) : \A m \in Markers : q[i] \notin {Write(m), Swap}
    PROVE  Orderly(q)
  BY DEF Orderly

\* The pieces that the operations are made of.
LEMMA PiecesAreOrderly ==
    /\ \A c \in Caches : Invalidate(c) \in Steps
    /\ \A src \in Sources : Write(src) \in Steps
    /\ Swap \in Steps
    /\ InMemoryViews \in Seq(Steps) /\ Orderly(InMemoryViews)
    /\ UserCaches \in Seq(Steps) /\ Orderly(UserCaches)
    /\ <<Write("library")>> \in Seq(Steps) /\ Orderly(<<Write("library")>>)
  <1>1. /\ \A c \in Caches : Invalidate(c) \in Steps
        /\ \A src \in Sources : Write(src) \in Steps
        /\ Swap \in Steps
    BY DEF Steps
  <1>2. /\ {"favs", "recents", "pills", "response", "snapshot"} \subseteq Caches
        /\ "library" \in Sources /\ Markers \subseteq Sources /\ "library" \notin Markers
    BY DEF Caches, Locked, Sources, Markers
  <1>3. InMemoryViews \in Seq(Steps) /\ Orderly(InMemoryViews)
    <2>1. InMemoryViews \in Seq(Steps)
      BY <1>1, <1>2 DEF InMemoryViews
    <2>2. \A i \in 1 .. Len(InMemoryViews) : \A m \in Markers : InMemoryViews[i] \notin {Write(m), Swap}
      BY <1>2, StepParts DEF InMemoryViews
    <2> QED
      BY <2>1, <2>2, QuietIsOrderly
  <1>4. UserCaches \in Seq(Steps) /\ Orderly(UserCaches)
    <2>1. UserCaches \in Seq(Steps)
      BY <1>1, <1>2 DEF UserCaches
    <2>2. \A i \in 1 .. Len(UserCaches) : \A m \in Markers : UserCaches[i] \notin {Write(m), Swap}
      BY <1>2, StepParts DEF UserCaches
    <2> QED
      BY <2>1, <2>2, QuietIsOrderly
  <1>5. <<Write("library")>> \in Seq(Steps) /\ Orderly(<<Write("library")>>)
    <2>1. PICK q : q = <<Write("library")>>
      OBVIOUS
    <2>2. q \in Seq(Steps) /\ Len(q) = 1 /\ q[1] = Write("library")
      BY <1>1, <1>2, <2>1
    <2>3. \A i \in 1 .. Len(q) : \A m \in Markers : q[i] \notin {Write(m), Swap}
      BY <1>2, <2>2, StepParts
    <2> QED
      BY <2>1, <2>2, <2>3, QuietIsOrderly
  <1> QED
    BY <1>1, <1>3, <1>4, <1>5

\* Changes of favorites and recents, and what follows them.
LEMMA ChangesAreOrderly ==
    /\ Favorite \in Seq(Steps) /\ Orderly(Favorite)
    /\ Launch \in Seq(Steps) /\ Orderly(Launch)
    /\ EditRom \in Seq(Steps) /\ Orderly(EditRom)
    /\ Activation \in Seq(Steps) /\ Orderly(Activation)
  <1>0. /\ {"favs", "recents", "pills", "response", "snapshot"} \subseteq Caches
        /\ "library" \in Sources /\ Markers \subseteq Sources /\ "library" \notin Markers
        /\ Markers = {"favs", "recents"} /\ Markers \subseteq Caches /\ "snapshot" \notin Markers
    BY DEF Caches, Locked, Sources, Markers
  <1>1. Favorite \in Seq(Steps) /\ Orderly(Favorite)
    <2>1. PICK q : q = <<Write("favs"), Invalidate("favs")>>
      OBVIOUS
    <2>2. q \in Seq(Steps) /\ Len(q) = 2 /\ q[1] = Write("favs") /\ q[2] = Invalidate("favs")
      BY <1>0, <2>1, PiecesAreOrderly
    <2>3. Orderly(q)
      BY <1>0, <2>2, StepParts DEF Orderly
    <2> QED
      BY <2>1, <2>2, <2>3, PiecesAreOrderly, ConcatOrderly DEF Favorite
  <1>2. Launch \in Seq(Steps) /\ Orderly(Launch)
    <2>1. PICK q : q = Launch
      OBVIOUS
    <2>2. /\ q \in Seq(Steps) /\ Len(q) = 3 /\ q[1] = Write("recents") /\ q[2] = Invalidate("recents")
          /\ q[3] = Invalidate("snapshot")
      BY <1>0, <2>1, PiecesAreOrderly DEF Launch
    <2>3. Orderly(q)
      BY <1>0, <2>2, StepParts DEF Orderly
    <2> QED
      BY <2>1, <2>2, <2>3
  <1>3. EditRom \in Seq(Steps) /\ Orderly(EditRom)
    <2>1. PICK q : q = <<Write("favs"), Write("library"), Invalidate("pills"), Write("library"),
                         Invalidate("favs")>>
      OBVIOUS
    <2>2. /\ q \in Seq(Steps) /\ Len(q) = 5 /\ q[1] = Write("favs") /\ q[2] = Write("library")
          /\ q[3] = Invalidate("pills") /\ q[4] = Write("library") /\ q[5] = Invalidate("favs")
      BY <1>0, <2>1, PiecesAreOrderly
    <2>3. Orderly(q)
      <3>1. ASSUME NEW i \in 1 .. Len(q), NEW m \in Markers, q[i] \in {Write(m), Swap}
            PROVE  i = 1 /\ m = "favs"
        BY <1>0, <2>2, <3>1, StepParts
      <3>2. /\ 5 \in 2 .. Len(q) /\ q[5] = Invalidate("favs")
            /\ \A j \in 2 .. 4 : q[j] # Invalidate("snapshot")
        BY <1>0, <2>2, StepParts
      <3> QED
        BY <3>1, <3>2 DEF Orderly
    <2> QED
      BY <2>1, <2>2, <2>3, PiecesAreOrderly, ConcatOrderly DEF EditRom
  <1>4. Activation \in Seq(Steps) /\ Orderly(Activation)
    <2>1. PICK p : p = <<Write("library"), Swap>>
      OBVIOUS
    <2>2. p \in Seq(Steps) /\ Len(p) = 2 /\ p[1] = Write("library") /\ p[2] = Swap
      BY <1>0, <2>1, PiecesAreOrderly
    <2>3. PICK q : q = p \o InMemoryViews
      OBVIOUS
    <2>4. /\ Len(InMemoryViews) = 3 /\ InMemoryViews[1] = Invalidate("favs")
          /\ InMemoryViews[2] = Invalidate("recents") /\ InMemoryViews[3] = Invalidate("pills")
      BY DEF InMemoryViews
    <2>5. /\ q \in Seq(Steps) /\ Len(q) = 5 /\ q[1] = Write("library") /\ q[2] = Swap
          /\ q[3] = Invalidate("favs") /\ q[4] = Invalidate("recents") /\ q[5] = Invalidate("pills")
      <3>1. /\ p \o InMemoryViews \in Seq(Steps)
            /\ Len(p \o InMemoryViews) = Len(p) + Len(InMemoryViews)
            /\ \A i \in 1 .. Len(p) : (p \o InMemoryViews)[i] = p[i]
            /\ \A i \in 1 .. Len(InMemoryViews) : (p \o InMemoryViews)[Len(p) + i] = InMemoryViews[i]
        BY <2>2, PiecesAreOrderly, ConcatSteps
      <3>2. /\ q \in Seq(Steps) /\ Len(q) = 5 /\ \A i \in 1 .. 2 : q[i] = p[i]
            /\ \A i \in 1 .. 3 : q[2 + i] = InMemoryViews[i]
        BY <2>2, <2>3, <2>4, <3>1
      <3>3. q[2 + 1] = InMemoryViews[1] /\ q[2 + 2] = InMemoryViews[2] /\ q[2 + 3] = InMemoryViews[3]
        BY <3>2
      <3> QED
        BY <2>2, <2>4, <3>2, <3>3
    <2>6. Orderly(q)
      <3>1. ASSUME NEW i \in 1 .. Len(q), NEW m \in Markers, q[i] \in {Write(m), Swap}
            PROVE  i = 2
        BY <1>0, <2>5, <3>1, StepParts
      <3>2. /\ 3 \in 3 .. Len(q) /\ 4 \in 3 .. Len(q)
            /\ q[3] = Invalidate("favs") /\ q[4] = Invalidate("recents")
            /\ \A j \in 3 .. 3 : q[j] # Invalidate("snapshot")
        BY <1>0, <2>5, StepParts
      <3>3. ASSUME NEW m \in Markers
            PROVE  \E k \in 2 + 1 .. Len(q) :
                      /\ q[k] = Invalidate(m)
                      /\ \A j \in 2 + 1 .. k - 1 : q[j] # Invalidate("snapshot")
        <4>1. CASE m = "favs"
          BY <3>2, <4>1
        <4>2. CASE m = "recents"
          BY <3>2, <4>2
        <4> QED
          BY <1>0, <4>1, <4>2
      <3> QED
        BY <3>1, <3>3 DEF Orderly
    <2>7. q \o UserCaches \in Seq(Steps) /\ Orderly(q \o UserCaches)
      BY <2>5, <2>6, PiecesAreOrderly, ConcatOrderly
    <2> QED
      BY <2>1, <2>3, <2>7 DEF Activation
  <1> QED
    BY <1>1, <1>2, <1>3, <1>4

\* Every operation is orderly: what changes favorites or recents invalidates
\* their view before the snapshot that is computed from it.
LEMMA ScriptsAreOrderly ==
    ASSUME NEW kind \in DOMAIN Script
    PROVE  Script[kind] \in Seq(Steps) /\ Orderly(Script[kind])
  <1>1. DOMAIN Script = {"favorite", "launch", "decorate", "edit", "rest", "rescan", "scan", "activate"}
    BY DEF Script
  <1>2. Decorate \in Seq(Steps) /\ Orderly(Decorate)
    BY PiecesAreOrderly, ConcatOrderly DEF Decorate
  <1>3. RestRename \in Seq(Steps) /\ Orderly(RestRename)
    BY PiecesAreOrderly, ConcatOrderly DEF RestRename
  <1>4. Rescan \in Seq(Steps) /\ Orderly(Rescan)
    BY PiecesAreOrderly, ConcatOrderly DEF Rescan
  <1>5. ScanAndAnnounce \in Seq(Steps) /\ Orderly(ScanAndAnnounce)
    BY PiecesAreOrderly, ConcatOrderly DEF ScanAndAnnounce
  <1>6. /\ Script["favorite"] = Favorite /\ Script["launch"] = Launch
        /\ Script["decorate"] = Decorate /\ Script["edit"] = EditRom
        /\ Script["rest"] = RestRename /\ Script["rescan"] = Rescan
        /\ Script["scan"] = ScanAndAnnounce /\ Script["activate"] = Activation
    BY DEF Script
  <1> QED
    BY <1>1, <1>2, <1>3, <1>4, <1>5, <1>6, ChangesAreOrderly

-----------------------------------------------------------------------------
(* Sources and announcements.                                              *)

OpsType == op \in [Writers -> [kind : Kinds, todo : Seq(Steps)]]

SourceType ==
    /\ latest \in [Sources -> Nat]
    /\ root \in Storages
    /\ disk \in [Storages -> [Markers -> Nat]]
    /\ wrote \in [Writers -> [Sources -> Nat]]
    /\ announced \in [Followed -> Nat]

\* The storage that is active has the latest markers.
RootIsLatest == \A m \in Markers : disk[root][m] = latest[m]

\* Nothing was written or announced that is not there.
NothingIsAhead ==
    /\ \A w \in Writers, src \in Sources : wrote[w][src] <= latest[src]
    /\ \A m \in Markers : announced[<<m, m>>] <= latest[m]
    /\ \A src \in Sources : announced[<<"snapshot", src>>] <= latest[src]

\* A change that the snapshot's invalidation announced, that of the view has.
ViewsComeFirst == \A m \in Markers : announced[<<"snapshot", m>>] <= announced[<<m, m>>]

\* What an operation wrote is announced for its view, or will be before the
\* snapshot is invalidated.
WrittenIsPending ==
    \A w \in Writers : /\ Orderly(op[w].todo)
                       /\ \A m \in Markers : \/ wrote[w][m] <= announced[<<m, m>>]
                                             \/ Pending(op[w].todo, m)

SourceInv ==
    /\ OpsType /\ SourceType /\ RootIsLatest
    /\ NothingIsAhead /\ ViewsComeFirst /\ WrittenIsPending

\* The pairs of Followed.
LEMMA FollowedPairs ==
    /\ \A m \in Markers : <<m, m>> \in Followed /\ m \in Sources /\ m # "snapshot" /\ m # "library"
    /\ \A src \in Sources : <<"snapshot", src>> \in Followed
    /\ \A src \in Sources : src = "library" \/ src \in Markers
    /\ "library" \in Sources
    /\ \A c, d \in Sources \cup {"snapshot"} : <<c, d>>[1] = c /\ <<c, d>>[2] = d
  BY DEF Followed, Markers, Sources

\* What changing the list of an operation does.
LEMMA EndedOp ==
    ASSUME OpsType, NEW w \in Writers, NEW todo \in Seq(Steps), op' = Ended(w, todo)
    PROVE  /\ OpsType' /\ op'[w].todo = todo
           /\ \A v \in Writers : v # w => op'[v] = op[v]
  <1>1. NoOp \in [kind : Kinds, todo : Seq(Steps)] /\ NoOp.todo = <<>>
    BY DEF NoOp, Kinds
  <1>2. CASE todo = <<>>
    BY <1>1, <1>2 DEF Ended, OpsType
  <1>3. CASE todo # <<>>
    <2>1. op[w] \in [kind : Kinds, todo : Seq(Steps)]
      BY DEF OpsType
    <2>2. [op[w] EXCEPT !.todo = todo] \in [kind : Kinds, todo : Seq(Steps)]
            /\ [op[w] EXCEPT !.todo = todo].todo = todo
      BY <2>1
    <2>3. op' = [op EXCEPT ![w] = [op[w] EXCEPT !.todo = todo]]
      BY <1>3 DEF Ended, OpsType
    <2> QED
      BY <2>2, <2>3 DEF OpsType
  <1> QED
    BY <1>2, <1>3

\* What is remembered of the writes.
LEMMA WroteIs ==
    ASSUME wrote \in [Writers -> [Sources -> Nat]], NEW w \in Writers, NEW srcs \in SUBSET Sources,
           NEW todo, Wrote(w, srcs, todo), latest' \in [Sources -> Nat]
    PROVE  /\ wrote' \in [Writers -> [Sources -> Nat]]
           /\ \A src \in Sources :
                 wrote'[w][src] = IF todo = <<>> THEN 0
                                  ELSE IF src \in srcs THEN latest'[src] ELSE wrote[w][src]
           /\ \A v \in Writers : v # w => wrote'[v] = wrote[v]
  <1>1. CASE todo = <<>>
    <2>1. wrote' = [wrote EXCEPT ![w] = [src \in Sources |-> 0]]
      BY <1>1 DEF Wrote
    <2> QED
      BY <1>1, <2>1
  <1>2. CASE todo # <<>>
    <2>1. wrote' = [wrote EXCEPT ![w] = [src \in Sources |->
                      IF src \in srcs THEN latest'[src] ELSE wrote[w][src]]]
      BY <1>2 DEF Wrote
    <2> QED
      BY <1>2, <2>1
  <1> QED
    BY <1>1, <1>2

\* At the start nothing is written.
LEMMA SourceInit == Init => SourceInv
  <1> SUFFICES ASSUME Init PROVE SourceInv
    OBVIOUS
  <1>1. root \in Storages
    BY CachesAssumption DEF Init, CachesAssumption
  <1>2. NoOp \in [kind : Kinds, todo : Seq(Steps)] /\ NoOp.todo = <<>>
    BY DEF NoOp, Kinds
  <1>3. OpsType
    BY <1>2 DEF Init, OpsType
  <1>4. SourceType
    BY <1>1 DEF Init, SourceType
  <1>5. RootIsLatest
    BY <1>1, FollowedPairs DEF Init, RootIsLatest
  <1>6. NothingIsAhead /\ ViewsComeFirst
    BY FollowedPairs DEF Init, NothingIsAhead, ViewsComeFirst
  <1>7. WrittenIsPending
    <2>1. Orderly(<<>>)
      BY DEF Orderly
    <2>2. \A w \in Writers : op[w].todo = <<>>
      BY <1>2 DEF Init
    <2> QED
      BY <2>1, <2>2, FollowedPairs DEF Init, WrittenIsPending
  <1> QED
    BY <1>3, <1>4, <1>5, <1>6, <1>7 DEF SourceInv

\* The head of a list of steps.
LEMMA NextStep ==
    ASSUME OpsType, NEW w \in Writers, NEW verb, Next1(w, verb)
    PROVE  /\ op[w].todo \in Seq(Steps) /\ op[w].todo # <<>> /\ Head(op[w].todo) \in Steps
           /\ Tail(op[w].todo) \in Seq(Steps)
           /\ verb = "write" => Target(w) \in Sources /\ Head(op[w].todo) = Write(Target(w))
           /\ verb = "invalidate" => Target(w) \in Caches /\ Head(op[w].todo) = Invalidate(Target(w))
           /\ verb = "swap" => Head(op[w].todo) = Swap
  <1>1. op[w].todo \in Seq(Steps) /\ op[w].todo # <<>> /\ Head(op[w].todo)[1] = verb
    BY DEF OpsType, Next1
  <1>2. Head(op[w].todo) \in Steps /\ Tail(op[w].todo) \in Seq(Steps)
    BY <1>1, TailOfSteps
  <1> QED
    BY <1>1, <1>2, StepParts DEF Target

\* An operation that starts, fails or is dropped: its writes stay or are
\* forgotten, and its list is a new one, the rest, or nothing.
LEMMA SourceQuiet ==
    ASSUME SourceInv, NEW w \in Writers,
           \/ \E kind \in DOMAIN Script : OpStart(w, kind)
           \/ OpWriteFails(w) \/ OpDropped(w)
    PROVE  SourceInv'
  <1> USE DEF sourceVars
  <1>0. OpsType /\ SourceType
    BY DEF SourceInv
  <1>1. ASSUME NEW kind \in DOMAIN Script, OpStart(w, kind) PROVE SourceInv'
    <2>1. UNCHANGED <<latest, root, disk, wrote, announced>> /\ op[w] = NoOp
            /\ op' = [op EXCEPT ![w] = [kind |-> kind, todo |-> Script[kind]]]
      BY <1>1 DEF OpStart
    <2>2. [kind |-> kind, todo |-> Script[kind]] \in [kind : Kinds, todo : Seq(Steps)]
      BY ScriptsAreOrderly DEF Kinds
    <2>3. OpsType' /\ op'[w].todo = Script[kind] /\ \A v \in Writers : v # w => op'[v] = op[v]
      BY <1>0, <2>1, <2>2 DEF OpsType
    <2>4. \A m \in Markers : ~Pending(op[w].todo, m)
      BY <2>1 DEF NoOp, Pending
    <2>5. WrittenIsPending'
      BY <2>1, <2>3, <2>4, ScriptsAreOrderly DEF SourceInv, WrittenIsPending
    <2> QED
      BY <2>1, <2>3, <2>5 DEF SourceInv, SourceType, RootIsLatest, NothingIsAhead, ViewsComeFirst
  <1>2. ASSUME NEW todo \in Seq(Steps), Orderly(todo),
               \A m \in Markers : todo = <<>> \/ (Pending(op[w].todo, m) => Pending(todo, m)),
               op' = Ended(w, todo), Wrote(w, {}, todo), UNCHANGED <<latest, root, disk, announced>>
        PROVE  SourceInv'
    <2>1. OpsType' /\ op'[w].todo = todo /\ \A v \in Writers : v # w => op'[v] = op[v]
      BY <1>0, <1>2, EndedOp
    <2>2. /\ wrote' \in [Writers -> [Sources -> Nat]]
          /\ \A src \in Sources : wrote'[w][src] = IF todo = <<>> THEN 0 ELSE wrote[w][src]
          /\ \A v \in Writers : v # w => wrote'[v] = wrote[v]
      <3>1. {} \in SUBSET Sources /\ latest' \in [Sources -> Nat]
        BY <1>0, <1>2 DEF SourceType
      <3>2. /\ wrote' \in [Writers -> [Sources -> Nat]]
            /\ \A src \in Sources :
                  wrote'[w][src] = IF todo = <<>> THEN 0
                                   ELSE IF src \in {} THEN latest'[src] ELSE wrote[w][src]
            /\ \A v \in Writers : v # w => wrote'[v] = wrote[v]
        BY <1>0, <1>2, <3>1, WroteIs DEF SourceType
      <3> QED
        BY <3>2
    <2>3. SourceType' /\ RootIsLatest' /\ ViewsComeFirst'
      BY <1>0, <1>2, <2>2 DEF SourceInv, SourceType, RootIsLatest, ViewsComeFirst
    <2>4. NothingIsAhead'
      <3>1. ASSUME NEW v \in Writers, NEW src \in Sources PROVE wrote'[v][src] <= latest'[src]
        <4>1. wrote[v][src] <= latest[src] /\ latest'[src] = latest[src] /\ latest[src] \in Nat
          BY <1>0, <1>2 DEF SourceInv, SourceType, NothingIsAhead
        <4>2. wrote'[v][src] = wrote[v][src] \/ wrote'[v][src] = 0
          BY <2>2
        <4> QED
          BY <4>1, <4>2
      <3> QED
        BY <1>2, <3>1 DEF SourceInv, NothingIsAhead
    <2>5. \A m \in Markers : announced[<<m, m>>] \in Nat
      BY <1>0, FollowedPairs DEF SourceType
    <2>6. WrittenIsPending'
      BY <1>2, <2>1, <2>2, <2>5, FollowedPairs DEF SourceInv, WrittenIsPending
    <2> QED
      BY <2>1, <2>3, <2>4, <2>6 DEF SourceInv
  <1>3. <<>> \in Seq(Steps) /\ Orderly(<<>>)
    BY DEF Orderly
  <1>4. CASE OpWriteFails(w)
    <2>1. PICK todo \in {<<>>, Tail(op[w].todo)} :
             op' = Ended(w, todo) /\ Wrote(w, {}, todo) /\ UNCHANGED <<latest, root, disk, announced>>
      BY <1>4 DEF OpWriteFails
    <2>2. Next1(w, "write")
      BY <1>4 DEF OpWriteFails
    <2>3. /\ op[w].todo \in Seq(Steps) /\ op[w].todo # <<>> /\ Tail(op[w].todo) \in Seq(Steps)
          /\ Target(w) \in Sources /\ Head(op[w].todo) = Write(Target(w))
      BY <1>0, <2>2, NextStep
    <2>4. Orderly(Tail(op[w].todo))
      BY <2>3, OrderlyTail DEF SourceInv, WrittenIsPending
    <2>5. \A m \in Markers : Head(op[w].todo) # Invalidate(m)
      BY <2>3, StepParts, LockNames
    <2>6. \A m \in Markers : Pending(op[w].todo, m) => Pending(Tail(op[w].todo), m)
      BY <2>3, <2>5, PendingTail
    <2> QED
      BY <1>2, <1>3, <2>1, <2>3, <2>4, <2>6
  <1>5. CASE OpDropped(w)
    BY <1>2, <1>3, <1>5 DEF OpDropped
  <1> QED
    BY <1>1, <1>4, <1>5

\* A write, and a swap of the storage: new versions, which the operation has
\* still to announce.
LEMMA SourceWrites ==
    ASSUME SourceInv, NEW w \in Writers, OpWrite(w) \/ OpSwap(w)
    PROVE  SourceInv'
  <1>0. OpsType /\ SourceType
    BY DEF SourceInv
  <1>1. ASSUME NEW srcs \in SUBSET Sources, Next1(w, "write") \/ Next1(w, "swap"),
               \A m \in Markers \cap srcs : Head(op[w].todo) \in {Write(m), Swap},
               latest' \in [Sources -> Nat],
               \A src \in Sources : latest'[src] >= latest[src],
               op' = Ended(w, Tail(op[w].todo)), Wrote(w, srcs, Tail(op[w].todo)),
               announced' = announced
        PROVE  OpsType' /\ wrote' \in [Writers -> [Sources -> Nat]] /\ NothingIsAhead'
                 /\ ViewsComeFirst' /\ WrittenIsPending'
    <2>0. /\ op[w].todo \in Seq(Steps) /\ op[w].todo # <<>> /\ Tail(op[w].todo) \in Seq(Steps)
          /\ \A m \in Markers : Head(op[w].todo) # Invalidate(m)
      BY <1>0, <1>1, NextStep, StepParts, LockNames
    <2>1. /\ OpsType' /\ op'[w].todo = Tail(op[w].todo)
          /\ \A v \in Writers : v # w => op'[v] = op[v]
      BY <1>0, <1>1, <2>0, EndedOp
    <2>2. /\ wrote' \in [Writers -> [Sources -> Nat]]
          /\ \A src \in Sources :
                wrote'[w][src] = IF Tail(op[w].todo) = <<>> THEN 0
                                 ELSE IF src \in srcs THEN latest'[src] ELSE wrote[w][src]
          /\ \A v \in Writers : v # w => wrote'[v] = wrote[v]
      <3>1. PICK todo : todo = Tail(op[w].todo)
        OBVIOUS
      <3>2. Wrote(w, srcs, todo) /\ wrote \in [Writers -> [Sources -> Nat]]
        BY <1>0, <1>1, <3>1 DEF SourceType
      <3>3. /\ wrote' \in [Writers -> [Sources -> Nat]]
            /\ \A src \in Sources :
                  wrote'[w][src] = IF todo = <<>> THEN 0
                                   ELSE IF src \in srcs THEN latest'[src] ELSE wrote[w][src]
            /\ \A v \in Writers : v # w => wrote'[v] = wrote[v]
        BY <1>1, <3>2, WroteIs
      <3> QED
        BY <3>1, <3>3
    <2>3. NothingIsAhead'
      <3>1. ASSUME NEW v \in Writers, NEW src \in Sources PROVE wrote'[v][src] <= latest'[src]
        <4>1. /\ wrote[v][src] <= latest[src] /\ latest'[src] >= latest[src]
              /\ latest[src] \in Nat /\ latest'[src] \in Nat /\ wrote[v][src] \in Nat
          BY <1>0, <1>1 DEF SourceInv, SourceType, NothingIsAhead
        <4>2. wrote'[v][src] \in {wrote[v][src], 0, latest'[src]}
          BY <2>2
        <4> QED
          BY <4>1, <4>2
      <3>2. ASSUME NEW f \in Followed, NEW src \in Sources, announced[f] <= latest[src]
            PROVE  announced'[f] <= latest'[src]
        BY <1>0, <1>1, <3>2 DEF SourceType
      <3> QED
        BY <3>1, <3>2, FollowedPairs DEF SourceInv, NothingIsAhead
    <2>4. ViewsComeFirst'
      BY <1>1 DEF SourceInv, ViewsComeFirst
    <2>5. Orderly(op[w].todo)
      BY DEF SourceInv, WrittenIsPending
    <2>6. Orderly(Tail(op[w].todo))
      BY <2>0, <2>5, OrderlyTail
    <2>7. ASSUME NEW m \in Markers
          PROVE  wrote'[w][m] <= announced[<<m, m>>] \/ Pending(Tail(op[w].todo), m)
      <3>1. m \in Sources /\ announced[<<m, m>>] \in Nat
        BY <1>0, FollowedPairs DEF SourceType
      <3>2. CASE Tail(op[w].todo) = <<>>
        BY <2>2, <3>1, <3>2
      <3>3. CASE Tail(op[w].todo) # <<>> /\ m \in srcs
        BY <1>1, <2>0, <2>5, <3>3, OrderlyTail
      <3>4. CASE Tail(op[w].todo) # <<>> /\ m \notin srcs
        <4>1. wrote'[w][m] = wrote[w][m]
          BY <2>2, <3>1, <3>4
        <4>2. Pending(op[w].todo, m) => Pending(Tail(op[w].todo), m)
          BY <2>0, PendingTail
        <4> QED
          BY <4>1, <4>2 DEF SourceInv, WrittenIsPending
      <3> QED
        BY <3>2, <3>3, <3>4
    <2>8. WrittenIsPending'
      BY <1>1, <2>1, <2>2, <2>6, <2>7 DEF SourceInv, WrittenIsPending
    <2> QED
      BY <2>1, <2>2, <2>3, <2>4, <2>8
  <1>2. CASE OpWrite(w)
    <2>1. PICK t : t = Target(w)
      OBVIOUS
    <2>2. /\ Next1(w, "write") /\ latest' = [latest EXCEPT ![t] = @ + 1]
          /\ disk' = IF t = "library" THEN disk ELSE [disk EXCEPT ![root][t] = latest'[t]]
          /\ op' = Ended(w, Tail(op[w].todo)) /\ Wrote(w, {t}, Tail(op[w].todo))
          /\ UNCHANGED <<root, announced>>
      BY <1>2, <2>1 DEF OpWrite
    <2>3. t \in Sources /\ Head(op[w].todo) = Write(t)
      BY <1>0, <2>1, <2>2, NextStep
    <2>4. latest' \in [Sources -> Nat] /\ \A src \in Sources : latest'[src] >= latest[src]
      BY <1>0, <2>2, <2>3 DEF SourceType
    <2>5. /\ {t} \in SUBSET Sources
          /\ \A m \in Markers \cap {t} : Head(op[w].todo) \in {Write(m), Swap}
      BY <2>3
    <2>6. /\ OpsType' /\ wrote' \in [Writers -> [Sources -> Nat]] /\ NothingIsAhead'
          /\ ViewsComeFirst' /\ WrittenIsPending'
      BY <1>1, <2>2, <2>4, <2>5
    <2>7. disk' \in [Storages -> [Markers -> Nat]] /\ RootIsLatest'
      <3>1. CASE t = "library"
        BY <1>0, <2>2, <3>1, FollowedPairs DEF SourceInv, SourceType, RootIsLatest
      <3>2. CASE t \in Markers
        <4>1. latest'[t] \in Nat /\ \A m \in Markers : m # t => latest'[m] = latest[m]
          BY <1>0, <2>2, <2>4, <3>2, FollowedPairs DEF SourceType
        <4>2. disk' = [disk EXCEPT ![root] = [disk[root] EXCEPT ![t] = latest'[t]]]
          BY <2>2, <3>2, FollowedPairs
        <4>3. [disk[root] EXCEPT ![t] = latest'[t]] \in [Markers -> Nat]
          BY <1>0, <4>1 DEF SourceType
        <4> QED
          BY <1>0, <2>2, <3>2, <4>1, <4>2, <4>3 DEF SourceInv, SourceType, RootIsLatest
      <3> QED
        BY <2>3, <3>1, <3>2, FollowedPairs
    <2> QED
      BY <1>0, <2>2, <2>4, <2>6, <2>7 DEF SourceInv, SourceType
  <1>3. CASE OpSwap(w)
    <2>1. PICK s \in Storages :
             /\ Next1(w, "swap")
             /\ latest' = [src \in Sources |-> IF src = "library" THEN latest[src] ELSE latest[src] + 1]
             /\ root' = s /\ disk' = [disk EXCEPT ![s] = [f \in Markers |-> latest'[f]]]
             /\ op' = Ended(w, Tail(op[w].todo)) /\ Wrote(w, Markers, Tail(op[w].todo))
             /\ announced' = announced
      BY <1>3 DEF OpSwap
    <2>2. latest' \in [Sources -> Nat] /\ \A src \in Sources : latest'[src] >= latest[src]
      BY <1>0, <2>1 DEF SourceType
    <2>3. Markers \in SUBSET Sources /\ Head(op[w].todo) = Swap
      BY <1>0, <2>1, NextStep, FollowedPairs
    <2>4. /\ OpsType' /\ wrote' \in [Writers -> [Sources -> Nat]] /\ NothingIsAhead'
          /\ ViewsComeFirst' /\ WrittenIsPending'
      BY <1>1, <2>1, <2>2, <2>3
    <2>5. [f \in Markers |-> latest'[f]] \in [Markers -> Nat]
      BY <2>2, <2>3
    <2>6. disk' \in [Storages -> [Markers -> Nat]] /\ RootIsLatest'
      BY <1>0, <2>1, <2>5 DEF SourceType, RootIsLatest
    <2> QED
      BY <1>0, <2>1, <2>2, <2>4, <2>6 DEF SourceInv, SourceType
  <1> QED
    BY <1>2, <1>3

\* What an invalidation announces.
LEMMA Announcement ==
    ASSUME SourceType, NEW w \in Writers, NEW t \in Caches,
           announced' = [f \in Followed |-> IF f[1] = t /\ wrote[w][f[2]] > announced[f]
                                            THEN wrote[w][f[2]] ELSE announced[f]]
    PROVE  /\ announced' \in [Followed -> Nat]
           /\ \A c \in Sources \cup {"snapshot"}, src \in Sources : <<c, src>> \in Followed =>
                 /\ announced[<<c, src>>] \in Nat /\ announced'[<<c, src>>] \in Nat
                 /\ wrote[w][src] \in Nat
                 /\ c # t => announced'[<<c, src>>] = announced[<<c, src>>]
                 /\ c = t => /\ announced'[<<c, src>>] \in {wrote[w][src], announced[<<c, src>>]}
                             /\ announced'[<<c, src>>] >= wrote[w][src]
                 /\ announced'[<<c, src>>] >= announced[<<c, src>>]
  <1>1. \A f \in Followed : f[2] \in Sources
    BY DEF Followed, Sources, Markers
  <1>2. announced' \in [Followed -> Nat]
    BY <1>1 DEF SourceType
  <1>3. ASSUME NEW c \in Sources \cup {"snapshot"}, NEW src \in Sources, <<c, src>> \in Followed
        PROVE  /\ announced[<<c, src>>] \in Nat /\ wrote[w][src] \in Nat
               /\ announced'[<<c, src>>] = IF c = t /\ wrote[w][src] > announced[<<c, src>>]
                                           THEN wrote[w][src] ELSE announced[<<c, src>>]
    BY <1>3 DEF SourceType
  <1> QED
    BY <1>2, <1>3

\* An invalidation: what it announces for the snapshot has been announced for
\* the views.
LEMMA SourceInvalidate ==
    ASSUME SourceInv, NEW w \in Writers, OpInvalidate(w)
    PROVE  SourceInv'
  <1>0. OpsType /\ SourceType
    BY DEF SourceInv
  <1>1. PICK t : t = Target(w)
    OBVIOUS
  <1>2. /\ Next1(w, "invalidate")
        /\ announced' = [f \in Followed |-> IF f[1] = t /\ wrote[w][f[2]] > announced[f]
                                            THEN wrote[w][f[2]] ELSE announced[f]]
        /\ op' = Ended(w, Tail(op[w].todo)) /\ Wrote(w, {}, Tail(op[w].todo))
        /\ UNCHANGED <<latest, root, disk>>
    BY <1>1 DEF OpInvalidate, sourceVars
  <1>3. /\ op[w].todo \in Seq(Steps) /\ op[w].todo # <<>> /\ Tail(op[w].todo) \in Seq(Steps)
        /\ t \in Caches /\ Head(op[w].todo) = Invalidate(t)
    BY <1>0, <1>1, <1>2, NextStep
  <1>4. /\ announced' \in [Followed -> Nat]
        /\ \A c \in Sources \cup {"snapshot"}, src \in Sources : <<c, src>> \in Followed =>
              /\ announced[<<c, src>>] \in Nat /\ announced'[<<c, src>>] \in Nat
              /\ wrote[w][src] \in Nat
              /\ c # t => announced'[<<c, src>>] = announced[<<c, src>>]
              /\ c = t => /\ announced'[<<c, src>>] \in {wrote[w][src], announced[<<c, src>>]}
                          /\ announced'[<<c, src>>] >= wrote[w][src]
              /\ announced'[<<c, src>>] >= announced[<<c, src>>]
    BY <1>0, <1>2, <1>3, Announcement
  <1>5. /\ OpsType' /\ op'[w].todo = Tail(op[w].todo)
        /\ \A v \in Writers : v # w => op'[v] = op[v]
    BY <1>0, <1>2, <1>3, EndedOp
  <1>6. /\ wrote' \in [Writers -> [Sources -> Nat]]
        /\ \A src \in Sources :
              wrote'[w][src] = IF Tail(op[w].todo) = <<>> THEN 0 ELSE wrote[w][src]
        /\ \A v \in Writers : v # w => wrote'[v] = wrote[v]
    <2>1. {} \in SUBSET Sources /\ latest' \in [Sources -> Nat]
      BY <1>0, <1>2 DEF SourceType
    <2>2. PICK todo : todo = Tail(op[w].todo)
      OBVIOUS
    <2>3. Wrote(w, {}, todo) /\ wrote \in [Writers -> [Sources -> Nat]]
      BY <1>0, <1>2, <2>2 DEF SourceType
    <2>4. /\ wrote' \in [Writers -> [Sources -> Nat]]
          /\ \A src \in Sources :
                wrote'[w][src] = IF todo = <<>> THEN 0
                                 ELSE IF src \in {} THEN latest'[src] ELSE wrote[w][src]
          /\ \A v \in Writers : v # w => wrote'[v] = wrote[v]
      BY <2>1, <2>3, WroteIs
    <2> QED
      BY <2>2, <2>4
  <1>7. SourceType' /\ RootIsLatest'
    BY <1>0, <1>2, <1>4, <1>6 DEF SourceInv, SourceType, RootIsLatest
  <1>8. NothingIsAhead'
    <2>1. ASSUME NEW v \in Writers, NEW src \in Sources PROVE wrote'[v][src] <= latest'[src]
      <3>1. wrote[v][src] <= latest[src] /\ latest'[src] = latest[src] /\ latest[src] \in Nat
        BY <1>0, <1>2 DEF SourceInv, SourceType, NothingIsAhead
      <3>2. wrote'[v][src] = wrote[v][src] \/ wrote'[v][src] = 0
        BY <1>6
      <3> QED
        BY <3>1, <3>2
    <2>2. ASSUME NEW c \in Sources \cup {"snapshot"}, NEW src \in Sources, <<c, src>> \in Followed,
                 announced[<<c, src>>] <= latest[src]
          PROVE  announced'[<<c, src>>] <= latest'[src]
      <3>1. announced'[<<c, src>>] \in {wrote[w][src], announced[<<c, src>>]}
        BY <1>4, <2>2
      <3>2. wrote[w][src] <= latest[src] /\ latest'[src] = latest[src]
        BY <1>2 DEF SourceInv, NothingIsAhead
      <3> QED
        BY <2>2, <3>1, <3>2
    <2> QED
      BY <2>1, <2>2, FollowedPairs DEF SourceInv, NothingIsAhead
  <1>9. ViewsComeFirst'
    <2> SUFFICES ASSUME NEW m \in Markers PROVE announced'[<<"snapshot", m>>] <= announced'[<<m, m>>]
      BY DEF ViewsComeFirst
    <2>1. /\ m \in Sources /\ m # "snapshot" /\ <<m, m>> \in Followed /\ <<"snapshot", m>> \in Followed
          /\ announced[<<"snapshot", m>>] <= announced[<<m, m>>]
      BY FollowedPairs DEF SourceInv, ViewsComeFirst
    <2>2. CASE t # "snapshot"
      BY <1>4, <2>1, <2>2
    <2>3. CASE t = "snapshot"
      <3>1. ~Pending(op[w].todo, m)
        BY <1>3, <2>3, PendingTail
      <3>2. wrote[w][m] <= announced[<<m, m>>]
        BY <3>1 DEF SourceInv, WrittenIsPending
      <3> QED
        BY <1>4, <2>1, <2>3, <3>2
    <2> QED
      BY <2>2, <2>3
  <1>10. WrittenIsPending'
    <2>1. Orderly(Tail(op[w].todo))
      BY <1>3, OrderlyTail DEF SourceInv, WrittenIsPending
    <2>2. ASSUME NEW v \in Writers, NEW m \in Markers
          PROVE  wrote'[v][m] <= announced'[<<m, m>>] \/ Pending(op'[v].todo, m)
      <3>1. /\ m \in Sources /\ <<m, m>> \in Followed /\ m \in Caches
            /\ announced'[<<m, m>>] \in Nat /\ announced[<<m, m>>] \in Nat
            /\ announced'[<<m, m>>] >= announced[<<m, m>>]
            /\ wrote[v][m] \in Nat
        BY <1>0, <1>4, FollowedPairs, LockNames DEF SourceType
      <3>2. wrote[v][m] <= announced[<<m, m>>] \/ Pending(op[v].todo, m)
        BY DEF SourceInv, WrittenIsPending
      <3>3. wrote'[v][m] = wrote[v][m] \/ wrote'[v][m] = 0
        BY <1>6, <3>1
      <3>4. CASE wrote[v][m] <= announced[<<m, m>>]
        BY <3>1, <3>3, <3>4
      <3>5. CASE v # w /\ Pending(op[v].todo, m)
        BY <1>5, <3>5
      <3>6. CASE v = w /\ Pending(op[v].todo, m)
        <4>1. CASE t = m
          BY <1>4, <3>1, <3>3, <3>6, <4>1
        <4>2. CASE t # m
          BY <1>3, <1>5, <3>1, <3>6, <4>2, PendingTail, StepParts
        <4> QED
          BY <4>1, <4>2
      <3> QED
        BY <3>2, <3>4, <3>5, <3>6
    <2> QED
      BY <1>5, <2>1, <2>2 DEF SourceInv, WrittenIsPending
  <1> QED
    BY <1>5, <1>7, <1>8, <1>9, <1>10 DEF SourceInv

\* A step keeps the invariant: requests touch neither sources nor operations.
LEMMA SourceNext == SourceInv /\ [Next]_vars => SourceInv'
  <1> SUFFICES ASSUME SourceInv, [Next]_vars PROVE SourceInv'
    OBVIOUS
  <1>1. ASSUME NEW w \in Writers, Operation(w) PROVE SourceInv'
    BY <1>1, SourceQuiet, SourceWrites, SourceInvalidate DEF Operation
  <1>2. CASE UNCHANGED <<sourceVars, writerVars>>
    BY <1>2 DEF sourceVars, writerVars, SourceInv, OpsType, SourceType, RootIsLatest,
                NothingIsAhead, ViewsComeFirst, WrittenIsPending
  <1>3. ASSUME NEW r \in Requests, HomeMiss(r) \/ PageMiss(r) \/ Progress(r) \/ Leave(r)
        PROVE  UNCHANGED <<sourceVars, writerVars>>
    BY <1>3 DEF HomeMiss, PageMiss, Progress, Leave, HomeLock, ViewGet, ViewLoad, ViewLoadFails,
                ViewStore, ReadLibrary, ReadUnavailable, HomeFinish, PageFinish
  <1> QED
    BY <1>1, <1>2, <1>3 DEF Next, Expire, vars

-----------------------------------------------------------------------------
(* What the views hold.                                                    *)

HeldN == Nat \cup {Empty, None}

ReadType ==
    /\ got \in [Requests -> [Readable -> HeldN]]
    /\ \A c \in Markers \cup {"pills"} : value[c] \in HeldN

\* A home page that has not looked behind the snapshot has read nothing.
NothingRead == \A r \in Homes : pc[r] \in {Idle, <<"snapshot", "get">>} => got[r] = Nothing

\* What is in a view is no older than what was announced for it.
ViewsAreFresh == \A m \in Markers : NotBefore(value[m], announced[<<m, m>>])

\* Nor is what somebody is about to store there.
FillersAreFresh ==
    \A r \in Requests, m \in Markers :
        pc[r] = <<m, "store">> => NotBefore(got[r][m], announced[<<m, m>>])

SnapshotIsFresh ==
    value["snapshot"] # None =>
        \A src \in Sources : NotBefore(value["snapshot"][src], announced[<<"snapshot", src>>])

\* A home page has read nothing that the snapshot's last invalidation replaced.
HomesAreFresh ==
    \A r \in Homes, src \in Sources : NotBefore(got[r][src], announced[<<"snapshot", src>>])

Fresh ==
    /\ ReadType /\ NothingRead /\ ViewsAreFresh
    /\ FillersAreFresh /\ SnapshotIsFresh /\ HomesAreFresh

\* All of it as long as no request filled a view from a storage that was left.
FreshInv == strayed \/ Fresh

\* What a request can read.
LEMMA ReadableNames ==
    /\ \A src \in Sources : src \in Readable
    /\ \A m \in Markers : m \in Readable /\ m \in Sources
    /\ "pills" \in Readable /\ "pills" \notin Sources /\ "library" \in Readable
    /\ Nothing \in [Readable -> HeldN]
    /\ \A x \in Readable : Nothing[x] = None
    /\ \A n : NotBefore(None, n) /\ NotBefore(Empty, n)
  BY DEF Readable, Sources, Markers, Nothing, HeldN, NotBefore

\* Later than what came later.
LEMMA NotBeforeEarlier ==
    ASSUME NEW v \in HeldN, NEW n \in Nat, NEW k \in Nat, NotBefore(v, n), k <= n
    PROVE  NotBefore(v, k)
  BY DEF NotBefore, HeldN

\* At the start nothing is held.
LEMMA FreshInit == Init => FreshInv
  <1> SUFFICES ASSUME Init PROVE Fresh
    BY DEF FreshInv
  <1>1. /\ \A r \in Requests : got[r] = Nothing /\ pc[r] = Idle
        /\ \A c \in Caches : value[c] = None
        /\ \A r \in Homes : r \in Requests
        /\ \A m \in Markers : m \in Caches
        /\ "pills" \in Caches /\ "snapshot" \in Caches
    BY DEF Init, Requests, Caches, Markers, Locked
  <1>2. ReadType
    BY <1>1, ReadableNames DEF Init, ReadType, HeldN
  <1>3. NothingRead
    BY <1>1 DEF NothingRead
  <1>4. ViewsAreFresh /\ SnapshotIsFresh
    BY <1>1, ReadableNames DEF ViewsAreFresh, SnapshotIsFresh
  <1>5. FillersAreFresh /\ HomesAreFresh
    BY <1>1, ReadableNames DEF FillersAreFresh, HomesAreFresh
  <1> QED
    BY <1>2, <1>3, <1>4, <1>5 DEF Fresh

\* A request moves on with what it has read, and at most the caches change.
LEMMA FreshMove ==
    ASSUME Fresh, LockType, NEW r \in Requests, NEW stage, NEW g \in [Readable -> HeldN],
           pc' = [pc EXCEPT ![r] = stage], got' = [got EXCEPT ![r] = g], announced' = announced,
           \A c \in Markers \cup {"pills"} : value'[c] \in HeldN, ViewsAreFresh', SnapshotIsFresh',
           r \in Homes /\ stage \in {Idle, <<"snapshot", "get">>} => g = Nothing,
           \A m \in Markers : stage = <<m, "store">> => NotBefore(g[m], announced[<<m, m>>]),
           r \in Homes => \A src \in Sources : NotBefore(g[src], announced[<<"snapshot", src>>])
    PROVE  Fresh'
  <1>1. /\ got' \in [Requests -> [Readable -> HeldN]] /\ got'[r] = g /\ pc'[r] = stage
        /\ \A q \in Requests : q # r => got'[q] = got[q] /\ pc'[q] = pc[q]
    BY DEF Fresh, ReadType, LockType
  <1>2. \A q \in Homes : q \in Requests
    BY DEF Requests
  <1>3. ReadType'
    BY <1>1 DEF ReadType
  <1>4. NothingRead'
    BY <1>1, <1>2 DEF Fresh, NothingRead
  <1>5. FillersAreFresh'
    BY <1>1 DEF Fresh, FillersAreFresh
  <1>6. HomesAreFresh'
    BY <1>1, <1>2 DEF Fresh, HomesAreFresh
  <1> QED
    BY <1>3, <1>4, <1>5, <1>6 DEF Fresh

\* Operations: only an invalidation touches what is held and announced, and it
\* waits for who fills the cache.
LEMMA FreshOperation ==
    ASSUME Fresh, LockInv, SourceInv, NEW w \in Writers, Operation(w)
    PROVE  Fresh'
  <1> USE DEF cacheVars, requestVars
  <1>0. LockType /\ SourceType
    BY DEF LockInv, SourceInv
  <1>1. CASE UNCHANGED <<value, pc, got, announced>>
    BY <1>1 DEF Fresh, ReadType, NothingRead, ViewsAreFresh, FillersAreFresh, SnapshotIsFresh,
                HomesAreFresh
  <1>2. CASE OpInvalidate(w)
    <2>1. PICK t : t = Target(w)
      OBVIOUS
    <2>2. /\ Next1(w, "invalidate") /\ (t \in Locked => lock[t] = None)
          /\ value' = [value EXCEPT ![t] = None] /\ UNCHANGED <<pc, got>>
          /\ announced' = [f \in Followed |-> IF f[1] = t /\ wrote[w][f[2]] > announced[f]
                                              THEN wrote[w][f[2]] ELSE announced[f]]
      BY <1>2, <2>1 DEF OpInvalidate, Cleared
    <2>3. t \in Caches
      BY <2>1, <2>2, NextStep DEF SourceInv
    <2>4. \A c \in Sources \cup {"snapshot"}, src \in Sources :
             <<c, src>> \in Followed /\ c # t => announced'[<<c, src>>] = announced[<<c, src>>]
      BY <1>0, <2>2, <2>3, Announcement
    <2>5. /\ value'[t] = None /\ \A c \in Caches : c # t => value'[c] = value[c]
          /\ \A c \in Markers \cup {"pills", "snapshot"} : c \in Caches
      BY <1>0, <2>2, <2>3 DEF LockType, Caches, Locked, Markers
    <2>6. ReadType' /\ NothingRead'
      <3>1. None \in HeldN
        BY DEF HeldN
      <3> QED
        BY <2>2, <2>5, <3>1 DEF Fresh, ReadType, NothingRead
    <2>7. ASSUME NEW m \in Markers
          PROVE  /\ NotBefore(value[m], announced[<<m, m>>])' 
                 /\ \A r \in Requests : pc'[r] = <<m, "store">> =>
                        NotBefore(got'[r][m], announced'[<<m, m>>])
      <3>1. CASE t = m
        <4>1. lock[m] = None /\ None \notin Requests
          BY <2>2, <3>1, LockNames
        <4>2. \A r \in Requests : pc[r] # <<m, "store">>
          BY <4>1 DEF LockInv, FillersHold, Filling
        <4> QED
          BY <2>2, <2>5, <3>1, <4>2, ReadableNames
      <3>2. CASE t # m
        <4>1. announced'[<<m, m>>] = announced[<<m, m>>] /\ value'[m] = value[m]
          BY <2>4, <2>5, <3>2, FollowedPairs
        <4> QED
          BY <2>2, <4>1 DEF Fresh, ViewsAreFresh, FillersAreFresh
      <3> QED
        BY <3>1, <3>2
    <2>8. ViewsAreFresh' /\ FillersAreFresh'
      BY <2>7 DEF ViewsAreFresh, FillersAreFresh
    <2>9. SnapshotIsFresh' /\ HomesAreFresh'
      <3>1. CASE t = "snapshot"
        <4>1. \A r \in Homes : r \in Requests /\ got[r] = Nothing
          BY <2>2, <3>1, LockNames DEF LockInv, HomesHold, Requests, Fresh, NothingRead
        <4> QED
          BY <2>2, <2>5, <3>1, <4>1, ReadableNames DEF SnapshotIsFresh, HomesAreFresh
      <3>2. CASE t # "snapshot"
        <4>1. /\ value'["snapshot"] = value["snapshot"]
              /\ \A src \in Sources : announced'[<<"snapshot", src>>] = announced[<<"snapshot", src>>]
          BY <2>4, <2>5, <3>2, FollowedPairs
        <4> QED
          BY <2>2, <4>1 DEF Fresh, SnapshotIsFresh, HomesAreFresh
      <3> QED
        BY <3>1, <3>2
    <2> QED
      BY <2>6, <2>8, <2>9 DEF Fresh
  <1> QED
    BY <1>1, <1>2 DEF Operation, OpStart, OpWrite, OpSwap, OpWriteFails, OpDropped

\* A request that reads nothing in its step.
LEMMA FreshGoes ==
    ASSUME Fresh, LockType, NEW r \in Requests, NEW stage,
           pc' = [pc EXCEPT ![r] = stage], UNCHANGED <<value, got, announced>>,
           r \in Homes /\ stage \in {Idle, <<"snapshot", "get">>} =>
               pc[r] \in {Idle, <<"snapshot", "get">>},
           \A m \in Markers : stage # <<m, "store">>
    PROVE  Fresh'
  <1>1. PICK g : g = got[r]
    OBVIOUS
  <1>2. g \in [Readable -> HeldN] /\ got' = [got EXCEPT ![r] = g]
    BY <1>1 DEF Fresh, ReadType
  <1>3. /\ \A c \in Markers \cup {"pills"} : value'[c] \in HeldN
        /\ ViewsAreFresh' /\ SnapshotIsFresh'
    BY DEF Fresh, ReadType, ViewsAreFresh, SnapshotIsFresh
  <1>4. /\ r \in Homes /\ stage \in {Idle, <<"snapshot", "get">>} => g = Nothing
        /\ r \in Homes => \A src \in Sources : NotBefore(g[src], announced[<<"snapshot", src>>])
    BY <1>1 DEF Fresh, NothingRead, HomesAreFresh
  <1> QED
    BY <1>2, <1>3, <1>4, FreshMove

\* A request that takes v as what it knows of a source or of the pills.
LEMMA FreshTakes ==
    ASSUME Fresh, LockType, NEW r \in Requests, NEW stage, NEW x \in Readable, NEW v \in HeldN,
           pc' = [pc EXCEPT ![r] = stage], got' = [got EXCEPT ![r][x] = v],
           UNCHANGED <<value, announced>>,
           r \in Homes => stage \notin {Idle, <<"snapshot", "get">>},
           \A m \in Markers : stage = <<m, "store">> => m = x /\ NotBefore(v, announced[<<m, m>>]),
           r \in Homes /\ x \in Sources => NotBefore(v, announced[<<"snapshot", x>>])
    PROVE  Fresh'
  <1>1. PICK g : g = [got[r] EXCEPT ![x] = v]
    OBVIOUS
  <1>2. /\ g \in [Readable -> HeldN] /\ g[x] = v
        /\ \A y \in Readable : y # x => g[y] = got[r][y]
    BY <1>1 DEF Fresh, ReadType
  <1>3. got' = [got EXCEPT ![r] = g]
    BY <1>1
  <1>4. /\ \A c \in Markers \cup {"pills"} : value'[c] \in HeldN
        /\ ViewsAreFresh' /\ SnapshotIsFresh'
    BY DEF Fresh, ReadType, ViewsAreFresh, SnapshotIsFresh
  <1>5. r \in Homes => \A src \in Sources : NotBefore(g[src], announced[<<"snapshot", src>>])
    BY <1>2, ReadableNames DEF Fresh, HomesAreFresh
  <1>6. \A m \in Markers : stage = <<m, "store">> => NotBefore(g[m], announced[<<m, m>>])
    BY <1>2
  <1> QED
    BY <1>2, <1>3, <1>4, <1>5, <1>6, FreshMove

\* What is stored in a view somebody may take into the snapshot.
LEMMA ViewIsFreshForHomes ==
    ASSUME SourceInv, NEW m \in Markers, NEW v \in HeldN, NotBefore(v, announced[<<m, m>>])
    PROVE  NotBefore(v, announced[<<"snapshot", m>>])
  <1>1. /\ announced[<<m, m>>] \in Nat /\ announced[<<"snapshot", m>>] \in Nat
        /\ announced[<<"snapshot", m>>] <= announced[<<m, m>>]
    BY FollowedPairs DEF SourceInv, SourceType, ViewsComeFirst
  <1> QED
    BY <1>1, NotBeforeEarlier

\* The start of requests, and the second look at the snapshot.
LEMMA FreshStarts ==
    ASSUME Fresh, LockInv, NEW r \in Requests, HomeMiss(r) \/ PageMiss(r) \/ HomeLock(r)
    PROVE  Fresh'
  <1> USE DEF cacheVars, writerVars
  <1>0. LockType
    BY DEF LockInv
  <1>1. PICK stage \in {<<"snapshot", "get">>, <<"recents", "get">>, <<"favs", "get">>, Idle} :
           /\ pc' = [pc EXCEPT ![r] = stage] /\ UNCHANGED <<value, got, announced>>
           /\ r \in Homes /\ stage \in {Idle, <<"snapshot", "get">>} =>
                  pc[r] \in {Idle, <<"snapshot", "get">>}
    <2>1. CASE HomeMiss(r)
      BY <2>1 DEF HomeMiss, Go
    <2>2. CASE PageMiss(r)
      BY <2>2, LockNames DEF PageMiss, Go
    <2>3. CASE HomeLock(r) /\ value["snapshot"] # None
      BY <2>3 DEF HomeLock, Go
    <2>4. CASE HomeLock(r) /\ value["snapshot"] = None
      BY <2>4, StagesDiffer DEF HomeLock, Go
    <2> QED
      BY <2>1, <2>2, <2>3, <2>4
  <1>2. \A m \in Markers : stage # <<m, "store">>
    BY <1>1 DEF Markers, Idle
  <1> QED
    BY <1>0, <1>1, <1>2, FreshGoes

\* What follows a view is no store, and neither the start nor the end.
LEMMA FollowingIsOther ==
    ASSUME NEW r \in Requests, NEW c \in Markers, NEW stage \in Following(r, c)
    PROVE  stage \notin {Idle, <<"snapshot", "get">>} /\ \A m \in Markers : stage # <<m, "store">>
  <1>1. stage \in After
    BY FollowingStages
  <1> QED
    BY <1>1 DEF After, Markers, Idle

\* The views: read, or loaded from the active storage.
LEMMA FreshViews ==
    ASSUME Fresh, LockInv, SourceInv, NEW r \in Requests, NEW c \in Markers,
           ViewGet(r, c) \/ ViewLoadFails(r, c) \/ (ViewLoad(r, c) /\ seen[r] = root)
    PROVE  Fresh'
  <1> USE DEF cacheVars, writerVars
  <1>0. /\ LockType /\ c \in Readable /\ c \in Sources /\ value[c] \in HeldN /\ Empty \in HeldN
        /\ NotBefore(value[c], announced[<<c, c>>])
    BY ReadableNames DEF LockInv, Fresh, ReadType, ViewsAreFresh, HeldN
  <1>1. ASSUME NEW v \in HeldN, Took(r, c, v), \E stage \in Following(r, c) : Go(r, stage),
               NotBefore(v, announced[<<"snapshot", c>>]), UNCHANGED <<value, announced>>,
               pc[r] \notin {Idle, <<"snapshot", "get">>}
        PROVE  Fresh'
    <2>1. PICK stage \in Following(r, c) : pc' = [pc EXCEPT ![r] = stage]
      BY <1>1 DEF Go
    <2>2. stage \notin {Idle, <<"snapshot", "get">>} /\ \A m \in Markers : stage # <<m, "store">>
      BY FollowingIsOther
    <2>3. CASE r \in Homes
      <3>1. got' = [got EXCEPT ![r][c] = v]
        BY <1>1, <2>3 DEF Took
      <3> QED
        BY <1>0, <1>1, <2>1, <2>2, <3>1, FreshTakes
    <2>4. CASE r \notin Homes
      <3>1. got' = got
        BY <1>1, <2>4 DEF Took
      <3> QED
        BY <1>0, <1>1, <2>1, <2>2, <3>1, FreshGoes
    <2> QED
      BY <2>3, <2>4
  <1>2. CASE ViewGet(r, c)
    <2>1. CASE value[c] = None
      <3>1. PICK stage : stage = <<c, "load">>
        OBVIOUS
      <3>2. pc' = [pc EXCEPT ![r] = stage] /\ UNCHANGED <<value, got, announced>>
        BY <1>2, <2>1, <3>1 DEF ViewGet, Go
      <3>3. stage \notin {Idle, <<"snapshot", "get">>} /\ \A m \in Markers : stage # <<m, "store">>
        BY <3>1 DEF Markers, Idle
      <3> QED
        BY <1>0, <3>2, <3>3, FreshGoes
    <2>2. CASE value[c] # None
      <3>1. /\ Took(r, c, value[c]) /\ \E stage \in Following(r, c) : Go(r, stage)
            /\ UNCHANGED <<value, announced>> /\ pc[r] = <<c, "get">>
        BY <1>2, <2>2 DEF ViewGet
      <3>2. pc[r] \notin {Idle, <<"snapshot", "get">>}
        BY <3>1, StagesDiffer
      <3>3. NotBefore(value[c], announced[<<"snapshot", c>>])
        BY <1>0, ViewIsFreshForHomes
      <3> QED
        BY <1>0, <1>1, <3>1, <3>2, <3>3
    <2> QED
      BY <2>1, <2>2
  <1>3. ASSUME NEW v \in HeldN, pc' = [pc EXCEPT ![r] = <<c, "store">>],
               got' = [got EXCEPT ![r][c] = v], NotBefore(v, announced[<<c, c>>]),
               UNCHANGED <<value, announced>>
        PROVE  Fresh'
    <2>1. PICK stage : stage = <<c, "store">>
      OBVIOUS
    <2>2. /\ stage \notin {Idle, <<"snapshot", "get">>}
          /\ \A m \in Markers : stage = <<m, "store">> => m = c
      BY <2>1 DEF Markers, Idle
    <2>3. NotBefore(v, announced[<<"snapshot", c>>])
      BY <1>3, ViewIsFreshForHomes
    <2> QED
      BY <1>0, <1>3, <2>1, <2>2, <2>3, FreshTakes
  <1>4. CASE ViewLoad(r, c) /\ seen[r] = root
    <2>1. /\ disk[root][c] = latest[c] /\ latest[c] \in Nat /\ announced[<<c, c>>] <= latest[c]
          /\ announced[<<c, c>>] \in Nat
      BY <1>0, FollowedPairs DEF SourceInv, SourceType, RootIsLatest, NothingIsAhead
    <2>2. latest[c] \in HeldN /\ NotBefore(latest[c], announced[<<c, c>>])
      BY <2>1 DEF HeldN, NotBefore
    <2>3. /\ pc' = [pc EXCEPT ![r] = <<c, "store">>] /\ got' = [got EXCEPT ![r][c] = latest[c]]
          /\ UNCHANGED <<value, announced>>
      BY <1>4, <2>1 DEF ViewLoad, Go
    <2> QED
      BY <1>3, <2>2, <2>3
  <1>5. CASE ViewLoadFails(r, c)
    <2>1. CASE c = "favs"
      <3>1. /\ pc' = [pc EXCEPT ![r] = <<c, "store">>] /\ got' = [got EXCEPT ![r][c] = Empty]
            /\ UNCHANGED <<value, announced>>
        BY <1>5, <2>1 DEF ViewLoadFails, Go
      <3> QED
        BY <1>0, <1>3, <3>1, ReadableNames
    <2>2. CASE c # "favs"
      <3>1. /\ Took(r, c, Empty) /\ \E stage \in Following(r, c) : Go(r, stage)
            /\ UNCHANGED <<value, announced>> /\ pc[r] = <<c, "load">>
        BY <1>5, <2>2 DEF ViewLoadFails
      <3>2. pc[r] \notin {Idle, <<"snapshot", "get">>}
        BY <3>1, StagesDiffer
      <3> QED
        BY <1>0, <1>1, <3>1, <3>2, ReadableNames
    <2> QED
      BY <2>1, <2>2
  <1> QED
    BY <1>2, <1>4, <1>5

\* A view is stored by who loaded it.
LEMMA FreshStore ==
    ASSUME Fresh, LockInv, NEW r \in Requests, NEW c \in Markers, ViewStore(r, c)
    PROVE  Fresh'
  <1> USE DEF writerVars
  <1>0. LockType /\ c \in Readable /\ c \in Sources /\ None \in HeldN /\ got[r] \in [Readable -> HeldN]
    BY ReadableNames DEF LockInv, Fresh, ReadType, HeldN
  <1>1. PICK stage \in Following(r, c) : pc' = [pc EXCEPT ![r] = stage]
    BY DEF ViewStore, Go
  <1>2. stage \notin {Idle, <<"snapshot", "get">>} /\ \A m \in Markers : stage # <<m, "store">>
    BY FollowingIsOther
  <1>3. /\ pc[r] = <<c, "store">> /\ value' = [value EXCEPT ![c] = got[r][c]] /\ announced' = announced
        /\ got' = IF r \in Homes THEN got ELSE [got EXCEPT ![r][c] = None]
    BY DEF ViewStore
  <1>4. got[r][c] \in HeldN /\ NotBefore(got[r][c], announced[<<c, c>>])
    BY <1>0, <1>3 DEF Fresh, FillersAreFresh
  <1>5. /\ value'[c] = got[r][c] /\ \A d \in Caches : d # c => value'[d] = value[d]
        /\ \A d \in Markers \cup {"pills", "snapshot"} : d \in Caches
        /\ "snapshot" # c
    BY <1>0, <1>3, LockNames DEF LockType, Caches, Locked, Markers
  <1>6. /\ \A d \in Markers \cup {"pills"} : value'[d] \in HeldN
        /\ ViewsAreFresh' /\ SnapshotIsFresh'
    <2>1. \A d \in Markers \cup {"pills"} : value'[d] \in HeldN
      BY <1>4, <1>5 DEF Fresh, ReadType
    <2>2. ViewsAreFresh'
      BY <1>3, <1>4, <1>5 DEF Fresh, ViewsAreFresh
    <2>3. SnapshotIsFresh'
      BY <1>3, <1>5 DEF Fresh, SnapshotIsFresh
    <2> QED
      BY <2>1, <2>2, <2>3
  <1>7. PICK g : g = IF r \in Homes THEN got[r] ELSE [got[r] EXCEPT ![c] = None]
    OBVIOUS
  <1>8. g \in [Readable -> HeldN] /\ got' = [got EXCEPT ![r] = g]
    <2>1. CASE r \in Homes
      BY <1>0, <1>3, <1>7, <2>1 DEF Fresh, ReadType
    <2>2. CASE r \notin Homes
      BY <1>0, <1>3, <1>7, <2>2
    <2> QED
      BY <2>1, <2>2
  <1>9. r \in Homes => \A src \in Sources : NotBefore(g[src], announced[<<"snapshot", src>>])
    BY <1>7 DEF Fresh, HomesAreFresh
  <1> QED
    BY <1>0, <1>1, <1>2, <1>3, <1>6, <1>8, <1>9, FreshMove

\* library.db is read as it is.
LEMMA FreshReads ==
    ASSUME Fresh, LockInv, SourceInv, NEW r \in Requests, ReadLibrary(r) \/ ReadUnavailable(r)
    PROVE  Fresh'
  <1> USE DEF cacheVars, writerVars
  <1>0. /\ LockType /\ got[r] \in [Readable -> HeldN] /\ value["pills"] \in HeldN
        /\ Empty \in HeldN /\ None \in HeldN
    BY DEF LockInv, Fresh, ReadType, HeldN
  <1>1. /\ latest["library"] \in Nat /\ announced[<<"snapshot", "library">>] \in Nat
        /\ announced[<<"snapshot", "library">>] <= latest["library"]
    BY FollowedPairs DEF SourceInv, SourceType, NothingIsAhead
  <1>2. latest["library"] \in HeldN /\ NotBefore(latest["library"], announced[<<"snapshot", "library">>])
    BY <1>1 DEF HeldN, NotBefore
  <1>3. PICK stage : stage = <<"library", "finish">>
    OBVIOUS
  <1>4. /\ stage \notin {Idle, <<"snapshot", "get">>} /\ \A m \in Markers : stage # <<m, "store">>
    BY <1>3 DEF Markers, Idle
  <1>5. pc' = [pc EXCEPT ![r] = stage] /\ UNCHANGED <<value, announced>>
    BY <1>3 DEF ReadLibrary, ReadUnavailable, Go
  <1>6. /\ \A c \in Markers \cup {"pills"} : value'[c] \in HeldN
        /\ ViewsAreFresh' /\ SnapshotIsFresh'
    BY <1>5 DEF Fresh, ReadType, ViewsAreFresh, SnapshotIsFresh
  <1>7. CASE ReadLibrary(r)
    <2>1. PICK p : p = (CASE r \in Pages -> None
                          [] r \in Homes /\ value["pills"] # None -> value["pills"]
                          [] r \in Homes /\ value["pills"] = None -> latest["library"])
      OBVIOUS
    <2>2. p \in HeldN
      <3>1. CASE r \in Pages
        BY <1>0, <2>1, <3>1, LockNames
      <3>2. CASE r \in Homes /\ value["pills"] # None
        BY <1>0, <2>1, <3>2, LockNames
      <3>3. CASE r \in Homes /\ value["pills"] = None
        BY <1>2, <2>1, <3>3, LockNames
      <3> QED
        BY <3>1, <3>2, <3>3, LockNames
    <2>3. PICK g : g = [got[r] EXCEPT !["library"] = latest["library"], !["pills"] = p]
      OBVIOUS
    <2>4. got' = [got EXCEPT ![r] = g]
      <3>1. got' = [got EXCEPT ![r]["library"] = latest["library"], ![r]["pills"] = p]
        BY <1>7, <2>1 DEF ReadLibrary
      <3> QED
        BY <2>3, <3>1 DEF Fresh, ReadType
    <2>5. /\ g \in [Readable -> HeldN] /\ g["library"] = latest["library"]
          /\ \A src \in Sources : src # "library" => g[src] = got[r][src]
      BY <1>0, <1>2, <2>2, <2>3, ReadableNames
    <2>6. r \in Homes => \A src \in Sources : NotBefore(g[src], announced[<<"snapshot", src>>])
      BY <1>2, <2>5 DEF Fresh, HomesAreFresh
    <2> QED
      BY <1>0, <1>4, <1>5, <1>6, <2>4, <2>5, <2>6, FreshMove
  <1>8. CASE ReadUnavailable(r)
    <2>1. PICK x : x = "library"
      OBVIOUS
    <2>2. got' = [got EXCEPT ![r][x] = Empty] /\ x \in Readable
      BY <1>8, <2>1, ReadableNames DEF ReadUnavailable
    <2> QED
      BY <1>0, <1>4, <1>5, <2>2, ReadableNames, FreshTakes
  <1> QED
    BY <1>7, <1>8

\* A request ends: it stores its result, or leaves, and forgets what it read.
LEMMA FreshEnds ==
    ASSUME Fresh, LockInv, NEW r \in Requests, HomeFinish(r) \/ PageFinish(r) \/ Leave(r)
    PROVE  Fresh'
  <1> USE DEF writerVars
  <1>0. LockType /\ got[r] \in [Readable -> HeldN]
    BY DEF LockInv, Fresh, ReadType
  <1>1. /\ pc' = [pc EXCEPT ![r] = Idle] /\ got' = [got EXCEPT ![r] = Nothing]
        /\ announced' = announced
    BY DEF HomeFinish, PageFinish, Leave, Forget, Go
  <1>2. ASSUME \A c \in Markers \cup {"pills"} : value'[c] \in HeldN, ViewsAreFresh', SnapshotIsFresh'
        PROVE  Fresh'
    <2>1. /\ \A m \in Markers : Idle # <<m, "store">>
          /\ \A src \in Sources : NotBefore(Nothing[src], announced[<<"snapshot", src>>])
      BY ReadableNames DEF Markers, Idle
    <2> QED
      BY <1>0, <1>1, <1>2, <2>1, ReadableNames, FreshMove
  <1>3. /\ \A c \in Markers : c \in Caches /\ c \notin {"snapshot", "pills", "response"}
        /\ "pills" \in Caches /\ "snapshot" \in Caches
        /\ value = [c \in Caches |-> value[c]]
    BY <1>0 DEF LockType, Caches, Locked, Markers
  <1>4. CASE HomeFinish(r)
    <2>1. r \in Homes
      BY <1>4 DEF HomeFinish
    <2>2. /\ \A c \in Markers : value'[c] = value[c]
          /\ value'["pills"] \in {value["pills"], got[r]["pills"]}
          /\ value'["snapshot"] \in {DefaultPayload, Payload(r)}
      BY <1>3, <1>4 DEF HomeFinish
    <2>3. \A c \in Markers \cup {"pills"} : value'[c] \in HeldN
      BY <1>0, <2>2, ReadableNames DEF Fresh, ReadType
    <2>4. ViewsAreFresh'
      BY <1>1, <2>2 DEF Fresh, ViewsAreFresh
    <2>5. \A src \in Sources : /\ NotBefore(DefaultPayload[src], announced[<<"snapshot", src>>])
                               /\ NotBefore(Payload(r)[src], announced[<<"snapshot", src>>])
      BY <2>1, ReadableNames DEF Fresh, HomesAreFresh, DefaultPayload, Payload
    <2>6. SnapshotIsFresh'
      <3>1. CASE value'["snapshot"] = DefaultPayload
        BY <1>1, <2>5, <3>1 DEF SnapshotIsFresh
      <3>2. CASE value'["snapshot"] = Payload(r)
        BY <1>1, <2>5, <3>2 DEF SnapshotIsFresh
      <3> QED
        BY <2>2, <3>1, <3>2
    <2> QED
      BY <1>2, <2>3, <2>4, <2>6
  <1>5. CASE PageFinish(r) \/ Leave(r)
    <2>1. \A c \in Markers \cup {"pills", "snapshot"} : value'[c] = value[c]
      BY <1>3, <1>5 DEF PageFinish, Leave
    <2> QED
      BY <1>1, <1>2, <2>1 DEF Fresh, ReadType, ViewsAreFresh, SnapshotIsFresh
  <1> QED
    BY <1>4, <1>5

\* A step keeps the invariant.
LEMMA FreshNext == FreshInv /\ LockInv /\ SourceInv /\ [Next]_vars => FreshInv'
  <1> SUFFICES ASSUME FreshInv, LockInv, SourceInv, [Next]_vars PROVE FreshInv'
    OBVIOUS
  <1> USE DEF cacheVars, requestVars, writerVars
  <1>1. CASE strayed
    <2>1. strayed'
      <3>1. CASE UNCHANGED strayed
        BY <1>1, <3>1
      <3>2. ASSUME NEW r \in Requests, NEW c \in Markers, ViewLoad(r, c) PROVE strayed'
        BY <1>1, <3>2 DEF ViewLoad
      <3>3. ASSUME NEW w \in Writers, Operation(w) PROVE UNCHANGED strayed
        BY <3>3 DEF Operation, OpStart, OpWrite, OpSwap, OpWriteFails, OpInvalidate, OpDropped
      <3>4. ASSUME NEW r \in Requests, HomeMiss(r) \/ PageMiss(r) \/ Progress(r) \/ Leave(r)
            PROVE  UNCHANGED strayed \/ \E c \in Markers : ViewLoad(r, c)
        BY <3>4 DEF HomeMiss, PageMiss, Progress, Leave, HomeLock, ViewGet, ViewLoadFails,
                    ViewStore, ReadLibrary, ReadUnavailable, HomeFinish, PageFinish
      <3> QED
        BY <3>1, <3>2, <3>3, <3>4 DEF Next, Expire, vars
    <2> QED
      BY <2>1 DEF FreshInv
  <1>2. CASE ~strayed
    <2>0. Fresh
      BY <1>2 DEF FreshInv
    <2>1. CASE UNCHANGED <<value, pc, got, announced>>
      BY <2>0, <2>1 DEF FreshInv, Fresh, ReadType, NothingRead, ViewsAreFresh, FillersAreFresh,
                        SnapshotIsFresh, HomesAreFresh
    <2>2. ASSUME NEW w \in Writers, Operation(w) PROVE FreshInv'
      BY <2>0, <2>2, FreshOperation DEF FreshInv
    <2>3. ASSUME NEW r \in Requests, NEW c \in Markers, ViewLoad(r, c), seen[r] # root PROVE FreshInv'
      BY <2>3 DEF ViewLoad, FreshInv
    <2>4. ASSUME NEW r \in Requests, HomeMiss(r) \/ PageMiss(r) \/ Progress(r) \/ Leave(r)
          PROVE  FreshInv'
      BY <2>0, <2>3, <2>4, FreshStarts, FreshViews, FreshStore, FreshReads, FreshEnds
         DEF Progress, FreshInv
    <2> QED
      BY <2>1, <2>2, <2>4 DEF Next, Expire, vars
  <1> QED
    BY <1>1, <1>2

\* Once an operation has invalidated a view that is filled under its lock, no
\* request that began before brings back what the operation replaced, neither
\* directly nor by way of the views that the snapshot is computed from, unless a
\* request filled a view from a storage that had been left.
THEOREM InvalidatedStaysOut == Spec => []InvalidationHolds
  <1>1. Spec => []LockInv
    BY LockInvariant
  <1>2. Spec => []SourceInv
    BY SourceInit, SourceNext, PTL DEF Spec
  <1>3. Spec => []FreshInv
    BY <1>1, <1>2, FreshInit, FreshNext, PTL DEF Spec
  <1>4. FreshInv => InvalidationHolds
    BY DEF FreshInv, Fresh, ViewsAreFresh, SnapshotIsFresh, InvalidationHolds, Markers
  <1> QED
    BY <1>3, <1>4, PTL
=============================================================================
