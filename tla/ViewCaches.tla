----------------------------- MODULE ViewCaches -----------------------------
(***************************************************************************)
(* The in-memory views: favorites and recents (api/library/mod.rs,         *)
(* api/library/favorites.rs), the pills of QueryCache                      *)
(* (api/library/query.rs), the recommendations snapshot                    *)
(* (api/library/ssr_snapshot.rs) and the favorites page's TtlSlot          *)
(* (api/response_cache.rs), with the requests that fill them and the       *)
(* operations that change what they show and then invalidate them.         *)
(*                                                                         *)
(* What a source holds is a version: every write, and every activation of  *)
(* a storage, is a later one.  The snapshot is the versions of the sources *)
(* it was computed from; of what the favorites page shows, only the        *)
(* version of library.db is kept.  Favorites and recents are read from the *)
(* storage that a request saw when it started; library.db is whatever is   *)
(* open.  The four fields of QueryCache are read, set and cleared together *)
(* here.  An operation is the list of its writes and invalidations.        *)
(***************************************************************************)
EXTENDS Integers, Sequences

CONSTANTS Homes,      \* requests for the home page (get_recommendations)
          Pages,      \* requests for the favorites page
          Writers,    \* operations that can be in progress at once
          Storages,   \* storages that can be active
          MaxOps,     \* bound: operations
          MaxFaults,  \* bound: reads and writes that fail
          Empty,      \* the default payload of a read that failed
          None        \* absence of a value

ASSUME CachesAssumption ==
    /\ Homes \cap Pages = {}
    /\ Storages # {}
    /\ MaxOps \in Nat
    /\ MaxFaults \in Nat
    /\ None \notin Homes \cup Pages \cup Nat \cup {Empty}
    /\ Empty \notin Nat

Markers == {"favs", "recents"}    \* directories of marker files on the storage
Sources == {"library"} \cup Markers
Locked == {"favs", "recents", "snapshot"}    \* caches whose lock is held while they are filled
Caches == Locked \cup {"pills", "response"}
Requests == Homes \cup Pages

\* What an invalidation of a cache announces: that the cache does not show that
\* source as it was before the operation.
Followed == {<<"favs", "favs">>, <<"recents", "recents">>, <<"snapshot", "library">>,
             <<"snapshot", "favs">>, <<"snapshot", "recents">>}

VARIABLES latest,    \* latest[src]: version of the open library.db and of the markers
          root,      \* the active storage
          disk,      \* disk[s]: versions of the favorites and recents on storage s
          value,     \* value[c]: what cache c holds
          expired,   \* the value of the TtlSlot is older than RESPONSE_TTL
          lock,      \* lock[c]: the request that holds the write lock of c
          pc,        \* where each request is
          seen,      \* storage that a request captured
          got,       \* what a request has read so far
          op,        \* op[w]: the operation of w, and what is left of it
          ops, faults,
          wrote,     \* history: versions that the operation of w has written
          announced, \* history: versions whose operation has invalidated a cache
          strayed    \* history: a view was filled from a storage that is not active

sourceVars == <<latest, root, disk>>
cacheVars == <<value, expired, lock>>
requestVars == <<pc, seen, got>>
writerVars == <<op, ops, wrote, announced>>
vars == <<sourceVars, cacheVars, requestVars, writerVars, faults, strayed>>

Versions == 0 .. 2 * MaxOps    \* no operation writes a source more than twice
Held == Versions \cup {Empty, None}
Payloads == [Sources -> Held]
Readable == Sources \cup {"pills"}    \* what a request takes into its payload
Nothing == [x \in Readable |-> None]
Idle == <<"page", "idle">>

-----------------------------------------------------------------------------
(* Operations.                                                             *)

Write(src) == <<"write", src>>
Invalidate(c) == <<"invalidate", c>>
Swap == <<"swap", "storage">>

\* LibraryService::invalidate_in_memory_views
InMemoryViews == <<Invalidate("favs"), Invalidate("recents"), Invalidate("pills")>>

\* AppState::invalidate_user_caches
UserCaches == <<Invalidate("response"), Invalidate("snapshot")>>

\* Mutant: the snapshot is dropped before the view that it is computed from.
FavoriteReversed == <<Write("favs")>> \o UserCaches \o <<Invalidate("favs")>>

\* add_favorite and its siblings, the REST calls, and a change that the watcher sees
Favorite == <<Write("favs"), Invalidate("favs")>> \o UserCaches

\* launch_game, delete_recent, a session that now_playing sees
Launch == <<Write("recents"), Invalidate("recents"), Invalidate("snapshot")>>

\* A finished download, a box art override, clear_images, reenrich_all_systems
Decorate == <<Write("library")>> \o UserCaches

\* delete_rom and rename_rom: the cascade, then clear_system_and_invalidate_caches,
\* which clears the pills before the rows
EditRom == <<Write("favs"), Write("library"), Invalidate("pills"), Write("library"),
             Invalidate("favs")>> \o UserCaches

\* The REST rename: clear_library_and_invalidate_caches
RestRename == InMemoryViews \o <<Write("library")>> \o UserCaches

\* rescan_game_library and rebuild_game_library, whose populate pass comes after
Rescan == InMemoryViews \o UserCaches \o <<Write("library")>>

\* A rescan of the watcher, or a populate pass that queued identity work
ScanAndAnnounce == <<Write("library")>> \o InMemoryViews \o UserCaches

\* redetect_storage once library.db is reopened
Activation == <<Write("library"), Swap>> \o InMemoryViews \o UserCaches

Script ==
    [favorite |-> Favorite, launch |-> Launch, decorate |-> Decorate, edit |-> EditRom,
     rest |-> RestRename, rescan |-> Rescan, scan |-> ScanAndAnnounce, activate |-> Activation]

\* Operations that run inside the future of a web request.
OfRequests == {"favorite", "launch", "decorate", "edit", "rest", "activate"}

NoOp == [kind |-> None, todo |-> <<>>]

TypeOK ==
    /\ latest \in [Sources -> Versions]
    /\ root \in Storages
    /\ disk \in [Storages -> [Markers -> Versions]]
    /\ DOMAIN value = Caches
    /\ \A c \in Caches \ {"snapshot"} : value[c] \in Held
    /\ value["snapshot"] \in Payloads \cup {None}
    /\ expired \in BOOLEAN
    /\ expired => value["response"] # None
    /\ lock \in [Locked -> Requests \cup {None}]
    /\ pc \in [Requests -> {Idle, <<"snapshot", "get">>}
                           \cup Markers \X {"get", "load", "store"}
                           \cup {"library"} \X {"read", "finish"}]
    /\ seen \in [Requests -> Storages \cup {None}]
    /\ got \in [Requests -> [Readable -> Held]]
    /\ \A w \in Writers : op[w].kind \in DOMAIN Script \cup {None} /\ Len(op[w].todo) <= 7
    /\ ops \in 0 .. MaxOps
    /\ faults \in 0 .. MaxFaults
    /\ wrote \in [Writers -> [Sources -> Versions]]
    /\ announced \in [Followed -> Versions]
    /\ strayed \in BOOLEAN

Init ==
    /\ latest = [src \in Sources |-> 0]
    /\ root = CHOOSE s \in Storages : TRUE
    /\ disk = [s \in Storages |-> [f \in Markers |-> 0]]
    /\ value = [c \in Caches |-> None]
    /\ expired = FALSE
    /\ lock = [c \in Locked |-> None]
    /\ pc = [r \in Requests |-> Idle]
    /\ seen = [r \in Requests |-> None]
    /\ got = [r \in Requests |-> Nothing]
    /\ op = [w \in Writers |-> NoOp]
    /\ ops = 0 /\ faults = 0
    /\ wrote = [w \in Writers |-> [src \in Sources |-> 0]]
    /\ announced = [f \in Followed |-> 0]
    /\ strayed = FALSE

OpStart(w, kind) ==
    /\ op[w] = NoOp
    /\ ops < MaxOps
    /\ ops' = ops + 1
    /\ op' = [op EXCEPT ![w] = [kind |-> kind, todo |-> Script[kind]]]
    /\ UNCHANGED <<sourceVars, cacheVars, requestVars, faults, wrote, announced, strayed>>

Next1(w, verb) == op[w].todo # <<>> /\ Head(op[w].todo)[1] = verb

Target(w) == Head(op[w].todo)[2]

Ended(w, todo) == [op EXCEPT ![w] = IF todo = <<>> THEN NoOp ELSE [@ EXCEPT !.todo = todo]]

\* What an operation has written is remembered until it ends.
Wrote(w, srcs, todo) ==
    wrote' = [wrote EXCEPT ![w] = [src \in Sources |->
                 CASE todo = <<>>                     -> 0
                   [] todo # <<>> /\ src \in srcs     -> latest'[src]
                   [] todo # <<>> /\ src \notin srcs  -> @[src]]]

OpWrite(w) ==
    /\ Next1(w, "write")
    /\ latest' = [latest EXCEPT ![Target(w)] = @ + 1]
    /\ disk' = IF Target(w) = "library" THEN disk
               ELSE [disk EXCEPT ![root][Target(w)] = latest'[Target(w)]]
    /\ op' = Ended(w, Tail(op[w].todo))
    /\ Wrote(w, {Target(w)}, Tail(op[w].todo))
    /\ UNCHANGED <<root, cacheVars, requestVars, ops, faults, announced, strayed>>

\* The location is set; what is on the new storage counts as new.
OpSwap(w) ==
    /\ Next1(w, "swap")
    /\ latest' = [src \in Sources |-> IF src = "library" THEN latest[src] ELSE latest[src] + 1]
    /\ \E s \in Storages :
        /\ root' = s
        /\ disk' = [disk EXCEPT ![s] = [f \in Markers |-> latest'[f]]]
    /\ op' = Ended(w, Tail(op[w].todo))
    /\ Wrote(w, Markers, Tail(op[w].todo))
    /\ UNCHANGED <<cacheVars, requestVars, ops, faults, announced, strayed>>

\* The write fails: the call returns, or logs it and goes on.
OpWriteFails(w) ==
    /\ Next1(w, "write")
    /\ faults < MaxFaults
    /\ faults' = faults + 1
    /\ \E todo \in {<<>>, Tail(op[w].todo)} :
        /\ op' = Ended(w, todo)
        /\ Wrote(w, {}, todo)
    /\ UNCHANGED <<sourceVars, cacheVars, requestVars, ops, announced, strayed>>

Cleared(c) == value' = [value EXCEPT ![c] = None]

\* Waits for a request that is filling a locked cache.
OpInvalidate(w) ==
    /\ Next1(w, "invalidate")
    /\ Target(w) \in Locked => lock[Target(w)] = None
    /\ Cleared(Target(w))
    /\ expired' = (expired /\ Target(w) # "response")
    /\ announced' = [f \in Followed |->
                       IF f[1] = Target(w) /\ wrote[w][f[2]] > announced[f]
                       THEN wrote[w][f[2]] ELSE announced[f]]
    /\ op' = Ended(w, Tail(op[w].todo))
    /\ Wrote(w, {}, Tail(op[w].todo))
    /\ UNCHANGED <<sourceVars, lock, requestVars, ops, faults, strayed>>

\* The client leaves and its future is dropped, at an await between two steps.
OpDropped(w) ==
    /\ op[w].kind \in OfRequests
    /\ op' = Ended(w, <<>>)
    /\ Wrote(w, {}, <<>>)
    /\ UNCHANGED <<sourceVars, cacheVars, requestVars, ops, faults, announced, strayed>>

-----------------------------------------------------------------------------
(* Requests.                                                               *)

Go(r, stage) == pc' = [pc EXCEPT ![r] = stage]

\* The read lock of the snapshot: a miss.
HomeMiss(r) ==
    /\ r \in Homes /\ pc[r] = Idle
    /\ lock["snapshot"] = None
    /\ value["snapshot"] = None
    /\ Go(r, <<"snapshot", "get">>)
    /\ UNCHANGED <<sourceVars, cacheVars, seen, got, writerVars, faults, strayed>>

\* Mutant: the write lock without the second look.
HomeLockOnce(r) ==
    /\ pc[r] = <<"snapshot", "get">>
    /\ lock["snapshot"] = None
    /\ lock' = [lock EXCEPT !["snapshot"] = r]
    /\ seen' = [seen EXCEPT ![r] = root]
    /\ Go(r, <<"favs", "get">>)
    /\ UNCHANGED <<sourceVars, value, expired, got, writerVars, faults, strayed>>

\* The write lock, and the second look.
HomeLock(r) ==
    /\ pc[r] = <<"snapshot", "get">>
    /\ lock["snapshot"] = None
    /\ IF value["snapshot"] # None
       THEN Go(r, Idle) /\ UNCHANGED <<lock, seen>>
       ELSE /\ lock' = [lock EXCEPT !["snapshot"] = r]
            /\ seen' = [seen EXCEPT ![r] = root]
            /\ Go(r, <<"favs", "get">>)
    /\ UNCHANGED <<sourceVars, value, expired, got, writerVars, faults, strayed>>

\* Mutant: an entry is served however old it is.
ServedForever == value["response"] # None

\* TtlSlot::get
Served == value["response"] # None /\ ~expired

PageMiss(r) ==
    /\ r \in Pages /\ pc[r] = Idle
    /\ ~Served
    /\ seen' = [seen EXCEPT ![r] = root]
    /\ Go(r, <<"recents", "get">>)
    /\ UNCHANGED <<sourceVars, cacheVars, got, writerVars, faults, strayed>>

\* The order in which a request needs its sources; the home page needs recents
\* only for the Hidden Gems spotlight.  (With them it looks at favorites a second
\* time, for the names to leave out.  That look, by the same locks and at least as
\* late as the first, is left out: what it can fill the favorites page fills too.)
Following(r, c) ==
    CASE r \in Homes /\ c = "favs"    -> {<<"recents", "get">>, <<"library", "read">>}
      [] r \in Homes /\ c = "recents" -> {<<"library", "read">>}
      [] r \in Pages /\ c = "recents" -> {<<"favs", "get">>}
      [] r \in Pages /\ c = "favs"    -> {<<"library", "read">>}

\* The home page keeps what a view gave it.
Took(r, c, v) == got' = IF r \in Homes THEN [got EXCEPT ![r][c] = v] ELSE got

\* with_favorites and get_recents: under the read lock, and again under the write
\* lock, the value that is there; without one the write lock is kept.
ViewGet(r, c) ==
    /\ pc[r] = <<c, "get">>
    /\ lock[c] = None
    /\ IF value[c] = None
       THEN lock' = [lock EXCEPT ![c] = r] /\ Go(r, <<c, "load">>) /\ UNCHANGED got
       ELSE /\ Took(r, c, value[c])
            /\ \E stage \in Following(r, c) : Go(r, stage)
            /\ UNCHANGED lock
    /\ UNCHANGED <<sourceVars, value, expired, seen, writerVars, faults, strayed>>

\* The files of the storage that the request saw.
ViewLoad(r, c) ==
    /\ pc[r] = <<c, "load">>
    /\ got' = [got EXCEPT ![r][c] = disk[seen[r]][c]]
    /\ strayed' = (strayed \/ seen[r] # root)
    /\ Go(r, <<c, "store">>)
    /\ UNCHANGED <<sourceVars, cacheVars, seen, writerVars, faults>>

\* A directory that cannot be read: no favorites, which are cached; recents are
\* an error, which is not.
ViewLoadFails(r, c) ==
    /\ pc[r] = <<c, "load">>
    /\ faults < MaxFaults
    /\ faults' = faults + 1
    /\ IF c = "favs"
       THEN Go(r, <<c, "store">>) /\ got' = [got EXCEPT ![r][c] = Empty] /\ UNCHANGED lock
       ELSE /\ Took(r, c, Empty)
            /\ \E stage \in Following(r, c) : Go(r, stage)
            /\ lock' = [lock EXCEPT ![c] = None]
    /\ UNCHANGED <<sourceVars, value, expired, seen, writerVars, strayed>>

ViewStore(r, c) ==
    /\ pc[r] = <<c, "store">>
    /\ value' = [value EXCEPT ![c] = got[r][c]]
    /\ lock' = [lock EXCEPT ![c] = None]
    /\ got' = IF r \in Homes THEN got ELSE [got EXCEPT ![r][c] = None]
    /\ \E stage \in Following(r, c) : Go(r, stage)
    /\ UNCHANGED <<sourceVars, expired, seen, writerVars, faults, strayed>>

\* The home page takes the pills from their cache, or from the same read.
ReadLibrary(r) ==
    /\ pc[r] = <<"library", "read">>
    /\ got' = [got EXCEPT ![r]["library"] = latest["library"],
                          ![r]["pills"] =
                              CASE r \in Pages -> None
                                [] r \in Homes /\ value["pills"] # None -> value["pills"]
                                [] r \in Homes /\ value["pills"] = None -> latest["library"]]
    /\ seen' = [seen EXCEPT ![r] = None]
    /\ Go(r, <<"library", "finish">>)
    /\ UNCHANGED <<sourceVars, cacheVars, writerVars, faults, strayed>>

\* The pool is closed, or its gate is shut.
ReadUnavailable(r) ==
    /\ pc[r] = <<"library", "read">>
    /\ faults < MaxFaults
    /\ faults' = faults + 1
    /\ got' = [got EXCEPT ![r]["library"] = Empty]
    /\ seen' = [seen EXCEPT ![r] = None]
    /\ Go(r, <<"library", "finish">>)
    /\ UNCHANGED <<sourceVars, cacheVars, writerVars, strayed>>

Payload(r) == [src \in Sources |-> got[r][src]]

DefaultPayload == [src \in Sources |-> Empty]

Forget(r) ==
    /\ seen' = [seen EXCEPT ![r] = None]
    /\ got' = [got EXCEPT ![r] = Nothing]
    /\ Go(r, Idle)

\* compute_recommendations: the pills are set; the default payload when the
\* database was not available; then the snapshot, and its lock is released.
HomeFinish(r) ==
    /\ r \in Homes
    /\ pc[r] = <<"library", "finish">>
    /\ value' = IF got[r]["library"] = Empty
                THEN [value EXCEPT !["snapshot"] = DefaultPayload]
                ELSE [value EXCEPT !["snapshot"] = Payload(r),
                                   !["pills"] = got[r]["pills"]]
    /\ lock' = [lock EXCEPT !["snapshot"] = None]
    /\ Forget(r)
    /\ UNCHANGED <<sourceVars, expired, writerVars, faults, strayed>>

\* TtlSlot::set
PageFinish(r) ==
    /\ r \in Pages
    /\ pc[r] = <<"library", "finish">>
    /\ value' = [value EXCEPT !["response"] = got[r]["library"]]
    /\ expired' = FALSE
    /\ Forget(r)
    /\ UNCHANGED <<sourceVars, lock, writerVars, faults, strayed>>

\* Mutant: a request that is dropped keeps its locks.
LeaveLocked(r) ==
    /\ pc[r] # Idle
    /\ Forget(r)
    /\ UNCHANGED <<sourceVars, cacheVars, writerVars, faults, strayed>>

\* The client leaves: the future is dropped, and with it the lock guards.
Leave(r) ==
    /\ pc[r] # Idle
    /\ lock' = [c \in Locked |-> IF lock[c] = r THEN None ELSE lock[c]]
    /\ Forget(r)
    /\ UNCHANGED <<sourceVars, value, expired, writerVars, faults, strayed>>

\* RESPONSE_TTL passes.
Expire ==
    /\ Served
    /\ expired' = TRUE
    /\ UNCHANGED <<sourceVars, value, lock, requestVars, writerVars, faults, strayed>>

-----------------------------------------------------------------------------
Operation(w) ==
    \/ \E kind \in DOMAIN Script : OpStart(w, kind)
    \/ OpWrite(w) \/ OpSwap(w) \/ OpWriteFails(w) \/ OpInvalidate(w) \/ OpDropped(w)

Progress(r) ==
    \/ HomeLock(r)
    \/ \E c \in Markers :
        ViewGet(r, c) \/ ViewLoad(r, c) \/ ViewLoadFails(r, c) \/ ViewStore(r, c)
    \/ ReadLibrary(r) \/ ReadUnavailable(r) \/ HomeFinish(r) \/ PageFinish(r)

Next ==
    \/ \E w \in Writers : Operation(w)
    \/ \E r \in Requests : HomeMiss(r) \/ PageMiss(r) \/ Progress(r) \/ Leave(r)
    \/ Expire

Spec == Init /\ [][Next]_vars

\* Time passes.
FairSpec == Spec /\ WF_vars(Expire)

-----------------------------------------------------------------------------
(* Properties.                                                             *)

\* v is no older than version n: nothing, the empty default, or n or later.
NotBefore(v, n) == v \in {None, Empty} \/ v >= n

\* "Single-flight on miss": once an operation has invalidated a view that is filled
\* under its lock, no request that began before brings back what the operation
\* replaced; for the snapshot also not by way of the favorites and recents that
\* it is computed from.  A request that still had the storage of before a swap is
\* excepted: it fills the views from that storage.
InvalidationHolds ==
    ~strayed =>
        /\ NotBefore(value["favs"], announced[<<"favs", "favs">>])
        /\ NotBefore(value["recents"], announced[<<"recents", "recents">>])
        /\ value["snapshot"] # None =>
            \A src \in Sources :
                NotBefore(value["snapshot"][src], announced[<<"snapshot", src>>])

\* "`compute` is called at most once per invalidation window": requests that miss at
\* the same time share one result; a filled cache is replaced only after an
\* invalidation has emptied it.
FilledOncePerWindow ==
    [][\A c \in Locked : value[c] # None => value'[c] \in {value[c], None}]_vars

\* "The TTL is the *upper bound* for staleness": the favorites page's entry is set
\* without a lock and may be older than an invalidation, but once writes have
\* ceased it is not served for ever: in the end what is served shows library.db
\* as it is, whether or not the last write was ever announced.
ResponseConverges == <>[](Served => value["response"] = latest["library"])

\* A lock is never left behind by a request that ended or left, and who holds the
\* lock of a view waits for no other lock: requests take two locks one inside
\* the other, the pages in different orders, and cannot block one another for good.
NoLockCycle ==
    /\ \A c \in Markers : lock[c] # None => pc[lock[c]] \in {c} \X {"load", "store"}
    /\ lock["snapshot"] # None =>
        /\ lock["snapshot"] \in Homes
        /\ pc[lock["snapshot"]] \notin {Idle, <<"snapshot", "get">>}
=============================================================================
