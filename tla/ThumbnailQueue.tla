--------------------------- MODULE ThumbnailQueue ---------------------------
(***************************************************************************)
(* Artwork downloads of one system: the durable job rows of library.db     *)
(* (library/db/game_library.rs), enrichment that plans and submits them    *)
(* (api/library/enrichment.rs), the orchestrator that downloads            *)
(* (api/thumbnail_orchestrator.rs), and clear_images.                      *)
(*                                                                         *)
(* A key is one image file; the rows of all games that share it are        *)
(* changed together and are one row here.  Jobs keep the storage root they *)
(* were submitted with; their completion hook writes to whatever library   *)
(* is open when it runs.  thumbnail_state, which no decision reads, and    *)
(* the visible queue, which no caller submits to, are left out.            *)
(***************************************************************************)
EXTENDS Integers, Sequences, FiniteSets

CONSTANTS Keys,         \* image files of the manifest
          BoxArt,       \* those of kind Boxart, which box_art_url can show
          Storages,     \* storages that can be active
          Submitters,   \* tasks that submit: spawned by enrichment, or resuming
          Capacity,     \* Config::bulk_capacity
          MaxConcurrent,  \* Config::max_concurrent
          MaxAttempts,  \* MAX_THUMBNAIL_JOB_ATTEMPTS
          Faults,       \* whether writes to library.db may fail
          MaxRuns,      \* bound: enrichments and resumptions
          MaxEvents,    \* bound: swaps and clears
          None          \* absence of a value

Lanes == 1 .. MaxConcurrent

Rows == [state : {"none", "Queued", "Failed"}, attempts : 0 .. MaxAttempts]

Jobs == [key : Keys, root : Storages]

Downloads == [key : Keys, root : Storages, pc : {"download", "hook", "release"},
              saved : BOOLEAN]

Submissions == [todo : SUBSET Keys, at : Keys \cup {None}, root : Storages \cup {None}]

Enrichments == [root : Storages, found : SUBSET Keys, plan : SUBSET Keys,
                pc : {"upsert", "art"}]

ASSUME ThumbnailAssumption ==
    /\ BoxArt \subseteq Keys
    /\ Capacity \in Nat \ {0}
    /\ MaxConcurrent \in Nat \ {0}
    /\ MaxAttempts \in Nat \ {0}
    /\ Faults \in BOOLEAN
    /\ MaxRuns \in Nat
    /\ MaxEvents \in Nat
    /\ Storages # {}
    /\ None \notin Keys \cup Storages \cup Jobs \cup Downloads

VARIABLES cur,       \* the active storage, whose library is open
          images,    \* images[s]: image files on storage s
          art,       \* art[s]: keys that box_art_url of s's library shows
          job,       \* job[s][k]: row of library_thumbnail_job
          pending,   \* the orchestrator's dedup set
          submit,    \* submit[u]: what task u has left to submit
          queue,     \* the bulk channel
          hand,      \* the job run_worker holds while it waits for a permit
          lane,      \* lane[i]: the job of permit i
          enrich,    \* the enrichment under way
          clearing,  \* clear_images between its two halves
          boot,      \* the pipeline has not resumed downloads yet
          runs, events,
          planned,   \* history: keys queued in s's library since it was last cleared
          disturbed  \* history: <<s, k>> that a swap or a clear met between save and hook

libVars == <<images, art, job>>
bounds == <<runs, events>>
workVars == <<queue, hand, lane>>
history == <<planned, disturbed>>
vars == <<cur, libVars, pending, submit, workVars, enrich, clearing, boot, bounds, history>>

TypeOK ==
    /\ cur \in Storages
    /\ images \in [Storages -> SUBSET Keys]
    /\ art \in [Storages -> SUBSET Keys]
    /\ job \in [Storages -> [Keys -> Rows]]
    /\ pending \subseteq Keys
    /\ submit \in [Submitters -> Submissions]
    /\ \A u \in Submitters : submit[u].at # None => submit[u].root # None
    /\ queue \in Seq(Jobs) /\ Len(queue) <= Capacity
    /\ hand \in Jobs \cup {None}
    /\ lane \in [Lanes -> Downloads \cup {None}]
    /\ enrich \in Enrichments \cup {None}
    /\ clearing \in Storages \cup {None}
    /\ boot \in BOOLEAN
    /\ runs \in 0 .. MaxRuns
    /\ events \in 0 .. MaxEvents
    /\ planned \in [Storages -> SUBSET Keys]
    /\ disturbed \subseteq Storages \X Keys

NoRow == [state |-> "none", attempts |-> 0]

Idle == [todo |-> {}, at |-> None, root |-> None]

Init ==
    /\ cur = CHOOSE s \in Storages : TRUE
    /\ images = [s \in Storages |-> {}]
    /\ art = [s \in Storages |-> {}]
    /\ job = [s \in Storages |-> [k \in Keys |-> NoRow]]
    /\ pending = {}
    /\ submit = [u \in Submitters |-> Idle]
    /\ queue = <<>>
    /\ hand = None
    /\ lane = [i \in Lanes |-> None]
    /\ enrich = None
    /\ clearing = None
    /\ boot = TRUE
    /\ runs = 0 /\ events = 0
    /\ planned = [s \in Storages |-> {}]
    /\ disturbed = {}

-----------------------------------------------------------------------------
(* enrich_system_library_with_cancellation, as far as images go.           *)

\* The root, the image index and the plan of what is missing.
EnrichStart ==
    /\ enrich = None
    /\ runs < MaxRuns
    /\ runs' = runs + 1
    /\ enrich' = [root |-> cur, found |-> images[cur] \cap BoxArt, plan |-> Keys \ images[cur],
                  pc |-> "upsert"]
    /\ UNCHANGED <<cur, libVars, pending, submit, workVars, clearing, boot, events, history>>

\* The ON CONFLICT clause: rows that are spent keep their state.
Upserted(r) ==
    IF r.state # "none" /\ r.attempts >= MaxAttempts THEN r
    ELSE [state |-> "Queued", attempts |-> r.attempts]

\* queue_scan_thumbnail_downloads: one transaction, then a task that submits.
EnrichQueue(u) ==
    /\ enrich # None /\ enrich.pc = "upsert"
    /\ submit[u] = Idle
    /\ enrich.plan # {}
    /\ job' = [job EXCEPT ![cur] = [k \in Keys |-> IF k \in enrich.plan THEN Upserted(@[k])
                                                   ELSE @[k]]]
    /\ planned' = [planned EXCEPT ![cur] = @ \cup enrich.plan]
    /\ submit' = [submit EXCEPT ![u].todo = enrich.plan]
    /\ enrich' = [enrich EXCEPT !.pc = "art"]
    /\ UNCHANGED <<cur, images, art, pending, workVars, clearing, boot, bounds, disturbed>>

\* Nothing is missing, or the transaction failed: nothing is submitted.
EnrichQueueNothing ==
    /\ enrich # None /\ enrich.pc = "upsert"
    /\ enrich.plan = {} \/ Faults
    /\ enrich' = [enrich EXCEPT !.pc = "art"]
    /\ UNCHANGED <<cur, libVars, pending, submit, workVars, clearing, boot, bounds, history>>

\* write_box_art_genre_rating_updates: found images are set, none is cleared.
EnrichArt ==
    /\ enrich # None /\ enrich.pc = "art"
    /\ art' = [art EXCEPT ![cur] = @ \cup enrich.found]
    /\ enrich' = None
    /\ UNCHANGED <<cur, images, job, pending, submit, workVars, clearing, boot, bounds, history>>

\* A cancellation, a read that is unavailable or a write that failed.
EnrichStop ==
    /\ enrich # None
    /\ enrich' = None
    /\ UNCHANGED <<cur, libVars, pending, submit, workVars, clearing, boot, bounds, history>>

Loadable(k) == job[cur][k].state # "none" /\ job[cur][k].attempts < MaxAttempts

\* resume_pending_thumbnail_downloads, once per run of the startup pipeline.
Resume(u) ==
    /\ boot
    /\ submit[u] = Idle
    /\ runs < MaxRuns
    /\ runs' = runs + 1
    /\ boot' = FALSE
    /\ submit' = [submit EXCEPT ![u].todo = {k \in Keys : Loadable(k)}]
    /\ UNCHANGED <<cur, libVars, pending, workVars, enrich, clearing, events, history>>

-----------------------------------------------------------------------------
(* The orchestrator.                                                       *)

\* Variant: the claim does not look whether the key is taken.
ClaimUnchecked(u, k) ==
    /\ submit[u].at = None
    /\ k \in submit[u].todo
    /\ pending' = pending \cup {k}
    /\ submit' = [submit EXCEPT ![u] = [todo |-> @.todo \ {k}, at |-> k, root |-> cur]]
    /\ UNCHANGED <<cur, libVars, workVars, enrich, clearing, boot, bounds, history>>

\* submit_thumbnail_job: the root of this moment, then try_claim.
Claim(u, k) ==
    /\ submit[u].at = None
    /\ k \in submit[u].todo
    /\ k \notin pending
    /\ pending' = pending \cup {k}
    /\ submit' = [submit EXCEPT ![u] = [todo |-> @.todo \ {k}, at |-> k, root |-> cur]]
    /\ UNCHANGED <<cur, libVars, workVars, enrich, clearing, boot, bounds, history>>

\* try_claim finds the key pending: the request collapses and is dropped.
Collapse(u, k) ==
    /\ submit[u].at = None
    /\ k \in submit[u].todo
    /\ k \in pending
    /\ submit' = [submit EXCEPT ![u].todo = @ \ {k}]
    /\ UNCHANGED <<cur, libVars, pending, workVars, enrich, clearing, boot, bounds, history>>

\* The task or its future is dropped before the send: ClaimGuard rolls back.
Abandon(u) ==
    /\ submit[u] # Idle
    /\ pending' = pending \ {submit[u].at}
    /\ submit' = [submit EXCEPT ![u] = Idle]
    /\ UNCHANGED <<cur, libVars, workVars, enrich, clearing, boot, bounds, history>>

Sent(u) == [key |-> submit[u].at, root |-> submit[u].root]

Disarmed(u) == [submit EXCEPT ![u] = [todo |-> @.todo, at |-> None, root |-> None]]

\* enqueue waits for room; the worker owns the claim from then on.
Send(u) ==
    /\ submit[u].at # None
    /\ Len(queue) < Capacity
    /\ queue' = Append(queue, Sent(u))
    /\ submit' = Disarmed(u)
    /\ UNCHANGED <<cur, libVars, pending, hand, lane, enrich, clearing, boot, bounds, history>>

\* run_worker receives a job and waits for a permit.
Take ==
    /\ hand = None
    /\ queue # <<>>
    /\ hand' = Head(queue)
    /\ queue' = Tail(queue)
    /\ UNCHANGED <<cur, libVars, pending, submit, lane, enrich, clearing, boot, bounds, history>>

Spawn(i) ==
    /\ hand # None
    /\ lane[i] = None
    /\ lane' = [lane EXCEPT ![i] = [key |-> hand.key, root |-> hand.root, pc |-> "download",
                                    saved |-> FALSE]]
    /\ hand' = None
    /\ UNCHANGED <<cur, libVars, pending, submit, queue, enrich, clearing, boot, bounds, history>>

Downloading(i, pc) == lane[i] # None /\ lane[i].pc = pc

\* download_thumbnail and save_thumbnail succeed.
Save(i) ==
    /\ Downloading(i, "download")
    /\ images' = [images EXCEPT ![lane[i].root] = @ \cup {lane[i].key}]
    /\ lane' = [lane EXCEPT ![i] = [@ EXCEPT !.pc = "hook", !.saved = TRUE]]
    /\ UNCHANGED <<cur, art, job, pending, submit, queue, hand, enrich, clearing, boot,
                   bounds, history>>

\* Every one of at most MAX_DOWNLOAD_ATTEMPTS tries failed, or the save did.
GiveUp(i) ==
    /\ Downloading(i, "download")
    /\ lane' = [lane EXCEPT ![i] = [@ EXCEPT !.pc = "hook"]]
    /\ UNCHANGED <<cur, libVars, pending, submit, queue, hand, enrich, clearing, boot,
                   bounds, history>>

\* complete_thumbnail_jobs_for_key: box_art_url of the games with a row, then the
\* rows go.
Completed(s, k) ==
    /\ art' = [art EXCEPT ![s] = IF job[s][k].state = "none" THEN @ ELSE @ \cup ({k} \cap BoxArt)]
    /\ job' = [job EXCEPT ![s][k] = NoRow]

\* Variant: a row that has used its attempts is deleted.
FailedAndDropped(s, k) ==
    /\ job' = [job EXCEPT ![s][k] =
                 IF @.state = "none" \/ @.attempts + 1 >= MaxAttempts THEN NoRow
                 ELSE [state |-> "Failed", attempts |-> @.attempts + 1]]
    /\ UNCHANGED art

\* fail_thumbnail_jobs_for_key (attempts beyond the limit are all alike)
Failed(s, k) ==
    /\ job' = [job EXCEPT ![s][k] =
                 IF @.state = "none" THEN @
                 ELSE [state |-> "Failed",
                       attempts |-> IF @.attempts < MaxAttempts THEN @.attempts + 1
                                    ELSE @.attempts]]
    /\ UNCHANGED art

\* thumbnail_completion_hook writes to the library of this moment.
Hook(i) ==
    /\ Downloading(i, "hook")
    /\ IF lane[i].saved THEN Completed(cur, lane[i].key) ELSE Failed(cur, lane[i].key)
    /\ disturbed' = IF lane[i].root = cur THEN disturbed ELSE disturbed \cup {<<cur, lane[i].key>>}
    /\ lane' = [lane EXCEPT ![i] = [@ EXCEPT !.pc = "release"]]
    /\ UNCHANGED <<cur, images, pending, submit, queue, hand, enrich, clearing, boot, bounds,
                   planned>>

\* Variant: a hook that failed ends the task, and the key stays pending.
HookFailsLeaking(i) ==
    /\ Faults
    /\ Downloading(i, "hook")
    /\ lane' = [lane EXCEPT ![i] = None]
    /\ UNCHANGED <<cur, libVars, pending, submit, queue, hand, enrich, clearing, boot, bounds,
                   history>>

\* The hook's write fails and is logged.
HookFails(i) ==
    /\ Faults
    /\ Downloading(i, "hook")
    /\ lane' = [lane EXCEPT ![i] = [@ EXCEPT !.pc = "release"]]
    /\ UNCHANGED <<cur, libVars, pending, submit, queue, hand, enrich, clearing, boot, bounds,
                   history>>

\* The key leaves the dedup set and the permit is dropped.
Release(i) ==
    /\ Downloading(i, "release")
    /\ pending' = pending \ {lane[i].key}
    /\ lane' = [lane EXCEPT ![i] = None]
    /\ UNCHANGED <<cur, libVars, submit, queue, hand, enrich, clearing, boot, bounds, history>>

-----------------------------------------------------------------------------
(* clear_images, storage swaps and restarts.                               *)

\* clear_media removes the files of the storage that is active.
ClearFiles ==
    /\ clearing = None
    /\ events < MaxEvents
    /\ events' = events + 1
    /\ images' = [images EXCEPT ![cur] = {}]
    /\ planned' = [planned EXCEPT ![cur] = {}]
    /\ disturbed' = disturbed \cup {<<cur, lane[i].key>> : i \in {j \in Lanes : Downloading(j, "hook")}}
    /\ clearing' = cur
    /\ UNCHANGED <<cur, art, job, pending, submit, workVars, enrich, boot, runs>>

\* clear_all_box_art_urls, or a write that failed and is logged.
ClearUrls ==
    /\ clearing # None
    /\ art' = [art EXCEPT ![cur] = {}] \/ (Faults /\ UNCHANGED art)
    /\ planned' = [planned EXCEPT ![cur] = {}]
    /\ clearing' = None
    /\ UNCHANGED <<cur, images, job, pending, submit, workVars, enrich, boot, bounds, disturbed>>

\* An activation of another storage ends and restarts the pipeline.
Swap(s) ==
    /\ s # cur
    /\ events < MaxEvents
    /\ events' = events + 1
    /\ cur' = s
    /\ boot' = TRUE
    /\ UNCHANGED <<libVars, pending, submit, workVars, enrich, clearing, runs, history>>

\* The process ends anywhere and starts again.
Restart ==
    /\ pending' = {}
    /\ submit' = [u \in Submitters |-> Idle]
    /\ queue' = <<>>
    /\ hand' = None
    /\ lane' = [i \in Lanes |-> None]
    /\ enrich' = None
    /\ clearing' = None
    /\ boot' = TRUE
    /\ UNCHANGED <<cur, libVars, bounds, history>>

-----------------------------------------------------------------------------
Enrichment ==
    \/ EnrichStart \/ EnrichQueueNothing \/ EnrichArt \/ EnrichStop
    \/ \E u \in Submitters : EnrichQueue(u)

Submission(u) ==
    \/ \E k \in Keys : Claim(u, k) \/ Collapse(u, k)
    \/ Send(u)

Worker == Take \/ \E i \in Lanes : Spawn(i)

Download(i) ==
    \/ Save(i) \/ GiveUp(i) \/ Hook(i) \/ HookFails(i) \/ Release(i)

Next ==
    \/ Enrichment
    \/ \E u \in Submitters : Resume(u) \/ Submission(u) \/ Abandon(u)
    \/ Worker
    \/ \E i \in Lanes : Download(i)
    \/ ClearFiles \/ ClearUrls
    \/ \E s \in Storages : Swap(s)
    \/ Restart

Spec == Init /\ [][Next]_vars

\* Downloads have timeouts, the worker and the spawned tasks are polled, and a
\* channel serves waiting senders in the order in which they came.
FairSpec ==
    /\ Spec
    /\ \A u \in Submitters : SF_vars(Send(u))
    /\ WF_vars(Worker)
    /\ \A i \in Lanes : WF_vars(Download(i))

-----------------------------------------------------------------------------
(* Properties.                                                             *)

\* The places that can hold a claimed key.
Claims ==
    {<<"submit", u>> : u \in {v \in Submitters : submit[v].at # None}}
    \cup {<<"queue", i>> : i \in 1 .. Len(queue)}
    \cup {<<"hand", 0>> : h \in {hand} \ {None}}
    \cup {<<"lane", i>> : i \in {j \in Lanes : lane[j] # None}}

KeyOf(c) ==
    CASE c[1] = "submit" -> submit[c[2]].at
      [] c[1] = "queue"  -> queue[c[2]].key
      [] c[1] = "hand"   -> hand.key
      [] c[1] = "lane"   -> lane[c[2]].key

\* The dedup set neither leaks a key, which could then never be downloaded again,
\* nor lets a file be fetched twice at once: a pending key is held in exactly
\* one place, through collapsed submits, dropped submitters, retries and swaps.
ClaimIsExact ==
    /\ pending = {KeyOf(c) : c \in Claims}
    /\ \A c, d \in Claims : KeyOf(c) = KeyOf(d) => c = d

\* "Durable per-storage artwork download queue": an image that was queued still
\* has its row, or is on the storage and, if it is box art, shown by the library,
\* whatever failed, was dropped or died, unless a swap or clear_images came
\* between the save of a job and its hook.
NothingForgotten ==
    \A s \in Storages : \A k \in planned[s] :
        \/ <<s, k>> \in disturbed
        \/ job[s][k].state # "none"
        \/ k \in images[s] /\ (k \in BoxArt => k \in art[s])

\* Every claim is given up in the end: no key stays blocked, although the queue
\* and the permits are full, downloads fail and hooks fail.
ClaimsReturn == \A k \in Keys : (k \in pending) ~> (k \notin pending)
=============================================================================
