------------------------ MODULE ThumbnailQueueProofs ------------------------
(***************************************************************************)
(* Proofs about ThumbnailQueue: types, that a pending key is held in       *)
(* exactly one place, and that a queued image is not forgotten.            *)
(***************************************************************************)
EXTENDS ThumbnailQueue, TLAPS

-----------------------------------------------------------------------------
(* Facts about the operators.                                              *)

\* Jobs and downloads are not the absent value, and have their fields.
LEMMA JobIsThere ==
    /\ \A j \in Jobs : j # None /\ j.key \in Keys /\ j.root \in Storages
    /\ \A d \in Downloads : d # None /\ d.key \in Keys /\ d.root \in Storages
    /\ \A k \in Keys : k # None
    /\ \A s \in Storages : s # None
  BY ThumbnailAssumption DEF ThumbnailAssumption, Jobs, Downloads

\* Appending a job keeps the others in their places.
LEMMA AppendJob ==
    ASSUME NEW q \in Seq(Jobs), NEW j \in Jobs
    PROVE  /\ Append(q, j) \in Seq(Jobs)
           /\ Len(q) \in Nat
           /\ Len(Append(q, j)) = Len(q) + 1
           /\ \A i \in 1 .. Len(q) : Append(q, j)[i] = q[i] /\ q[i] \in Jobs
           /\ Append(q, j)[Len(q) + 1] = j
  OBVIOUS

\* Taking the first job moves the others up by one.
LEMMA TakeJob ==
    ASSUME NEW q \in Seq(Jobs), q # <<>>
    PROVE  /\ Head(q) \in Jobs /\ Head(q) = q[1]
           /\ Tail(q) \in Seq(Jobs)
           /\ Len(q) \in Nat /\ Len(q) >= 1
           /\ Len(Tail(q)) = Len(q) - 1
           /\ \A i \in 1 .. Len(q) - 1 : Tail(q)[i] = q[i + 1]
  OBVIOUS

\* An upsert leaves a row.
LEMMA UpsertedRow ==
    ASSUME NEW r \in Rows
    PROVE  Upserted(r) \in Rows /\ Upserted(r).state # "none"
  BY DEF Upserted, Rows

\* What a submission is after each of its steps.
LEMMA SubmissionFields ==
    ASSUME NEW S \in SUBSET Keys, NEW k \in Keys \cup {None}, NEW s \in Storages \cup {None}
    PROVE  [todo |-> S, at |-> k, root |-> s] \in Submissions
  BY DEF Submissions

-----------------------------------------------------------------------------
(* Type correctness.                                                       *)

SubmitType ==
    /\ submit \in [Submitters -> Submissions]
    /\ \A u \in Submitters : submit[u].at # None => submit[u].root # None

\* The state of a fresh library is well typed.
LEMMA TypeInit == Init => TypeOK
  <1> SUFFICES ASSUME Init PROVE TypeOK
    OBVIOUS
  <1>1. cur \in Storages
    BY ThumbnailAssumption DEF Init, ThumbnailAssumption
  <1>2. NoRow \in Rows
    BY ThumbnailAssumption DEF NoRow, Rows, ThumbnailAssumption
  <1>3. job \in [Storages -> [Keys -> Rows]]
    BY <1>2 DEF Init
  <1>4. SubmitType
    BY SubmissionFields DEF Init, Idle, SubmitType
  <1>5. queue \in Seq(Jobs) /\ Len(queue) <= Capacity
    BY ThumbnailAssumption DEF Init, ThumbnailAssumption
  <1>6. runs \in 0 .. MaxRuns /\ events \in 0 .. MaxEvents
    BY ThumbnailAssumption DEF Init, ThumbnailAssumption
  <1>7. /\ images \in [Storages -> SUBSET Keys] /\ art \in [Storages -> SUBSET Keys]
        /\ planned \in [Storages -> SUBSET Keys] /\ lane \in [Lanes -> Downloads \cup {None}]
    BY DEF Init
  <1> QED
    BY <1>1, <1>3, <1>4, <1>5, <1>6, <1>7 DEF Init, TypeOK, SubmitType

\* A new list of work for a submitter that had none.
LEMMA SubmitTodo ==
    ASSUME TypeOK, NEW u \in Submitters, submit[u] = Idle, NEW S \in SUBSET Keys,
           submit' = [submit EXCEPT ![u].todo = S]
    PROVE  SubmitType'
  <1>1. [submit[u] EXCEPT !.todo = S] = [todo |-> S, at |-> None, root |-> None]
    BY DEF Idle
  <1>2. [todo |-> S, at |-> None, root |-> None] \in Submissions
    BY SubmissionFields
  <1> QED
    BY <1>1, <1>2 DEF SubmitType, TypeOK

\* Enrichment and resumption.
LEMMA TypeEnrichment ==
    ASSUME TypeOK, Enrichment \/ \E u \in Submitters : Resume(u)
    PROVE  TypeOK'
  <1> USE DEF libVars, workVars, bounds, history
  <1>1. CASE EnrichStart
    <2>1. runs' \in 0 .. MaxRuns
      BY <1>1, ThumbnailAssumption DEF EnrichStart, TypeOK, ThumbnailAssumption
    <2>2. enrich' \in Enrichments
      BY <1>1, ThumbnailAssumption DEF EnrichStart, TypeOK, Enrichments, ThumbnailAssumption
    <2> QED
      BY <1>1, <2>1, <2>2 DEF EnrichStart, TypeOK
  <1>2. CASE EnrichQueueNothing \/ EnrichArt \/ EnrichStop
    <2>1. enrich' \in Enrichments \cup {None}
      BY <1>2 DEF EnrichQueueNothing, EnrichArt, EnrichStop, TypeOK, Enrichments
    <2>2. art' \in [Storages -> SUBSET Keys]
      BY <1>2 DEF EnrichQueueNothing, EnrichArt, EnrichStop, TypeOK, Enrichments
    <2> QED
      BY <1>2, <2>1, <2>2 DEF EnrichQueueNothing, EnrichArt, EnrichStop, TypeOK
  <1>3. ASSUME NEW u \in Submitters, EnrichQueue(u) PROVE TypeOK'
    <2>1. enrich \in Enrichments /\ enrich.plan \in SUBSET Keys
      BY <1>3 DEF EnrichQueue, TypeOK, Enrichments
    <2>2. enrich' \in Enrichments
      BY <1>3, <2>1 DEF EnrichQueue, Enrichments
    <2>3. SubmitType'
      BY <1>3, <2>1, SubmitTodo DEF EnrichQueue
    <2>4. [k \in Keys |-> IF k \in enrich.plan THEN Upserted(job[cur][k]) ELSE job[cur][k]]
            \in [Keys -> Rows]
      BY UpsertedRow DEF TypeOK
    <2>5. job' \in [Storages -> [Keys -> Rows]]
      BY <1>3, <2>4 DEF EnrichQueue, TypeOK
    <2>6. planned' \in [Storages -> SUBSET Keys]
      BY <1>3, <2>1 DEF EnrichQueue, TypeOK
    <2> QED
      BY <1>3, <2>2, <2>3, <2>5, <2>6 DEF EnrichQueue, TypeOK, SubmitType
  <1>4. ASSUME NEW u \in Submitters, Resume(u) PROVE TypeOK'
    <2>1. runs' \in 0 .. MaxRuns
      BY <1>4, ThumbnailAssumption DEF Resume, TypeOK, ThumbnailAssumption
    <2>2. SubmitType'
      BY <1>4, SubmitTodo DEF Resume
    <2> QED
      BY <1>4, <2>1, <2>2 DEF Resume, TypeOK, SubmitType
  <1> QED
    BY <1>1, <1>2, <1>3, <1>4 DEF Enrichment

\* Submitters claim, collapse, give up and send.
LEMMA TypeSubmission ==
    ASSUME TypeOK, NEW u \in Submitters, Submission(u) \/ Abandon(u)
    PROVE  TypeOK'
  <1> USE DEF libVars, workVars, bounds, history
  <1>0. /\ submit[u].todo \in SUBSET Keys /\ submit[u].at \in Keys \cup {None}
        /\ submit[u].root \in Storages \cup {None} /\ submit[u] \in Submissions
    BY DEF TypeOK, Submissions
  <1>1. ASSUME NEW k \in Keys, Claim(u, k) PROVE TypeOK'
    <2>1. [todo |-> submit[u].todo \ {k}, at |-> k, root |-> cur] \in Submissions
      BY <1>0, SubmissionFields DEF TypeOK
    <2>2. SubmitType'
      BY <1>1, <2>1, JobIsThere DEF Claim, TypeOK, SubmitType
    <2> QED
      BY <1>1, <2>2 DEF Claim, TypeOK, SubmitType
  <1>2. ASSUME NEW k \in Keys, Collapse(u, k) PROVE TypeOK'
    <2>1. /\ [submit[u] EXCEPT !.todo = @ \ {k}] \in Submissions
          /\ [submit[u] EXCEPT !.todo = @ \ {k}].at = submit[u].at
          /\ [submit[u] EXCEPT !.todo = @ \ {k}].root = submit[u].root
      BY <1>0 DEF Submissions
    <2>2. SubmitType'
      BY <1>2, <2>1 DEF Collapse, TypeOK, SubmitType
    <2> QED
      BY <1>2, <2>2 DEF Collapse, TypeOK, SubmitType
  <1>3. CASE Abandon(u)
    <2>1. Idle \in Submissions /\ Idle.at = None
      BY SubmissionFields DEF Idle
    <2>2. SubmitType'
      BY <1>3, <2>1 DEF Abandon, TypeOK, SubmitType
    <2> QED
      BY <1>3, <2>2 DEF Abandon, TypeOK, SubmitType
  <1>4. CASE Send(u)
    <2>1. Sent(u) \in Jobs
      BY <1>0, <1>4 DEF Send, Sent, Jobs, TypeOK
    <2>2. queue' \in Seq(Jobs) /\ Len(queue') <= Capacity
      BY <1>4, <2>1, AppendJob, ThumbnailAssumption DEF Send, TypeOK, ThumbnailAssumption
    <2>3. [todo |-> submit[u].todo, at |-> None, root |-> None] \in Submissions
      BY <1>0, SubmissionFields
    <2>4. SubmitType'
      BY <1>4, <2>3 DEF Send, Disarmed, TypeOK, SubmitType
    <2> QED
      BY <1>4, <2>2, <2>4 DEF Send, TypeOK, SubmitType
  <1> QED
    BY <1>1, <1>2, <1>3, <1>4 DEF Submission

\* The worker and its downloads.
LEMMA TypeWorker ==
    ASSUME TypeOK, Worker \/ \E i \in Lanes : Download(i)
    PROVE  TypeOK'
  <1> USE DEF libVars, workVars, bounds, history
  <1>1. CASE Take
    <2>1. queue \in Seq(Jobs) /\ queue # <<>>
      BY <1>1 DEF Take, TypeOK
    <2>2. hand' \in Jobs /\ queue' \in Seq(Jobs) /\ Len(queue') <= Capacity
      BY <1>1, <2>1, TakeJob, ThumbnailAssumption DEF Take, TypeOK, ThumbnailAssumption
    <2> QED
      BY <1>1, <2>2 DEF Take, TypeOK
  <1>2. ASSUME NEW i \in Lanes, Spawn(i) PROVE TypeOK'
    <2>1. hand.key \in Keys /\ hand.root \in Storages
      BY <1>2, JobIsThere DEF Spawn, TypeOK
    <2>2. [key |-> hand.key, root |-> hand.root, pc |-> "download", saved |-> FALSE] \in Downloads
      BY <2>1 DEF Downloads
    <2>3. lane' \in [Lanes -> Downloads \cup {None}]
      BY <1>2, <2>2 DEF Spawn, TypeOK
    <2> QED
      BY <1>2, <2>3 DEF Spawn, TypeOK
  <1>3. ASSUME NEW i \in Lanes, Download(i) PROVE TypeOK'
    <2>1. lane[i] \in Downloads /\ lane[i].key \in Keys /\ lane[i].root \in Storages
      BY <1>3, JobIsThere
         DEF Download, Save, GiveUp, Hook, HookFails, Release, Downloading, TypeOK
    <2>2. lane' \in [Lanes -> Downloads \cup {None}]
      <3>1. /\ [lane[i] EXCEPT !.pc = "hook"] \in Downloads
            /\ [lane[i] EXCEPT !.pc = "release"] \in Downloads
            /\ [lane[i] EXCEPT !.pc = "hook", !.saved = TRUE] \in Downloads
        BY <2>1 DEF Downloads
      <3>2. \E d \in Downloads \cup {None} : lane' = [lane EXCEPT ![i] = d]
        BY <1>3, <3>1 DEF Download, Save, GiveUp, Hook, HookFails, Release
      <3> QED
        BY <3>2 DEF TypeOK
    <2>3. CASE Hook(i)
      <3>1. NoRow \in Rows
        BY ThumbnailAssumption DEF NoRow, Rows, ThumbnailAssumption
      <3>2. job[cur][lane[i].key] \in Rows
        BY <2>1 DEF TypeOK
      <3>3. [state |-> "Failed", attempts |->
               IF job[cur][lane[i].key].attempts < MaxAttempts THEN job[cur][lane[i].key].attempts + 1
               ELSE job[cur][lane[i].key].attempts] \in Rows
        BY <3>2, ThumbnailAssumption DEF Rows, ThumbnailAssumption
      <3>4. job' \in [Storages -> [Keys -> Rows]] /\ art' \in [Storages -> SUBSET Keys]
        <4>1. CASE lane[i].saved
          <5>1. \E S \in SUBSET Keys : art' = [art EXCEPT ![cur] = S]
            BY <2>1, <2>3, <4>1 DEF Hook, Completed, TypeOK
          <5>2. job' = [job EXCEPT ![cur][lane[i].key] = NoRow]
            BY <2>3, <4>1 DEF Hook, Completed
          <5> QED
            BY <2>1, <3>1, <5>1, <5>2 DEF TypeOK
        <4>2. CASE ~lane[i].saved
          <5>1. \E r \in Rows : job' = [job EXCEPT ![cur][lane[i].key] = r]
            BY <2>3, <3>2, <3>3, <4>2 DEF Hook, Failed
          <5>2. UNCHANGED art
            BY <2>3, <4>2 DEF Hook, Failed
          <5> QED
            BY <2>1, <5>1, <5>2 DEF TypeOK
        <4> QED
          BY <4>1, <4>2
      <3>5. disturbed' \subseteq Storages \X Keys
        BY <2>1, <2>3 DEF Hook, TypeOK
      <3> QED
        BY <2>2, <2>3, <3>4, <3>5 DEF Hook, TypeOK
    <2>4. CASE Save(i)
      <3>1. images' \in [Storages -> SUBSET Keys]
        BY <2>1, <2>4 DEF Save, TypeOK
      <3> QED
        BY <2>2, <2>4, <3>1 DEF Save, TypeOK
    <2>5. CASE GiveUp(i) \/ HookFails(i)
      BY <2>2, <2>5 DEF GiveUp, HookFails, TypeOK
    <2>6. CASE Release(i)
      BY <2>2, <2>6 DEF Release, TypeOK
    <2> QED
      BY <1>3, <2>3, <2>4, <2>5, <2>6 DEF Download
  <1> QED
    BY <1>1, <1>2, <1>3 DEF Worker

\* Clears, swaps and restarts.
LEMMA TypeEvents ==
    ASSUME TypeOK, ClearFiles \/ ClearUrls \/ Restart \/ \E s \in Storages : Swap(s)
    PROVE  TypeOK'
  <1> USE DEF libVars, workVars, bounds, history
  <1>1. CASE ClearFiles
    <2>1. events' \in 0 .. MaxEvents
      BY <1>1, ThumbnailAssumption DEF ClearFiles, TypeOK, ThumbnailAssumption
    <2>2. \A i \in Lanes : Downloading(i, "hook") => lane[i].key \in Keys
      BY JobIsThere DEF Downloading, TypeOK
    <2>3. disturbed' \subseteq Storages \X Keys
      BY <1>1, <2>2 DEF ClearFiles, TypeOK
    <2>4. images' \in [Storages -> SUBSET Keys] /\ planned' \in [Storages -> SUBSET Keys]
      BY <1>1 DEF ClearFiles, TypeOK
    <2> QED
      BY <1>1, <2>1, <2>3, <2>4 DEF ClearFiles, TypeOK
  <1>2. CASE ClearUrls
    BY <1>2 DEF ClearUrls, TypeOK
  <1>3. CASE Restart
    <2>1. Idle \in Submissions /\ Idle.at = None
      BY SubmissionFields DEF Idle
    <2>2. SubmitType'
      BY <1>3, <2>1 DEF Restart, SubmitType
    <2>3. queue' \in Seq(Jobs) /\ Len(queue') <= Capacity
      BY <1>3, ThumbnailAssumption DEF Restart, ThumbnailAssumption
    <2> QED
      BY <1>3, <2>2, <2>3 DEF Restart, TypeOK, SubmitType
  <1>4. ASSUME NEW s \in Storages, Swap(s) PROVE TypeOK'
    BY <1>4, ThumbnailAssumption DEF Swap, TypeOK, ThumbnailAssumption
  <1> QED
    BY <1>1, <1>2, <1>3, <1>4

\* Every step keeps the types.
LEMMA TypeStep == TypeOK /\ [Next]_vars => TypeOK'
  <1> SUFFICES ASSUME TypeOK, [Next]_vars PROVE TypeOK'
    OBVIOUS
  <1>1. CASE UNCHANGED vars
    BY <1>1 DEF vars, libVars, workVars, bounds, history, TypeOK
  <1>2. CASE Next
    BY <1>2, TypeEnrichment, TypeSubmission, TypeWorker, TypeEvents DEF Next
  <1> QED
    BY <1>1, <1>2

\* Variables keep their types: the channel stays within its capacity, and a job
\* row within its attempts.
THEOREM TypeCorrect == Spec => []TypeOK
  BY TypeInit, TypeStep, PTL DEF Spec

-----------------------------------------------------------------------------
(* No queued image is forgotten.                                           *)

\* A download that has saved its file finds it there when its hook runs, unless
\* clear_images came between.
SavedIsThere ==
    \A i \in Lanes :
        /\ Downloading(i, "download") => ~lane[i].saved
        /\ Downloading(i, "hook") /\ lane[i].saved =>
              \/ lane[i].key \in images[lane[i].root]
              \/ <<lane[i].root, lane[i].key>> \in disturbed

\* A step under which images stay, rows stay and box art stays shown.
LEMMA NothingForgottenKept ==
    ASSUME TypeOK, NothingForgotten,
           planned' = planned,
           disturbed \subseteq disturbed',
           \A s \in Storages : /\ images[s] \subseteq images'[s]
                               /\ art[s] \subseteq art'[s]
                               /\ \A k \in Keys : job[s][k].state # "none" => job'[s][k].state # "none"
    PROVE  NothingForgotten'
  BY DEF NothingForgotten, TypeOK

\* A step that changes no download and loses no image.
LEMMA SavedKept ==
    ASSUME TypeOK, SavedIsThere, lane' = lane,
           disturbed \subseteq disturbed',
           \A s \in Storages : images[s] \subseteq images'[s]
    PROVE  SavedIsThere'
  BY JobIsThere DEF SavedIsThere, Downloading, TypeOK

\* Enrichment writes rows for what it plans.
LEMMA ForgottenEnrichQueue ==
    ASSUME TypeOK, NothingForgotten, NEW u \in Submitters, EnrichQueue(u)
    PROVE  NothingForgotten'
  <1>1. /\ images' = images /\ art' = art /\ disturbed' = disturbed
        /\ \A s \in Storages : s # cur => job'[s] = job[s] /\ planned'[s] = planned[s]
        /\ planned'[cur] = planned[cur] \cup enrich.plan
        /\ enrich.plan \in SUBSET Keys
    BY DEF EnrichQueue, TypeOK, Enrichments
  <1>2. job'[cur] = [k \in Keys |-> IF k \in enrich.plan THEN Upserted(job[cur][k]) ELSE job[cur][k]]
    BY DEF EnrichQueue, TypeOK
  <1>3. ASSUME NEW s \in Storages, NEW k \in planned'[s]
        PROVE  \/ <<s, k>> \in disturbed'
               \/ job'[s][k].state # "none"
               \/ k \in images'[s] /\ (k \in BoxArt => k \in art'[s])
    <2>1. CASE s # cur
      BY <1>1, <2>1, <1>3 DEF NothingForgotten
    <2>2. CASE s = cur /\ k \in enrich.plan
      <3>1. k \in Keys /\ job[cur][k] \in Rows
        BY <1>1, <2>2 DEF TypeOK
      <3>2. job'[s][k] = Upserted(job[cur][k])
        BY <1>2, <2>2, <3>1
      <3> QED
        BY <3>1, <3>2, UpsertedRow
    <2>3. CASE s = cur /\ k \notin enrich.plan
      <3>1. k \in planned[s] /\ k \in Keys
        BY <1>1, <1>3, <2>3 DEF TypeOK
      <3>2. job'[s][k] = job[s][k]
        BY <1>2, <2>3, <3>1
      <3> QED
        BY <1>1, <3>1, <3>2 DEF NothingForgotten
    <2> QED
      BY <2>1, <2>2, <2>3
  <1> QED
    BY <1>3 DEF NothingForgotten

\* The completion hook writes to the library that is open.
LEMMA ForgottenHook ==
    ASSUME TypeOK, NothingForgotten, SavedIsThere, NEW i \in Lanes, Hook(i)
    PROVE  NothingForgotten'
  <1> DEFINE key == lane[i].key
  <1>1. lane[i] \in Downloads /\ key \in Keys /\ lane[i].root \in Storages /\ cur \in Storages
    BY JobIsThere DEF Hook, Downloading, TypeOK
  <1>2. /\ images' = images /\ planned' = planned
        /\ disturbed \subseteq disturbed'
        /\ lane[i].root # cur => <<cur, key>> \in disturbed'
    BY DEF Hook
  <1>3. CASE lane[i].saved
    <2>1. Completed(cur, key)
      BY <1>3 DEF Hook
    <2>2. ASSUME NEW s \in Storages, NEW k \in Keys, <<s, k>> # <<cur, key>>
          PROVE  job'[s][k] = job[s][k]
      BY <1>1, <2>1, <2>2 DEF Completed, TypeOK
    <2>3. \A s \in Storages : art[s] \subseteq art'[s]
      BY <1>1, <2>1 DEF Completed, TypeOK
    <2>4. job[cur][key].state # "none" => (key \in BoxArt => key \in art'[cur])
      BY <1>1, <2>1 DEF Completed, TypeOK
    <2>5. <<cur, key>> \in disturbed' \/ key \in images[cur]
      BY <1>2, <1>3 DEF SavedIsThere, Hook
    <2>6. ASSUME NEW s \in Storages, NEW k \in planned[s]
          PROVE  \/ <<s, k>> \in disturbed'
                 \/ job'[s][k].state # "none"
                 \/ k \in images'[s] /\ (k \in BoxArt => k \in art'[s])
      <3>1. k \in Keys
        BY <2>6 DEF TypeOK
      <3>2. \/ <<s, k>> \in disturbed
            \/ job[s][k].state # "none"
            \/ k \in images[s] /\ (k \in BoxArt => k \in art[s])
        BY <2>6 DEF NothingForgotten
      <3>3. CASE <<s, k>> # <<cur, key>>
        BY <1>2, <2>2, <2>3, <3>1, <3>2, <3>3
      <3>4. CASE s = cur /\ k = key
        BY <1>2, <2>3, <2>4, <2>5, <3>2, <3>4
      <3> QED
        BY <3>3, <3>4
    <2> QED
      BY <1>2, <2>6 DEF NothingForgotten
  <1>4. CASE ~lane[i].saved
    <2>1. Failed(cur, key)
      BY <1>4 DEF Hook
    <2>2. ASSUME NEW s \in Storages, NEW k \in Keys, job[s][k].state # "none"
          PROVE  job'[s][k].state # "none"
      BY <1>1, <2>1, <2>2 DEF Failed, TypeOK
    <2>3. art' = art
      BY <2>1 DEF Failed
    <2> QED
      BY <1>2, <2>2, <2>3, NothingForgottenKept
  <1> QED
    BY <1>3, <1>4

\* What a download has saved stays until its hook has run.
LEMMA SavedDownload ==
    ASSUME TypeOK, SavedIsThere, NEW i \in Lanes, Download(i) \/ Spawn(i)
    PROVE  SavedIsThere'
  <1>1. ASSUME NEW j \in Lanes, j # i PROVE lane'[j] = lane[j]
    BY <1>1 DEF Download, Save, GiveUp, Hook, HookFails, Release, Spawn, TypeOK
  <1>2. disturbed \subseteq disturbed' /\ \A s \in Storages : images[s] \subseteq images'[s]
    BY JobIsThere DEF Download, Save, GiveUp, Hook, HookFails, Release, Spawn, Downloading, TypeOK, history, libVars
  <1>3. ASSUME NEW j \in Lanes, j # i
        PROVE  /\ Downloading(j, "download")' => ~lane'[j].saved
               /\ Downloading(j, "hook")' /\ lane'[j].saved =>
                     \/ lane'[j].key \in images'[lane'[j].root]
                     \/ <<lane'[j].root, lane'[j].key>> \in disturbed'
    BY <1>1, <1>2, <1>3, JobIsThere DEF SavedIsThere, Downloading, TypeOK
  <1>4. /\ Downloading(i, "download")' => ~lane'[i].saved
        /\ Downloading(i, "hook")' /\ lane'[i].saved =>
              \/ lane'[i].key \in images'[lane'[i].root]
              \/ <<lane'[i].root, lane'[i].key>> \in disturbed'
    <2>1. CASE Spawn(i)
      <3>1. lane'[i] = [key |-> hand.key, root |-> hand.root, pc |-> "download", saved |-> FALSE]
        BY <2>1 DEF Spawn, TypeOK
      <3> QED
        BY <3>1 DEF Downloading
    <2>2. CASE Release(i)
      BY <2>2 DEF Release, Downloading, TypeOK
    <2>3. CASE Hook(i) \/ HookFails(i)
      <3>1. lane[i] \in Downloads /\ lane'[i] = [lane[i] EXCEPT !.pc = "release"]
        BY <2>3 DEF Hook, HookFails, Downloading, TypeOK
      <3>2. lane'[i].pc = "release"
        BY <3>1 DEF Downloads
      <3> QED
        BY <3>2 DEF Downloading
    <2>4. CASE GiveUp(i)
      <3>1. lane[i] \in Downloads /\ lane'[i] = [lane[i] EXCEPT !.pc = "hook"] /\ ~lane[i].saved
        BY <2>4 DEF GiveUp, Downloading, SavedIsThere, TypeOK
      <3>2. lane'[i].pc = "hook" /\ ~lane'[i].saved
        BY <3>1 DEF Downloads
      <3> QED
        BY <3>2 DEF Downloading
    <2>5. CASE Save(i)
      <3>1. lane[i] \in Downloads /\ lane'[i] = [lane[i] EXCEPT !.pc = "hook", !.saved = TRUE]
        BY <2>5 DEF Save, Downloading, TypeOK
      <3>2. lane'[i].pc = "hook" /\ lane'[i].key = lane[i].key /\ lane'[i].root = lane[i].root
        BY <3>1 DEF Downloads
      <3>3. lane[i].key \in images'[lane[i].root]
        BY <2>5, <3>1, JobIsThere DEF Save, TypeOK
      <3> QED
        BY <3>2, <3>3 DEF Downloading
    <2> QED
      BY <2>1, <2>2, <2>3, <2>4, <2>5 DEF Download
  <1> QED
    BY <1>3, <1>4 DEF SavedIsThere

\* Every step keeps the queued images.
LEMMA ForgottenStep ==
    TypeOK /\ NothingForgotten /\ SavedIsThere /\ [Next]_vars => NothingForgotten' /\ SavedIsThere'
  <1> SUFFICES ASSUME TypeOK, NothingForgotten, SavedIsThere, [Next]_vars
               PROVE  NothingForgotten' /\ SavedIsThere'
    OBVIOUS
  <1> USE DEF libVars, workVars, history
  <1>1. ASSUME UNCHANGED <<libVars, lane, history>> PROVE NothingForgotten' /\ SavedIsThere'
    BY <1>1, NothingForgottenKept, SavedKept
  <1>2. CASE Enrichment
    <2>1. CASE EnrichStart \/ EnrichQueueNothing \/ EnrichStop
      BY <1>1, <2>1 DEF EnrichStart, EnrichQueueNothing, EnrichStop
    <2>2. CASE EnrichArt
      <3>1. \A s \in Storages : art[s] \subseteq art'[s]
        BY <2>2 DEF EnrichArt, TypeOK
      <3> QED
        BY <2>2, <3>1, NothingForgottenKept, SavedKept DEF EnrichArt
    <2>3. ASSUME NEW u \in Submitters, EnrichQueue(u) PROVE NothingForgotten' /\ SavedIsThere'
      BY <2>3, ForgottenEnrichQueue, SavedKept DEF EnrichQueue
    <2> QED
      BY <1>2, <2>1, <2>2, <2>3 DEF Enrichment
  <1>3. ASSUME NEW u \in Submitters, Resume(u) \/ Submission(u) \/ Abandon(u)
        PROVE  NothingForgotten' /\ SavedIsThere'
    BY <1>1, <1>3 DEF Resume, Submission, Claim, Collapse, Send, Abandon
  <1>4. CASE Take
    BY <1>1, <1>4 DEF Take
  <1>5. ASSUME NEW i \in Lanes, Spawn(i) \/ Download(i) PROVE NothingForgotten' /\ SavedIsThere'
    <2>1. CASE Spawn(i) \/ GiveUp(i) \/ HookFails(i) \/ Release(i)
      BY <1>5, <2>1, NothingForgottenKept, SavedDownload DEF Spawn, GiveUp, HookFails, Release
    <2>2. CASE Save(i)
      <3>1. \A s \in Storages : images[s] \subseteq images'[s]
        BY <2>2, JobIsThere DEF Save, Downloading, TypeOK
      <3> QED
        BY <1>5, <2>2, <3>1, NothingForgottenKept, SavedDownload DEF Save
    <2>3. CASE Hook(i)
      BY <1>5, <2>3, ForgottenHook, SavedDownload
    <2> QED
      BY <1>5, <2>1, <2>2, <2>3 DEF Download
  <1>6. CASE ClearFiles
    <2>1. /\ planned'[cur] = {} /\ art' = art /\ job' = job /\ lane' = lane
          /\ \A s \in Storages : s # cur => planned'[s] = planned[s] /\ images'[s] = images[s]
          /\ disturbed \subseteq disturbed'
          /\ \A i \in Lanes : Downloading(i, "hook") => <<cur, lane[i].key>> \in disturbed'
      BY <1>6 DEF ClearFiles, TypeOK
    <2>2. NothingForgotten'
      BY <2>1 DEF NothingForgotten
    <2>3. SavedIsThere'
      BY <2>1, JobIsThere DEF SavedIsThere, Downloading, TypeOK
    <2> QED
      BY <2>2, <2>3
  <1>7. CASE ClearUrls
    <2>1. /\ planned'[cur] = {} /\ images' = images /\ job' = job /\ lane' = lane
          /\ disturbed' = disturbed
          /\ \A s \in Storages : s # cur => planned'[s] = planned[s] /\ art'[s] = art[s]
      BY <1>7 DEF ClearUrls, TypeOK
    <2>2. NothingForgotten'
      BY <2>1 DEF NothingForgotten
    <2> QED
      BY <2>1, <2>2, SavedKept
  <1>8. ASSUME NEW s \in Storages, Swap(s) PROVE NothingForgotten' /\ SavedIsThere'
    BY <1>1, <1>8 DEF Swap
  <1>9. CASE Restart
    <2>1. NothingForgotten'
      BY <1>9, NothingForgottenKept DEF Restart
    <2>2. SavedIsThere'
      BY <1>9 DEF Restart, SavedIsThere, Downloading
    <2> QED
      BY <2>1, <2>2
  <1>10. CASE UNCHANGED vars
    BY <1>1, <1>10 DEF vars
  <1> QED
    BY <1>2, <1>3, <1>4, <1>5, <1>6, <1>7, <1>8, <1>9, <1>10 DEF Next, Worker

\* "Durable per-storage artwork download queue": a queued image keeps its row until it is
\* on the storage and shown, unless a swap or clear_images came between the save
\* of a job and its hook.
THEOREM QueueIsDurable == Spec => []NothingForgotten
  <1>1. Init => NothingForgotten /\ SavedIsThere
    BY DEF Init, NothingForgotten, SavedIsThere, Downloading
  <1> QED
    BY <1>1, TypeCorrect, ForgottenStep, PTL DEF Spec

-----------------------------------------------------------------------------
(* A pending key is held in exactly one place.                             *)

\* The four kinds of places, told apart.
AtSubmit(u, k) == submit[u].at = k
AtQueue(i, k) == queue[i].key = k
AtHand(k) == hand # None /\ hand.key = k
AtLane(i, k) == lane[i] # None /\ lane[i].key = k

Slots == 1 .. Len(queue)

Held(k) ==
    \/ \E u \in Submitters : AtSubmit(u, k)
    \/ \E i \in Slots : AtQueue(i, k)
    \/ AtHand(k)
    \/ \E i \in Lanes : AtLane(i, k)

\* No two places of a kind, and no two kinds, hold the same key.
HeldOnce(k) ==
    /\ \A u, v \in Submitters : AtSubmit(u, k) /\ AtSubmit(v, k) => u = v
    /\ \A i, j \in Slots : AtQueue(i, k) /\ AtQueue(j, k) => i = j
    /\ \A i, j \in Lanes : AtLane(i, k) /\ AtLane(j, k) => i = j
    /\ \A u \in Submitters : AtSubmit(u, k) =>
          /\ \A i \in Slots : ~AtQueue(i, k)
          /\ ~AtHand(k)
          /\ \A i \in Lanes : ~AtLane(i, k)
    /\ \A i \in Slots : AtQueue(i, k) => ~AtHand(k) /\ \A j \in Lanes : ~AtLane(j, k)
    /\ AtHand(k) => \A i \in Lanes : ~AtLane(i, k)

ClaimInv == \A k \in Keys : (k \in pending <=> Held(k)) /\ HeldOnce(k)

\* The explicit form implies the one of the specification.
LEMMA ClaimInvIsExact == TypeOK /\ ClaimInv => ClaimIsExact
  <1> SUFFICES ASSUME TypeOK, ClaimInv PROVE ClaimIsExact
    OBVIOUS
  <1>1. ASSUME NEW c \in Claims
        PROVE  /\ KeyOf(c) \in Keys
               /\ \/ \E u \in Submitters : c = <<"submit", u>> /\ AtSubmit(u, KeyOf(c))
                  \/ \E i \in Slots : c = <<"queue", i>> /\ AtQueue(i, KeyOf(c))
                  \/ c = <<"hand", 0>> /\ AtHand(KeyOf(c))
                  \/ \E i \in Lanes : c = <<"lane", i>> /\ AtLane(i, KeyOf(c))
    <2>1. ASSUME NEW u \in Submitters, submit[u].at # None, c = <<"submit", u>>
          PROVE  KeyOf(c) \in Keys /\ AtSubmit(u, KeyOf(c))
      <3>1. KeyOf(c) = submit[u].at
        BY <2>1 DEF KeyOf
      <3> QED
        BY <2>1, <3>1 DEF AtSubmit, TypeOK, Submissions
    <2>2. ASSUME NEW i \in Slots, c = <<"queue", i>>
          PROVE  KeyOf(c) \in Keys /\ AtQueue(i, KeyOf(c))
      <3>1. KeyOf(c) = queue[i].key
        BY <2>2 DEF KeyOf
      <3>2. queue[i] \in Jobs
        BY DEF TypeOK, Slots
      <3> QED
        BY <3>1, <3>2, JobIsThere DEF AtQueue
    <2>3. ASSUME hand # None, c = <<"hand", 0>>
          PROVE  KeyOf(c) \in Keys /\ AtHand(KeyOf(c))
      <3>1. KeyOf(c) = hand.key
        BY <2>3 DEF KeyOf
      <3> QED
        BY <2>3, <3>1, JobIsThere DEF AtHand, TypeOK
    <2>4. ASSUME NEW i \in Lanes, lane[i] # None, c = <<"lane", i>>
          PROVE  KeyOf(c) \in Keys /\ AtLane(i, KeyOf(c))
      <3>1. KeyOf(c) = lane[i].key
        BY <2>4 DEF KeyOf
      <3> QED
        BY <2>4, <3>1, JobIsThere DEF AtLane, TypeOK
    <2> QED
      BY <2>1, <2>2, <2>3, <2>4 DEF Claims, Slots
  <1>2. ASSUME NEW k \in Keys, Held(k) PROVE \E c \in Claims : KeyOf(c) = k
    <2>1. ASSUME NEW u \in Submitters, AtSubmit(u, k) PROVE \E c \in Claims : KeyOf(c) = k
      <3>1. <<"submit", u>> \in Claims
        BY <2>1, JobIsThere DEF Claims, AtSubmit
      <3>2. KeyOf(<<"submit", u>>) = k
        BY <2>1 DEF KeyOf, AtSubmit
      <3> QED
        BY <3>1, <3>2
    <2>2. ASSUME NEW i \in Slots, AtQueue(i, k) PROVE \E c \in Claims : KeyOf(c) = k
      <3>1. <<"queue", i>> \in Claims
        BY DEF Claims, Slots
      <3>2. KeyOf(<<"queue", i>>) = k
        BY <2>2 DEF KeyOf, AtQueue
      <3> QED
        BY <3>1, <3>2
    <2>3. ASSUME AtHand(k) PROVE \E c \in Claims : KeyOf(c) = k
      <3>1. <<"hand", 0>> \in Claims
        BY <2>3 DEF Claims, AtHand
      <3>2. KeyOf(<<"hand", 0>>) = k
        BY <2>3 DEF KeyOf, AtHand
      <3> QED
        BY <3>1, <3>2
    <2>4. ASSUME NEW i \in Lanes, AtLane(i, k) PROVE \E c \in Claims : KeyOf(c) = k
      <3>1. <<"lane", i>> \in Claims
        BY <2>4 DEF Claims, AtLane
      <3>2. KeyOf(<<"lane", i>>) = k
        BY <2>4 DEF KeyOf, AtLane
      <3> QED
        BY <3>1, <3>2
    <2> QED
      BY <1>2, <2>1, <2>2, <2>3, <2>4 DEF Held
  <1>3. pending = {KeyOf(c) : c \in Claims}
    <2>1. \A k \in pending : k \in Keys /\ Held(k)
      BY DEF ClaimInv, TypeOK
    <2>2. \A c \in Claims : KeyOf(c) \in Keys /\ Held(KeyOf(c))
      BY <1>1 DEF Held
    <2> QED
      BY <1>2, <2>1, <2>2 DEF ClaimInv
  <1>4. ASSUME NEW c \in Claims, NEW d \in Claims, KeyOf(c) = KeyOf(d) PROVE c = d
    <2>1. KeyOf(c) \in Keys /\ HeldOnce(KeyOf(c))
      BY <1>1 DEF ClaimInv
    <2> QED
      BY <1>1, <1>4, <2>1 DEF HeldOnce
  <1> QED
    BY <1>3, <1>4 DEF ClaimIsExact

\* A step that moves no claim.
LEMMA ClaimKept ==
    ASSUME ClaimInv, UNCHANGED <<pending, queue, hand>>,
           \A u \in Submitters : submit'[u].at = submit[u].at,
           \A i \in Lanes : /\ lane'[i] = None <=> lane[i] = None
                            /\ lane[i] # None => lane'[i].key = lane[i].key
    PROVE  ClaimInv'
  <1> SUFFICES ASSUME NEW k \in Keys PROVE (k \in pending' <=> Held(k)') /\ HeldOnce(k)'
    BY DEF ClaimInv
  <1>1. (k \in pending <=> Held(k)) /\ HeldOnce(k)
    BY DEF ClaimInv
  <1>2. /\ \A u \in Submitters : AtSubmit(u, k)' <=> AtSubmit(u, k)
        /\ \A i \in Slots : AtQueue(i, k)' <=> AtQueue(i, k)
        /\ AtHand(k)' <=> AtHand(k)
        /\ \A i \in Lanes : AtLane(i, k)' <=> AtLane(i, k)
        /\ Slots' = Slots
    <2>1. \A u \in Submitters : AtSubmit(u, k)' <=> AtSubmit(u, k)
      BY DEF AtSubmit
    <2>2. \A i \in Lanes : AtLane(i, k)' <=> AtLane(i, k)
      BY DEF AtLane
    <2>3. Slots' = Slots /\ (AtHand(k)' <=> AtHand(k))
      BY DEF Slots, AtHand
    <2>4. \A i \in Slots : AtQueue(i, k)' <=> AtQueue(i, k)
      BY DEF AtQueue
    <2> QED
      BY <2>1, <2>2, <2>3, <2>4
  <1>3. Held(k)' <=> Held(k)
    BY <1>2 DEF Held
  <1>4. HeldOnce(k)'
    BY <1>1, <1>2 DEF HeldOnce
  <1> QED
    BY <1>1, <1>3, <1>4

\* A submitter claims a key that nobody holds.
LEMMA ClaimClaim ==
    ASSUME TypeOK, ClaimInv, NEW u \in Submitters, NEW k \in Keys, Claim(u, k)
    PROVE  ClaimInv'
  <1>1. /\ submit[u].at = None /\ submit'[u].at = k
        /\ \A v \in Submitters : v # u => submit'[v].at = submit[v].at
        /\ UNCHANGED <<queue, hand, lane>>
    BY DEF Claim, TypeOK, workVars
  <1>2. ~Held(k) /\ k # None /\ pending' = pending \cup {k}
    BY JobIsThere DEF Claim, ClaimInv
  <1>3. ASSUME NEW q \in Keys PROVE (q \in pending' <=> Held(q)') /\ HeldOnce(q)'
    <2>1. CASE q = k
      BY <1>1, <1>2, <2>1 DEF Held, HeldOnce, AtSubmit, AtQueue, AtHand, AtLane, Slots
    <2>2. CASE q # k
      <3>1. \A v \in Submitters : AtSubmit(v, q)' <=> AtSubmit(v, q)
        BY <1>1, <2>2, JobIsThere DEF AtSubmit
      <3>2. (q \in pending <=> Held(q)) /\ HeldOnce(q)
        BY DEF ClaimInv
      <3> QED
        BY <1>1, <1>2, <2>2, <3>1, <3>2 DEF Held, HeldOnce, AtQueue, AtHand, AtLane, Slots
    <2> QED
      BY <2>1, <2>2
  <1> QED
    BY <1>3 DEF ClaimInv

\* A dropped submitter gives its claim back.
LEMMA ClaimAbandon ==
    ASSUME TypeOK, ClaimInv, NEW u \in Submitters, Abandon(u)
    PROVE  ClaimInv'
  <1>1. /\ submit'[u].at = None
        /\ \A v \in Submitters : v # u => submit'[v].at = submit[v].at
        /\ UNCHANGED <<queue, hand, lane>>
        /\ pending' = pending \ {submit[u].at}
    BY DEF Abandon, Idle, TypeOK, workVars
  <1>2. ASSUME NEW q \in Keys PROVE (q \in pending' <=> Held(q)') /\ HeldOnce(q)'
    <2>0. (q \in pending <=> Held(q)) /\ HeldOnce(q) /\ q # None
      BY JobIsThere DEF ClaimInv
    <2>1. CASE q = submit[u].at
      BY <1>1, <2>0, <2>1 DEF Held, HeldOnce, AtSubmit, AtQueue, AtHand, AtLane, Slots
    <2>2. CASE q # submit[u].at
      <3>1. \A v \in Submitters : AtSubmit(v, q)' <=> AtSubmit(v, q)
        BY <1>1, <2>0, <2>2 DEF AtSubmit
      <3> QED
        BY <1>1, <2>0, <2>2, <3>1 DEF Held, HeldOnce, AtQueue, AtHand, AtLane, Slots
    <2> QED
      BY <2>1, <2>2
  <1> QED
    BY <1>2 DEF ClaimInv

\* A claim moves from its submitter to the end of the channel.
LEMMA ClaimSend ==
    ASSUME TypeOK, ClaimInv, NEW u \in Submitters, Send(u)
    PROVE  ClaimInv'
  <1>0. PICK n \in Nat, k \in Keys : n = Len(queue) /\ k = submit[u].at
    BY DEF Send, TypeOK, Submissions
  <1>1. k \in Keys /\ k # None /\ Sent(u) \in Jobs /\ Sent(u).key = k
    BY <1>0, JobIsThere DEF Send, Sent, Jobs, TypeOK, Submissions
  <1>2. /\ submit'[u].at = None
        /\ \A v \in Submitters : v # u => submit'[v].at = submit[v].at
        /\ UNCHANGED <<pending, hand, lane>>
    BY DEF Send, Disarmed, TypeOK
  <1>3. /\ Slots' = 1 .. n + 1
        /\ \A i \in Slots : queue'[i] = queue[i]
        /\ queue'[n + 1].key = k
    <2>1. queue \in Seq(Jobs) /\ queue' = Append(queue, Sent(u))
      BY DEF Send, TypeOK
    <2> QED
      BY <1>0, <1>1, <2>1, AppendJob DEF Slots
  <1>4. ASSUME NEW q \in Keys PROVE (q \in pending' <=> Held(q)') /\ HeldOnce(q)'
    <2>0. (q \in pending <=> Held(q)) /\ HeldOnce(q) /\ q # None
      BY JobIsThere DEF ClaimInv
    <2>1. /\ \A v \in Submitters : AtSubmit(v, q)' <=> AtSubmit(v, q) /\ v # u
          /\ \A i \in Slots : AtQueue(i, q)' <=> AtQueue(i, q)
          /\ AtQueue(n + 1, q)' <=> AtSubmit(u, q)
          /\ AtHand(q)' <=> AtHand(q)
          /\ \A i \in Lanes : AtLane(i, q)' <=> AtLane(i, q)
      BY <1>0, <1>2, <1>3, <2>0 DEF AtSubmit, AtQueue, AtHand, AtLane
    <2>2. \A i \in Slots' : i \in Slots \/ i = n + 1
      BY <1>0, <1>3 DEF Slots
    <2>3. \A i \in Slots : i \in Slots' /\ i # n + 1
      BY <1>0, <1>3 DEF Slots
    <2>4. n + 1 \in Slots'
      BY <1>3
    <2>5. q \in pending' <=> Held(q)'
      BY <1>2, <2>0, <2>1, <2>2, <2>3, <2>4 DEF Held
    <2>6. HeldOnce(q)'
      BY <2>0, <2>1, <2>2 DEF HeldOnce
    <2> QED
      BY <2>5, <2>6
  <1> QED
    BY <1>4 DEF ClaimInv

\* A claim moves from the head of the channel to the worker's hand.
LEMMA ClaimTake ==
    ASSUME TypeOK, ClaimInv, Take
    PROVE  ClaimInv'
  <1> DEFINE n == Len(queue)
  <1>1. /\ hand = None /\ hand' \in Jobs /\ hand' # None
        /\ hand' = queue[1]
        /\ n \in Nat /\ n >= 1 /\ Slots' = 1 .. n - 1
        /\ \A i \in Slots' : queue'[i] = queue[i + 1]
    <2>1. queue \in Seq(Jobs) /\ queue # <<>> /\ queue' = Tail(queue) /\ hand' = Head(queue)
      BY DEF Take, TypeOK
    <2> QED
      BY <2>1, TakeJob, JobIsThere DEF Slots, Take
  <1>2. UNCHANGED <<pending, submit, lane>>
    BY DEF Take
  <1>3. ASSUME NEW q \in Keys PROVE (q \in pending' <=> Held(q)') /\ HeldOnce(q)'
    <2>0. (q \in pending <=> Held(q)) /\ HeldOnce(q) /\ ~AtHand(q)
      BY <1>1 DEF ClaimInv, AtHand
    <2>1. /\ \A v \in Submitters : AtSubmit(v, q)' <=> AtSubmit(v, q)
          /\ \A i \in Slots' : AtQueue(i, q)' <=> AtQueue(i + 1, q)
          /\ AtHand(q)' <=> AtQueue(1, q)
          /\ \A i \in Lanes : AtLane(i, q)' <=> AtLane(i, q)
      BY <1>1, <1>2 DEF AtSubmit, AtQueue, AtHand, AtLane
    <2>2. \A i \in Slots' : i \in Nat /\ i + 1 \in Slots /\ i + 1 # 1
      BY <1>1 DEF Slots
    <2>3. \A i \in Slots : i = 1 \/ (i - 1 \in Slots' /\ (i - 1) + 1 = i)
      BY <1>1 DEF Slots
    <2>4. 1 \in Slots
      BY <1>1 DEF Slots
    <2>5. Held(q) <=> Held(q)'
      <3>1. (\E i \in Slots : AtQueue(i, q)) <=> (AtHand(q)' \/ \E i \in Slots' : AtQueue(i, q)')
        BY <2>1, <2>2, <2>3, <2>4
      <3> QED
        BY <2>0, <2>1, <3>1 DEF Held
    <2>6. HeldOnce(q)'
      <3>1. \A i, j \in Slots' : i + 1 = j + 1 => i = j
        BY <2>2
      <3> QED
        BY <2>0, <2>1, <2>2, <2>4, <3>1 DEF HeldOnce
    <2> QED
      BY <1>2, <2>0, <2>5, <2>6
  <1> QED
    BY <1>3 DEF ClaimInv

\* A claim moves from the worker's hand to the task of a permit.
LEMMA ClaimSpawn ==
    ASSUME TypeOK, ClaimInv, NEW i \in Lanes, Spawn(i)
    PROVE  ClaimInv'
  <1>1. /\ hand # None /\ hand' = None /\ lane[i] = None
        /\ UNCHANGED <<pending, submit, queue>>
        /\ \A j \in Lanes : j # i => lane'[j] = lane[j]
    BY DEF Spawn, TypeOK
  <1>2. lane'[i] # None /\ lane'[i].key = hand.key
    <2>1. hand.key \in Keys /\ hand.root \in Storages
      BY <1>1, JobIsThere DEF TypeOK
    <2>2. lane'[i] = [key |-> hand.key, root |-> hand.root, pc |-> "download", saved |-> FALSE]
      BY DEF Spawn, TypeOK
    <2>3. lane'[i] \in Downloads
      BY <2>1, <2>2 DEF Downloads
    <2>4. lane'[i].key = hand.key
      BY <2>2
    <2> QED
      BY <2>3, <2>4, JobIsThere
  <1>3. ASSUME NEW q \in Keys PROVE (q \in pending' <=> Held(q)') /\ HeldOnce(q)'
    <2>0. (q \in pending <=> Held(q)) /\ HeldOnce(q)
      BY DEF ClaimInv
    <2>1. /\ \A j \in Lanes : AtLane(j, q)' <=> IF j = i THEN AtHand(q) ELSE AtLane(j, q)
          /\ ~AtHand(q)' /\ ~AtLane(i, q)
          /\ \A v \in Submitters : AtSubmit(v, q)' <=> AtSubmit(v, q)
          /\ \A j \in Slots : AtQueue(j, q)' <=> AtQueue(j, q)
          /\ Slots' = Slots
      BY <1>1, <1>2 DEF AtSubmit, AtQueue, AtHand, AtLane, Slots
    <2>2. Held(q)' <=> Held(q)
      BY <2>1 DEF Held
    <2>3. HeldOnce(q)'
      BY <2>0, <2>1 DEF HeldOnce
    <2> QED
      BY <1>1, <2>0, <2>2, <2>3
  <1> QED
    BY <1>3 DEF ClaimInv

\* The task of a permit gives its claim back.
LEMMA ClaimRelease ==
    ASSUME TypeOK, ClaimInv, NEW i \in Lanes, Release(i)
    PROVE  ClaimInv'
  <1>1. /\ lane[i] # None /\ lane'[i] = None
        /\ pending' = pending \ {lane[i].key}
        /\ UNCHANGED <<submit, queue, hand>>
        /\ \A j \in Lanes : j # i => lane'[j] = lane[j]
    BY DEF Release, Downloading, TypeOK
  <1>2. ASSUME NEW q \in Keys PROVE (q \in pending' <=> Held(q)') /\ HeldOnce(q)'
    <2>0. (q \in pending <=> Held(q)) /\ HeldOnce(q)
      BY DEF ClaimInv
    <2>1. /\ \A j \in Lanes : AtLane(j, q)' <=> AtLane(j, q) /\ j # i
          /\ AtHand(q)' <=> AtHand(q)
          /\ \A v \in Submitters : AtSubmit(v, q)' <=> AtSubmit(v, q)
          /\ \A j \in Slots : AtQueue(j, q)' <=> AtQueue(j, q)
          /\ Slots' = Slots
          /\ AtLane(i, q) <=> lane[i].key = q
      BY <1>1 DEF AtSubmit, AtQueue, AtHand, AtLane, Slots
    <2>2. q \in pending' <=> Held(q)'
      BY <1>1, <2>0, <2>1 DEF Held, HeldOnce
    <2>3. HeldOnce(q)'
      BY <2>0, <2>1 DEF HeldOnce
    <2> QED
      BY <2>2, <2>3
  <1> QED
    BY <1>2 DEF ClaimInv

\* Every step keeps the claims exact.
LEMMA ClaimStep == TypeOK /\ ClaimInv /\ [Next]_vars => ClaimInv'
  <1> SUFFICES ASSUME TypeOK, ClaimInv, [Next]_vars PROVE ClaimInv'
    OBVIOUS
  <1> USE DEF workVars
  <1>1. ASSUME UNCHANGED <<pending, submit, workVars>> PROVE ClaimInv'
    BY <1>1, ClaimKept
  <1>2. ASSUME NEW u \in Submitters, NEW S \in SUBSET Keys,
               submit' = [submit EXCEPT ![u].todo = S], UNCHANGED <<pending, workVars>>
        PROVE  ClaimInv'
    <2>1. [submit[u] EXCEPT !.todo = S].at = submit[u].at
      BY DEF TypeOK, Submissions
    <2>2. \A v \in Submitters : submit'[v].at = submit[v].at
      BY <1>2, <2>1 DEF TypeOK
    <2> QED
      BY <1>2, <2>2, ClaimKept
  <1>3. CASE Enrichment
    <2>1. CASE EnrichStart \/ EnrichQueueNothing \/ EnrichArt \/ EnrichStop
      BY <1>1, <2>1 DEF EnrichStart, EnrichQueueNothing, EnrichArt, EnrichStop
    <2>2. ASSUME NEW u \in Submitters, EnrichQueue(u) PROVE ClaimInv'
      <3>1. enrich.plan \in SUBSET Keys
        BY <2>2 DEF EnrichQueue, TypeOK, Enrichments
      <3> QED
        BY <1>2, <2>2, <3>1 DEF EnrichQueue
    <2> QED
      BY <1>3, <2>1, <2>2 DEF Enrichment
  <1>4. ASSUME NEW u \in Submitters, Resume(u) PROVE ClaimInv'
    BY <1>2, <1>4 DEF Resume
  <1>5. ASSUME NEW u \in Submitters, Submission(u) PROVE ClaimInv'
    <2>1. ASSUME NEW k \in Keys, Collapse(u, k) PROVE ClaimInv'
      <3>1. submit[u].todo \ {k} \in SUBSET Keys
        BY DEF TypeOK, Submissions
      <3>2. submit' = [submit EXCEPT ![u].todo = submit[u].todo \ {k}]
        BY <2>1 DEF Collapse, TypeOK
      <3> QED
        BY <1>2, <2>1, <3>1, <3>2 DEF Collapse
    <2> QED
      BY <1>5, <2>1, ClaimClaim, ClaimSend DEF Submission
  <1>6. ASSUME NEW i \in Lanes, Download(i) PROVE ClaimInv'
    <2>1. CASE Save(i) \/ GiveUp(i) \/ Hook(i) \/ HookFails(i)
      <3>1. lane[i] \in Downloads
        BY <2>1 DEF Save, GiveUp, Hook, HookFails, Downloading, TypeOK
      <3>2. /\ [lane[i] EXCEPT !.pc = "hook"].key = lane[i].key
            /\ [lane[i] EXCEPT !.pc = "hook"] \in Downloads
            /\ [lane[i] EXCEPT !.pc = "release"].key = lane[i].key
            /\ [lane[i] EXCEPT !.pc = "release"] \in Downloads
            /\ [lane[i] EXCEPT !.pc = "hook", !.saved = TRUE].key = lane[i].key
            /\ [lane[i] EXCEPT !.pc = "hook", !.saved = TRUE] \in Downloads
        BY <3>1 DEF Downloads
      <3>3. /\ \E d \in Downloads : d.key = lane[i].key /\ lane' = [lane EXCEPT ![i] = d]
            /\ UNCHANGED <<pending, submit, queue, hand>>
        BY <2>1, <3>2 DEF Save, GiveUp, Hook, HookFails
      <3>4. \A j \in Lanes : /\ lane'[j] = None <=> lane[j] = None
                             /\ lane[j] # None => lane'[j].key = lane[j].key
        BY <3>1, <3>3, JobIsThere DEF TypeOK
      <3> QED
        BY <3>3, <3>4, ClaimKept
    <2> QED
      BY <1>6, <2>1, ClaimRelease DEF Download
  <1>7. CASE ClearFiles \/ ClearUrls \/ \E s \in Storages : Swap(s)
    BY <1>1, <1>7 DEF ClearFiles, ClearUrls, Swap
  <1>8. CASE Restart
    <2>1. /\ pending' = {} /\ hand' = None /\ Slots' = {}
          /\ \A u \in Submitters : submit'[u].at = None
          /\ \A i \in Lanes : lane'[i] = None
      BY <1>8 DEF Restart, Idle, Slots
    <2> QED
      BY <2>1, JobIsThere DEF ClaimInv, Held, HeldOnce, AtSubmit, AtHand, AtLane
  <1>9. CASE UNCHANGED vars
    BY <1>1, <1>9 DEF vars
  <1> QED
    BY <1>3, <1>4, <1>5, <1>6, <1>7, <1>8, <1>9, ClaimAbandon, ClaimTake, ClaimSpawn DEF Next, Worker

\* The dedup set of the orchestrator neither leaks a key nor lets a file be fetched
\* twice at once: a pending key is held by one submitter, one place of the channel, the
\* worker's hand or one permit.
THEOREM ClaimsAreExact == Spec => []ClaimIsExact
  <1>1. Init => ClaimInv
    <2> SUFFICES ASSUME Init PROVE ClaimInv
      OBVIOUS
    <2>1. /\ pending = {} /\ hand = None /\ Slots = {}
          /\ \A u \in Submitters : submit[u].at = None
          /\ \A i \in Lanes : lane[i] = None
      BY DEF Init, Idle, Slots
    <2> QED
      BY <2>1, JobIsThere DEF ClaimInv, Held, HeldOnce, AtSubmit, AtHand, AtLane
  <1>2. Spec => []ClaimInv
    BY <1>1, TypeCorrect, ClaimStep, PTL DEF Spec
  <1> QED
    BY <1>2, TypeCorrect, ClaimInvIsExact, PTL
=============================================================================
