------------------------------ MODULE RowImages ------------------------------
(***************************************************************************)
(* The photos in the rows of the home screen: sd_setImage of FirebaseUI on *)
(* cells that the table reuses for other rows.                             *)
(*                                                                         *)
(* A row's photo comes from the cache or from a download.  A download lives *)
(* on three threads: it is made and cancelled by the main queue, started   *)
(* and stopped by the serial queue of FIRStorage, and its data goes through *)
(* the main queue again: once to the fetcher's callback, which a stopped   *)
(* fetcher skips, and once more (three blocks in the code, in order and     *)
(* without another condition) to the image view, which asks nothing.       *)
(***************************************************************************)
EXTENDS Naturals, Sequences, SequencesExt

CONSTANTS
    Cells,          \* the reused cells
    Photos,         \* the photos of the feeds: names are never used twice
    None,           \* no photo, no row
    MaxDownloads    \* bound on the downloads of a run

ASSUME PhotosAssumption == None \notin Photos
ASSUME BoundAssumption == MaxDownloads \in Nat

VARIABLES
    row,        \* per cell, the photo of the row it was last bound to
    shows,      \* per cell, UIImageView.image
    current,    \* per cell, sd_currentDownloadTask; 0 for nil
    tasks,      \* the download tasks, in the order they were made
    work,       \* FIRStorage's dispatch queue
    main,       \* the main queue: data on its way to an image view
    cache       \* SDImageCache: the photos a lookup finds, in memory or on disk

vars == <<row, shows, current, tasks, work, main, cache>>

Slot == Photos \cup {None}
Ids == 1..MaxDownloads
\* "landed": its data is in the image view.
State == {"new", "fetching", "fetched", "stopped", "failed", "landing", "landed"}
Task == [cell : Cells, photo : Photos, state : State]
Order == [op : {"enqueue", "cancel"}, task : Ids]
At(t, state) == tasks' = [tasks EXCEPT ![t].state = state]

Init ==
    /\ row = [c \in Cells |-> None] /\ shows = [c \in Cells |-> None]
    /\ current = [c \in Cells |-> 0]
    /\ tasks = <<>> /\ work = <<>> /\ main = <<>>
    /\ cache = {}

-----------------------------------------------------------------------------
\* Mutant: the view forgets its download without cancelling it.
CancellingNothing(c) == work

\* The current download of a cell, if it has one, is to be cancelled.
Cancelling(c) ==
    IF current[c] = 0 THEN work ELSE Append(work, [op |-> "cancel", task |-> current[c]])

\* cellForRowAt and sd_setImageWithStorageReference: cancel what the cell waits for,
\* then the cache, then a download.
Bind(c, photo) ==
    /\ row' = [row EXCEPT ![c] = photo]
    /\ \/ /\ photo \in cache
          /\ shows' = [shows EXCEPT ![c] = photo]
          /\ current' = [current EXCEPT ![c] = 0]
          /\ work' = Cancelling(c)
          /\ UNCHANGED tasks
       \/ /\ photo \notin cache /\ Len(tasks) < MaxDownloads
          /\ shows' = [shows EXCEPT ![c] = None]
          /\ tasks' = Append(tasks, [cell |-> c, photo |-> photo, state |-> "new"])
          /\ current' = [current EXCEPT ![c] = Len(tasks')]
          /\ work' = Append(Cancelling(c), [op |-> "enqueue", task |-> Len(tasks')])
    /\ UNCHANGED <<main, cache>>

\* Mutant: a photo that is being fetched already is not fetched for another cell.
EnqueueOnce(t) ==
    LET twice == \E u \in DOMAIN tasks :
                     tasks[u].photo = tasks[t].photo /\ tasks[u].state = "fetching"
    IN At(t, IF twice THEN "stopped" ELSE "fetching")

\* enqueueWithData: a task nobody holds any more need not start.
Enqueue(t) ==
    \/ At(t, "fetching")
    \/ current[tasks[t].cell] # t /\ At(t, "stopped")

\* cancel: the fetcher stops, and skips the callback it may have asked for; a task whose
\* handlers were called cannot be stopped any more.
Cancel(t) ==
    \/ tasks[t].state \in {"fetching", "fetched"} /\ At(t, "stopped")
    \/ tasks[t].state \notin {"fetching", "fetched"} /\ UNCHANGED tasks

\* FIRStorage's queue runs its first block.
Work ==
    /\ work # <<>>
    /\ work' = Tail(work)
    /\ \/ Head(work).op = "enqueue" /\ Enqueue(Head(work).task)
       \/ Head(work).op = "cancel" /\ Cancel(Head(work).task)
    /\ UNCHANGED <<row, shows, current, main, cache>>

\* The network answers, or the retries are used up, or the photo is too large.
FetchEnds(t) ==
    /\ tasks[t].state = "fetching"
    /\ \/ At(t, "fetched") /\ main' = Append(main, t)
       \/ At(t, "failed") /\ UNCHANGED main
    /\ UNCHANGED <<row, shows, current, work, cache>>

\* The fetcher's callback, on the main queue: the success handler is posted.
Callback ==
    /\ main # <<>> /\ tasks[Head(main)].state \in {"fetched", "stopped"}
    /\ \/ /\ tasks[Head(main)].state = "fetched"
          /\ At(Head(main), "landing")
          /\ main' = Append(Tail(main), Head(main))
       \/ /\ tasks[Head(main)].state = "stopped"
          /\ main' = Tail(main) /\ UNCHANGED tasks
    /\ UNCHANGED <<row, shows, current, work, cache>>

\* The completion of sd_setImage: into the view, whatever row it has now, and the cache.
Land ==
    LET task == tasks[Head(main)] IN
    /\ main # <<>> /\ task.state = "landing"
    /\ At(Head(main), "landed")
    /\ main' = Tail(main)
    /\ shows' = [shows EXCEPT ![task.cell] = task.photo]
    /\ cache' = cache \cup {task.photo}
    /\ UNCHANGED <<row, current, work>>

\* Memory runs short before the cache's I/O queue has written a photo; it writes it.
Evict(photo) ==
    /\ photo \in cache
    /\ cache' = cache \ {photo}
    /\ UNCHANGED <<row, shows, current, tasks, work, main>>

Save(photo) ==
    /\ \E t \in DOMAIN tasks : tasks[t].photo = photo /\ tasks[t].state = "landed"
    /\ cache' = cache \cup {photo}
    /\ UNCHANGED <<row, shows, current, tasks, work, main>>

-----------------------------------------------------------------------------
Next ==
    \/ \E c \in Cells, photo \in Photos : Bind(c, photo)
    \/ Work \/ Callback \/ Land
    \/ \E t \in DOMAIN tasks : FetchEnds(t)
    \/ \E photo \in Photos : Evict(photo) \/ Save(photo)

Spec == Init /\ [][Next]_vars

\* The queues run and every fetch ends.
FairSpec ==
    /\ Spec /\ WF_vars(Work) /\ WF_vars(Callback) /\ WF_vars(Land)
    /\ \A t \in Ids : WF_vars(t \in DOMAIN tasks /\ FetchEnds(t))

-----------------------------------------------------------------------------
(***************************************************************************)
(* Properties.                                                             *)
(***************************************************************************)

\* The values every variable takes.
TypeOK ==
    /\ row \in [Cells -> Slot] /\ shows \in [Cells -> Slot]
    /\ current \in [Cells -> 0..Len(tasks)]
    /\ tasks \in Seq(Task) /\ Len(tasks) <= MaxDownloads
    /\ work \in Seq(Order) /\ main \in Seq(Ids)
    /\ cache \in SUBSET Photos

\* A cell's download is for its row, and the newest of the cell.
CurrentIsNewest ==
    /\ \A c \in Cells : current[c] # 0 =>
           tasks[current[c]].cell = c /\ tasks[current[c]].photo = row[c]
    /\ \A t \in DOMAIN tasks :
           LET c == tasks[t].cell IN row[c] # None /\ (current[c] # 0 => t <= current[c])

\* The storage queue: a task is new until its first block has run.
Ordered(op, t) == \E i \in DOMAIN work : work[i].op = op /\ work[i].task = t

NewIsEnqueued == \A t \in DOMAIN tasks : tasks[t].state = "new" <=> Ordered("enqueue", t)

\* What is cancelled was given up, and what was given up and can still be stopped will be.
GivenUpIsCancelled ==
    /\ \A i \in DOMAIN work :
           work[i].op = "cancel" => current[tasks[work[i].task].cell] # work[i].task
    /\ \A t \in DOMAIN tasks :
           /\ tasks[t].state \in {"new", "fetching", "fetched"}
           /\ current[tasks[t].cell] # t
           => Ordered("cancel", t)

\* A cell's blocks are in the order of its downloads, each started before it is cancelled.
WorkInOrder ==
    /\ \A i \in DOMAIN work : work[i].task \in DOMAIN tasks
    /\ \A i, j \in DOMAIN work :
           /\ i < j
           /\ tasks[work[i].task].cell = tasks[work[j].task].cell
           => \/ work[i].task < work[j].task
              \/ work[i].task = work[j].task /\ work[i].op = "enqueue" /\ work[j].op = "cancel"

\* No two downloads of a cell run at a time.
OneAtATime ==
    \A t, u \in DOMAIN tasks :
        /\ t < u /\ tasks[t].cell = tasks[u].cell /\ tasks[u].state # "new"
        => tasks[t].state \in {"stopped", "failed", "landing", "landed"}

\* The main queue: what is on its way, each once, the older of a cell first.
MainInOrder ==
    /\ \A i \in DOMAIN main :
           main[i] \in DOMAIN tasks /\ tasks[main[i]].state \in {"fetched", "stopped", "landing"}
    /\ \A t \in DOMAIN tasks :
           tasks[t].state = "landing" => \E i \in DOMAIN main : main[i] = t
    /\ \A i, j \in DOMAIN main :
           i < j => /\ main[i] # main[j]
                    /\ tasks[main[i]].cell = tasks[main[j]].cell => main[i] < main[j]

\* Once a download has landed no older one of its cell is to come.
OlderLandsFirst ==
    \A t, u \in DOMAIN tasks :
        t < u /\ tasks[t].cell = tasks[u].cell /\ tasks[u].state = "landed"
        => tasks[t].state # "landing"

\* What a cell shows is its row's photo; or nothing, while its download has not landed;
\* or, until its download has landed, the photo of an earlier row that was past stopping
\* when the cell was bound anew.  A photo from the cache can be covered by such a one, and
\* stays covered: nothing else is on its way.
PhotoInPlace ==
    \A c \in Cells :
        \/ shows[c] = row[c]
        \/ shows[c] = None /\ current[c] # 0 /\ tasks[current[c]].state # "landed"
        \/ /\ current[c] # 0 => tasks[current[c]].state # "landed"
           /\ \E t \in DOMAIN tasks :
                  /\ t # current[c] /\ tasks[t].cell = c
                  /\ tasks[t].photo = shows[c] /\ tasks[t].state = "landed"

IInv == /\ TypeOK /\ CurrentIsNewest
        /\ NewIsEnqueued /\ GivenUpIsCancelled /\ WorkInOrder
        /\ OneAtATime /\ MainInOrder /\ OlderLandsFirst
        /\ PhotoInPlace

\* The download of a row lands or fails, unless the cell is bound anew: that others are
\* cancelled, maybe after they ended, does not hold it up.
EveryDownloadEnds ==
    \A c \in Cells, t \in Ids :
        current[c] = t ~> current[c] # t \/ tasks[t].state \in {"landed", "failed"}

=============================================================================
