------------------------------ MODULE FeedSync ------------------------------
(***************************************************************************)
(* One feed, two stores: its photo in Storage and its document in          *)
(* Firestore, saved and deleted by several phones.                         *)
(*                                                                         *)
(* saveData uploads the photo and writes the document when the upload has  *)
(* ended, well or badly.  "delete" asks for the documents, then removes    *)
(* one of them and, without waiting, its photo; neither result is looked   *)
(* at.  setData and delete() hand a task to Firestore's worker queue; when *)
(* the task runs, the write is on disk, in a queue the phone sees through  *)
(* at once.  The worker queue, uploads, photo deletions and requests live  *)
(* in memory and die with the process.  A phone's queue on disk is a       *)
(* WriteQueue, as WritePipeline implements it: a connection that breaks    *)
(* between a write and its acknowledgement makes the server apply the      *)
(* write again.                                                            *)
(***************************************************************************)
EXTENDS Naturals, Sequences, FiniteSets, SequencesExt

CONSTANTS
    Phones,       \* the phones running the app
    Ids,          \* the dates that name documents and photos, in seconds
    MaxSaves,     \* bound on the saves of a run, over all phones
    MaxRepeats    \* bound on the deletions of one feed on a phone's worker queue

ASSUME BoundsAssumption == MaxSaves \in Nat /\ MaxRepeats \in Nat

VARIABLES
    docs,         \* documents of "feeds" on the server
    bucket,       \* photos under "images/"
    uploads,      \* per phone: saves whose photo is being uploaded
    completions,  \* per phone: saves whose upload has ended
    worker,       \* per phone: document writes on Firestore's worker queue, in order
    cache,        \* per phone: the documents it last heard of
    pending,      \* per phone: document writes on disk, not yet acknowledged, in order
    sent,         \* per phone: how many of them the server has taken
    newer,        \* per phone: feeds of which a query has brought later news than those
    deletes,      \* per phone: feeds to delete, in answers not yet handled
    photoDeletes, \* per phone: photo deletions under way
    saved,        \* history: the ids each phone has taken
    failed,       \* history: saves whose upload failed
    lost,         \* history: feeds whose deletion died with a phone's worker queue
    doomed,       \* history: per phone, those whose deletion is, or was, on its disk
    removed,      \* history: documents the server has removed
    revived       \* history: documents written again after that

connection == <<sent, newer>>
history == <<saved, failed, lost, doomed, removed, revived>>
vars == <<docs, bucket, uploads, completions, worker, cache, pending, connection, deletes,
          photoDeletes, history>>

Write == [op : {"set", "delete"}, id : Ids]
Set(id) == [op |-> "set", id |-> id]
Delete(id) == [op |-> "delete", id |-> id]

\* The indices of a write in the queue on disk and on the worker queue, and the feeds
\* either has writes of.
Places(p, write) == {i \in DOMAIN pending[p] : pending[p][i] = write}
Turns(p, write) == {i \in DOMAIN worker[p] : worker[p][i] = write}
Queued(p, op) == {id \in Ids : [op |-> op, id |-> id] \in Range(pending[p])}
Tasks(p, op) == {id \in Ids : [op |-> op, id |-> id] \in Range(worker[p])}

\* What phone p's getDocuments() finds: what it heard, under its own writes on disk.
View(p) == (cache[p] \cup Queued(p, "set")) \ Queued(p, "delete")

\* Ids two phones took; ids somebody's deletion reached the disk for.
Shared == {id \in Ids : \E p, q \in Phones : p # q /\ id \in saved[p] /\ id \in saved[q]}
Doomed == UNION {doomed[p] : p \in Phones}
Saves == {save \in Phones \X Ids : save[2] \in saved[save[1]]}

NoId == [p \in Phones |-> {}]

Init ==
    /\ docs = {} /\ bucket = {}
    /\ uploads = NoId /\ completions = NoId /\ cache = NoId
    /\ worker = [p \in Phones |-> <<>>]
    /\ pending = [p \in Phones |-> <<>>] /\ sent = [p \in Phones |-> 0] /\ newer = NoId
    /\ deletes = NoId /\ photoDeletes = NoId
    /\ saved = NoId /\ failed = {} /\ lost = {} /\ doomed = NoId
    /\ removed = {} /\ revived = {}

-----------------------------------------------------------------------------
(***************************************************************************)
(* Saving.                                                                 *)
(***************************************************************************)

\* saveData: the upload under the date's name.  One phone saves once a second
\* (AddFeed shows it, see FeedsKept); two phones may save in the same second.
SaveData(p, id) ==
    /\ id \notin saved[p]
    /\ Cardinality(Saves) < MaxSaves
    /\ saved' = [saved EXCEPT ![p] = @ \cup {id}]
    /\ uploads' = [uploads EXCEPT ![p] = @ \cup {id}]
    /\ UNCHANGED <<docs, bucket, completions, worker, cache, pending, connection, deletes,
                   photoDeletes, failed, lost, doomed, removed, revived>>

\* Storage ends the upload; one reported as failed may have stored the photo.
UploadEnds(p, id) ==
    /\ id \in uploads[p]
    /\ uploads' = [uploads EXCEPT ![p] = @ \ {id}]
    /\ completions' = [completions EXCEPT ![p] = @ \cup {id}]
    /\ \/ bucket' = bucket \cup {id} /\ UNCHANGED failed
       \/ bucket' \in {bucket, bucket \cup {id}} /\ failed' = failed \cup {id}
    /\ UNCHANGED <<docs, worker, cache, pending, connection, deletes, photoDeletes, saved,
                   lost, doomed, removed, revived>>

\* Mutants of putData's completion: it does not wait for the upload; it writes
\* again for as long as the write is not on disk.
CompletionEarly(p, id) ==
    /\ id \in uploads[p]
    /\ uploads' = [uploads EXCEPT ![p] = @ \ {id}]
    /\ worker' = [worker EXCEPT ![p] = Append(@, Set(id))]
    /\ UNCHANGED <<docs, bucket, completions, cache, pending, connection, deletes,
                   photoDeletes, history>>

CompletionRepeated(p, id) ==
    /\ id \in completions[p]
    /\ worker' = [worker EXCEPT ![p] = Append(@, Set(id))]
    /\ UNCHANGED <<docs, bucket, uploads, completions, cache, pending, connection, deletes,
                   photoDeletes, history>>

\* putData's completion calls setData, whether or not the photo is there.
UploadCompletion(p, id) ==
    /\ id \in completions[p]
    /\ completions' = [completions EXCEPT ![p] = @ \ {id}]
    /\ worker' = [worker EXCEPT ![p] = Append(@, Set(id))]
    /\ UNCHANGED <<docs, bucket, uploads, cache, pending, connection, deletes, photoDeletes,
                   history>>

-----------------------------------------------------------------------------
(***************************************************************************)
(* Deleting.                                                               *)
(***************************************************************************)

\* The request of "delete" is answered: the feed in the chosen row is one the phone
\* knows at this moment.
Answer(p, id) ==
    /\ id \in View(p)
    /\ Cardinality(Turns(p, Delete(id))) < MaxRepeats
    /\ deletes' = [deletes EXCEPT ![p] = @ \cup {id}]
    /\ UNCHANGED <<docs, bucket, uploads, completions, worker, cache, pending, connection,
                   photoDeletes, history>>

\* Mutant of the handler: it deletes the photo only.
DeletePhotoOnly(p, id) ==
    /\ id \in deletes[p]
    /\ deletes' = [deletes EXCEPT ![p] = @ \ {id}]
    /\ photoDeletes' = [photoDeletes EXCEPT ![p] = @ \cup {id}]
    /\ UNCHANGED <<docs, bucket, uploads, completions, worker, cache, pending, connection,
                   history>>

\* The handler: delete() on document and photo, though others may have deleted them.
DeleteCallback(p, id) ==
    /\ id \in deletes[p]
    /\ deletes' = [deletes EXCEPT ![p] = @ \ {id}]
    /\ worker' = [worker EXCEPT ![p] = Append(@, Delete(id))]
    /\ photoDeletes' = [photoDeletes EXCEPT ![p] = @ \cup {id}]
    /\ UNCHANGED <<docs, bucket, uploads, completions, cache, pending, connection, history>>

\* Storage deletes the photo, or fails and nobody retries.
PhotoDeleteEnds(p, id) ==
    /\ id \in photoDeletes[p]
    /\ photoDeletes' = [photoDeletes EXCEPT ![p] = @ \ {id}]
    /\ bucket' \in {bucket, bucket \ {id}}
    /\ UNCHANGED <<docs, uploads, completions, worker, cache, pending, connection, deletes,
                   history>>

-----------------------------------------------------------------------------
(***************************************************************************)
(* Firestore and the phones.                                               *)
(***************************************************************************)

\* The task of setData or delete(): writeMutations puts the write on disk.
WriteLocally(p) ==
    /\ worker[p] # <<>>
    /\ worker' = [worker EXCEPT ![p] = Tail(@)]
    /\ LET write == Head(worker[p]) IN
       /\ pending' = [pending EXCEPT ![p] = Append(@, write)]
       /\ doomed' = [doomed EXCEPT ![p] = @ \cup (IF write.op = "delete" THEN {write.id} ELSE {})]
    /\ UNCHANGED <<docs, bucket, uploads, completions, cache, connection, deletes,
                   photoDeletes, saved, failed, lost, removed, revived>>

\* The feeds of the writes the server took and phone p has not heard of.
TakenIds(p) == {pending[p][i].id : i \in 1..sent[p]}

\* The server takes phone p's next write, perhaps not for the first time.
Take(p) ==
    /\ sent[p] < Len(pending[p])
    /\ sent' = [sent EXCEPT ![p] = @ + 1]
    /\ LET write == pending[p][sent[p] + 1] IN
       /\ newer' = [newer EXCEPT ![p] = @ \ {write.id}]
       /\ \/ /\ write.op = "set"
             /\ docs' = docs \cup {write.id}
             /\ revived' = revived \cup (removed \cap {write.id})
             /\ UNCHANGED removed
          \/ /\ write.op = "delete"
             /\ docs' = docs \ {write.id}
             /\ removed' = removed \cup (docs \cap {write.id})
             /\ UNCHANGED revived
    /\ UNCHANGED <<bucket, uploads, completions, worker, cache, pending, deletes,
                   photoDeletes, saved, failed, lost, doomed>>

\* What an acknowledged write makes of the cached documents, unless they are newer.
Applied(write, known, later) ==
    IF write.id \in later THEN known
    ELSE IF write.op = "set" THEN known \cup {write.id} ELSE known \ {write.id}

\* Phone p hears that its oldest write was taken.
Acknowledge(p) ==
    /\ sent[p] > 0
    /\ cache' = [cache EXCEPT ![p] = Applied(Head(pending[p]), @, newer[p])]
    /\ pending' = [pending EXCEPT ![p] = Tail(@)]
    /\ sent' = [sent EXCEPT ![p] = @ - 1]
    /\ newer' = [newer EXCEPT ![p] = @ \cap TakenIds(p)']
    /\ UNCHANGED <<docs, bucket, uploads, completions, worker, deletes, photoDeletes, history>>

\* The connection breaks: the whole queue will be sent again.
Disconnect(p) ==
    /\ sent' = [sent EXCEPT ![p] = 0]
    /\ newer' = [newer EXCEPT ![p] = {}]
    /\ UNCHANGED <<docs, bucket, uploads, completions, worker, cache, pending, deletes,
                   photoDeletes, history>>

\* A getDocuments() that reaches the server refreshes what phone p knows.  It may say
\* nothing of a feed that is gone and that this phone has never heard of.
Listen(p) ==
    /\ cache' = [cache EXCEPT ![p] = docs]
    /\ \E unsaid \in SUBSET (TakenIds(p) \ (docs \cup cache[p])) :
          newer' = [newer EXCEPT ![p] = TakenIds(p) \ unsaid]
    /\ UNCHANGED <<docs, bucket, uploads, completions, worker, pending, sent, deletes,
                   photoDeletes, history>>

\* Mutant of Restart: the write queue is lost with the process.
RestartInMemory(p) ==
    /\ pending' = [pending EXCEPT ![p] = <<>>]
    /\ sent' = [sent EXCEPT ![p] = 0]
    /\ newer' = [newer EXCEPT ![p] = {}]
    /\ UNCHANGED <<docs, bucket, uploads, completions, worker, cache, deletes, photoDeletes,
                   history>>

\* The process dies with all it has in memory, the worker queue included; cache and write
\* queue are on disk.
Restart(p) ==
    /\ uploads' = [uploads EXCEPT ![p] = {}]
    /\ completions' = [completions EXCEPT ![p] = {}]
    /\ deletes' = [deletes EXCEPT ![p] = {}]
    /\ photoDeletes' = [photoDeletes EXCEPT ![p] = {}]
    /\ worker' = [worker EXCEPT ![p] = <<>>]
    /\ lost' = lost \cup Tasks(p, "delete")
    /\ sent' = [sent EXCEPT ![p] = 0]
    /\ newer' = [newer EXCEPT ![p] = {}]
    /\ UNCHANGED <<docs, bucket, cache, pending, saved, failed, doomed, removed, revived>>

-----------------------------------------------------------------------------
Next ==
    \E p \in Phones :
        \/ \E id \in Ids :
              \/ SaveData(p, id) \/ UploadEnds(p, id) \/ UploadCompletion(p, id)
              \/ Answer(p, id) \/ DeleteCallback(p, id) \/ PhotoDeleteEnds(p, id)
        \/ WriteLocally(p)
        \/ Take(p) \/ Acknowledge(p) \/ Disconnect(p) \/ Listen(p) \/ Restart(p)

Spec == Init /\ [][Next]_vars

\* The worker queue runs its tasks; a phone that stays in use gets its writes to the
\* server, and not every connection breaks between a write and its acknowledgement.
FairSpec ==
    /\ Spec
    /\ \A p \in Phones : WF_vars(WriteLocally(p)) /\ WF_vars(Take(p)) /\ SF_vars(Acknowledge(p))

-----------------------------------------------------------------------------
(***************************************************************************)
(* Properties.                                                             *)
(***************************************************************************)

\* The values every variable takes.
TypeOK ==
    /\ docs \in SUBSET Ids /\ bucket \in SUBSET Ids
    /\ failed \in SUBSET Ids /\ lost \in SUBSET Ids /\ removed \in SUBSET Ids /\ revived \in SUBSET Ids
    /\ uploads \in [Phones -> SUBSET Ids] /\ completions \in [Phones -> SUBSET Ids]
    /\ cache \in [Phones -> SUBSET Ids] /\ deletes \in [Phones -> SUBSET Ids]
    /\ photoDeletes \in [Phones -> SUBSET Ids]
    /\ saved \in [Phones -> SUBSET Ids] /\ doomed \in [Phones -> SUBSET Ids]
    /\ worker \in [Phones -> Seq(Write)]
    /\ pending \in [Phones -> Seq(Write)]
    /\ sent \in [Phones -> Nat] /\ newer \in [Phones -> SUBSET Ids]
    /\ \A p \in Phones : sent[p] <= Len(pending[p])

\* A save is in one place: being uploaded, ended, with the worker, or queued on disk; while
\* it is queued the server has it if and only if it took it, once or more often; until then
\* no other phone knows of it; and its own phone's delete, if there is one, stands behind it
\* in the queue.
SavedOnce ==
    \A p \in Phones, id \in Ids \ Shared :
        LET sets == Places(p, Set(id)) IN
        /\ uploads[p] \cap completions[p] = {}
        /\ id \in uploads[p] \cup completions[p] => Turns(p, Set(id)) = {}
        /\ \A i, j \in Turns(p, Set(id)) : i = j
        /\ id \in uploads[p] \cup completions[p] \cup Tasks(p, "set") =>
              id \in saved[p] /\ sets = {} /\ id \notin docs \cup removed
        /\ sets # {} =>
              /\ id \in saved[p] /\ \A i, j \in sets : i = j
              /\ \A i \in sets, j \in Places(p, Delete(id)) : i < j
              /\ \A i \in sets : i <= sent[p] => id \in docs \cup removed
              /\ id \notin docs \cup removed => \A q \in Phones : id \notin cache[q]

\* A document without its photo is one whose upload failed or that delete() was called for:
\* no phone's restart, delete or save comes between another's upload and its document.
AskedBy(p) == Tasks(p, "delete") \cup lost \cup doomed[p]
Asked == UNION {AskedBy(p) : p \in Phones}
NoDanglingFeed == docs \ bucket \subseteq failed \cup Asked

(***************************************************************************)
(* Why there is none: everything on its way to becoming a document has its *)
(* upload behind it.                                                       *)
(***************************************************************************)
Settled == bucket \cup failed \cup Asked
EndedBeforeWritten ==
    \A p \in Phones : completions[p] \cup Tasks(p, "set") \cup Queued(p, "set") \subseteq Settled
WrittenSettled == docs \subseteq Settled
PhotoDeletesAsked == \A p \in Phones : photoDeletes[p] \subseteq AskedBy(p)

\* The inductive invariant behind NoDanglingFeed.
PhotoInv == TypeOK /\ EndedBeforeWritten /\ WrittenSettled /\ PhotoDeletesAsked

(***************************************************************************)
(* Why a save is in one place: whatever a phone has of a feed comes from   *)
(* its own save or from the server, also for shared ids.                   *)
(***************************************************************************)
Known == docs \cup removed
Traced ==
    /\ Known \subseteq UNION {saved[p] : p \in Phones}
    /\ \A p \in Phones :
          /\ uploads[p] \cup completions[p] \cup Tasks(p, "set") \cup Queued(p, "set")
                \subseteq saved[p]
          /\ uploads[p] \cap completions[p] = {}
          /\ cache[p] \subseteq Known
          /\ deletes[p] \cup Tasks(p, "delete") \cup Queued(p, "delete")
                \subseteq Known \cup Queued(p, "set")
          /\ \A i \in 1..sent[p] : pending[p][i].op = "set" => pending[p][i].id \in Known

\* The inductive invariant behind SavedOnce.
SaveInv == PhotoInv /\ Traced /\ SavedOnce

(***************************************************************************)
(* Why a deletion lasts: when the server has taken a phone's delete, and   *)
(* from then on, the feed is gone from the server for the phone that saved *)
(* it, and back only as revived for the others; and what a query brought   *)
(* between the delete and its acknowledgement says so.                     *)
(***************************************************************************)
DeleteTaken(p, id) == \E i \in Places(p, Delete(id)) : i <= sent[p]
DeleteDone(p, id) == id \in doomed[p] \ Queued(p, "delete")
GoneAt(p, id) ==
    /\ DeleteTaken(p, id) \/ DeleteDone(p, id) =>
          id \in removed /\ (id \in saved[p] => id \notin docs)
    /\ DeleteDone(p, id) => id \notin Queued(p, "set")
    /\ id \in newer[p] \ cache[p] => id \in removed
    /\ DeleteTaken(p, id) /\ id \in newer[p] \cap cache[p] => id \in revived \ saved[p]
Gone ==
    /\ removed \subseteq Doomed
    /\ docs \cap removed \subseteq revived
    /\ \A p \in Phones :
          /\ Queued(p, "delete") \subseteq doomed[p]
          /\ doomed[p] \subseteq Known \cup Queued(p, "set")
          /\ newer[p] \subseteq TakenIds(p)
          /\ \A id \in Ids \ Shared : GoneAt(p, id)

\* The inductive invariant of the whole.
IInv == SaveInv /\ Gone

\* A phone whose deletion of a feed is on disk never sees it again, offline, after a
\* restart, or while other phones work on it, unless the saver's unacknowledged write was
\* sent once more after that; a phone's own feeds do not come back even then; and a feed a
\* phone sees goes only by a deletion.
DeletedStaysDeleted ==
    [][\A p \in Phones, id \in Ids \ Shared' :
          /\ /\ id \in doomed[p] /\ id \notin View(p)
             /\ id \in saved[p] \/ id \notin revived'
             => id \notin View(p)'
          /\ id \in View(p) /\ id \notin View(p)' => id \in Doomed']_vars

\* A deletion reaches the server and is acknowledged there, unless one of that feed died
\* with the process before its task had run; the feed is gone then, unless the saver's
\* write was sent once more after it; and a phone's own feed is gone for good even so.
DeletesReach ==
    \A id \in Ids, p \in Phones :
        id \in Tasks(p, "delete") ~>
            \/ id \in lost \cup Shared \cup (revived \ saved[p])
            \/ DeleteDone(p, id) /\ id \notin docs /\ (id \in saved[p] => [](id \notin docs))

\* The phones together implement the catalogue: no deletion that was slow, repeated or
\* came from a stale snapshot brings a feed back, and no save posts it twice; only a
\* save its phone has not heard of may return.
Status == [id \in Ids |-> IF id \in Shared THEN "shared"
                          ELSE IF id \in docs THEN "posted"
                          ELSE IF id \in removed THEN "removed" ELSE "absent"]
Unconfirmed == (UNION {Queued(p, "set") : p \in Phones}) \ Shared
Catalogue == INSTANCE FeedCatalogue WITH status <- Status, unconfirmed <- Unconfirmed
ImplementsCatalogue == Catalogue!Spec

\* Each phone's queue is a WriteQueue, which WritePipeline implements: Queue(p)!Spec for
\* every p, with the quantifier inside as TLC needs it.
Queue(p) == INSTANCE WriteQueue WITH Writes <- Write, queue <- pending[p], sent <- sent[p]
ImplementsQueues ==
    /\ \A p \in Phones : Queue(p)!Init
    /\ [][\A p \in Phones : [Queue(p)!Next]_(Queue(p)!vars)]_vars

=============================================================================
