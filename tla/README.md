# Fishing: a verification project

*Fishing* (`src/FishingPoint`) is an iOS app in Swift: users post "feeds" (a
photo, the point where the fish was caught, rod, reel and lure) to a list that
everybody shares. Photos are kept in Firebase Storage, the texts in the Firestore
collection `feeds`. This directory models the app's own logic in TLA+, and the parts
of the vendored Firebase client that this logic rests on: TLC checks small
instances, TLAPS proves what matters most for all sizes.

The repository has no tests and no documentation but its comments. The app's own
code is 1335 lines; the other 450,000 lines, under `Pods/`, are third-party code it
carries unchanged (mostly gRPC, BoringSSL, Protobuf and LevelDB). Of those we model
the paths the app's calls go through: `getDocuments`, `setData`, `delete`, and
FirebaseUI's image loading.

## 1. Inventory

Paths are relative to `src/FishingPoint/FishingPoint/`; *Pods* to `src/FishingPoint/Pods/`.

| Component | State | Operations | Talks to |
|---|---|---|---|
| `VC/MainViewController`, `Cell/MainTableViewCell`, `View/MainContentsView`: home screen | the table's row count, its reusable cells (tag, labels), the open action sheet, the navigation stack | `viewWillAppear`/`getData`, the completion handlers of three `getDocuments` calls (list, modify, delete), `cellForRowAt`, more button, point label, "+" | Firestore, Storage, `FeedDataManager` |
| `Data/FeedDataManager` (singleton), `FeedData` | `allFeedData`, `allImageData`; the one-slot mailbox `pointName` | plain reads and writes from three screens | everybody |
| `VC/AddFeedViewController`, `View/AddFeedView`: registration form | four texts, the photo, whether the keyboard is up | `viewWillAppear` (takes the mailbox), photo sheet and picker, location screen, `saveFeedDidTap`/`saveData` and its two closures | Storage, Firestore, the mailbox, the overlay |
| `VC/AddFishingPointViewController`: location screen | `tempStored`, the location manager | permission, location updates, reverse geocoding, confirm | CoreLocation, the mailbox |
| `VC/FishingPointViewController`: map of a point | none | one forward geocode | CoreLocation |
| HPGradientLoading (Pods): the loading overlay, a singleton | on or off | `showLoading`, `dismiss`, dismiss on tap | the form |
| Firestore's write path (Pods: `remote_store.mm`, `stream.mm`, `write_stream.mm`, `leveldb_mutation_queue.mm`, `FSTSyncEngine`, `FSTLocalStore`) | the mutation queue on disk, the write pipeline and the stream in memory | enqueue, open, handshake, send, result, refusal, close, back off, idle timeout | the server; used by the form and the home screen |
| Firestore's read path (Pods: `FIRQuery`, `FSTEventManager`, `query_listener`, `online_state_tracker`, watch stream) | listeners and their muting, the view, the online state with its timer, requests and replies under way | `getDocuments`, add and remove listener, snapshot, error, online state change | the server, the main queue; used by the home screen |
| FirebaseUI `sd_setImage`, `FIRStorageDownloadTask` (Pods): row images | each image view's current download, the tasks, the image cache | bind, cancel, enqueue, callback, land, store in the cache | Storage, the home screen's cells |
| `Custom/MainTabBarController`, `AppDelegate`, `Data/AppImageData`, layout code | none of their own | setup; the tab bar pops to the home screen | - |

### What is hard here

Everything of the app runs on the main queue. What interleaves is what the main
queue runs *between* a call and its answer:

* `getData` clears two shared lists at once, and fills them when the query is
  answered; until then the table still has the old row count and asks for rows
  that are gone. Two overlapping calls append everything twice.
* "modify" and "delete" remember a row *number* and look it up in a newer download.
* Cells are reused. One dequeued while the lists are empty is shown unbound; a photo
  may arrive when its cell shows another row.
* `saveData` is three steps: upload, document, and three seconds later "take the
  overlay away and pop the top screen". The user can navigate, or tap the overlay
  away, between any two of them; the process can die between any two of them.
* `viewWillAppear` of the form empties the mailbox into the form every time the
  form is uncovered, not only when the location screen closes.
* Permission, locations and addresses arrive in any order, some after the screen that
  asked for them is gone, and their optional parts are force-unwrapped.
* A feed lives in two stores without a transaction; its id is the time in seconds;
  and other phones save and delete at the same time.
* The Firestore client below repeats writes after a lost connection, answers reads
  from its cache when a timer or a failure says it is offline, and attributes replies
  to requests by counting them.

`PROJECT.json` lists each of these at its line under `hazards`.

## 2. Modules and how they correspond to the code

How they fit together (an arrow: "relies on the promise of"):

    MainFeed ----> Reads       <== GetDocuments          RowImages   (photos of the rows)
    FeedSync ----> WriteQueue  <== WritePipeline         PointScreens (fills the mailbox)
    FeedSync ====> FeedCatalogue                         AddFeed     (one phone's form)

`<==` and `==>` are refinements that TLC checks and TLAPS proves: WritePipeline implements WriteQueue, and
so does every phone of FeedSync (`ImplementsQueues`), so that the queue FeedSync uses is
one the client provides. GetDocuments implements Reads, the queue of requests that
MainFeed has as `requests`: each is answered once, in order, with at least this phone's
own writes.

**MainFeed** - the home screen. One variable per piece of state; a pending
`getDocuments` is a record in the queue `requests`, answered by `Answer` and
completed by `ListCallback`, `ModifyCallback` or `DeleteCallback`, each the whole
closure (`DeleteCallback` includes the `getData()` at its end; the photo deletion it
starts has no effect on this screen and is in FeedSync). `ShowRow` is `cellForRowAt`
with its three outcomes (unbound, bound, index out of range); `trap` holds the reason of
a crash and `Relaunch` starts over. `FeedPosted` and `FeedRemoved` are this or another
phone changing the collection at any moment. `overlapped` is a history variable: a list
request was pending when `getData` was last called.

**AddFeed** - the form, what it presents, the mailbox, the overlay and its saves. A
save goes through the phases *uploading, uploaded* (the completion handler is due),
*waiting* (for the timer), *done*, or *lost* with the process. A form popped while
its save runs stays alive in the closure, exactly as ARC keeps it, and a save reads
its texts from it. The clock has seconds because `"\(Date())"` has. A full-screen
modal hides the navigation stack: dismissing it calls `viewWillAppear` on the top
screen, pushing under it does not (deployment target iOS 12.2). `SwipeCancelled` is
the interactive pop let go half way, which calls `viewWillAppear` twice. The timer calls
`popViewController` on the saver's own `navigationController`: while the saver is on the
stack that pops the top screen, and once it was popped the reference is nil and nothing
goes (`TimerFires`). Two history variables: `touched`, the user tapped the overlay away,
typed under it, or "modify" pushed a form over another screen; `pushedOver`, the saves whose
form "modify" pushed another over while they ran. `docs` is what `setData` has been called
with: that the write still has to reach the disk and the server is FeedSync's.

**PointScreens** - the location screen, over several visits, and the map of a feed. A
visit may be told several locations before `stopUpdatingLocation` takes effect, each of
which starts a geocode (`geocodes`); answers come in any order, also when the screen is
gone, because the completion handler holds it. `crash` names the force-unwrap that
trapped. AddFeed abstracts this module to `DidTapConfirmButton`, any address or none.

**RowImages** - `sd_setImage` on reused cells. A download passes three queues: made and
cancelled on the main queue, started and stopped on FIRStorage's queue (`work`), delivered
on the main queue again (`main`). Each task has the state the code's checks can tell.

**FeedSync** - several phones, one shared list. Each phone has uploads, upload
completions, unhandled delete answers, photo deletions and Firestore's worker queue in memory
(lost by `Restart`) and a document cache and a write queue on disk (not lost). `setData` and
`delete()` (`UploadCompletion`, `DeleteCallback`) only put a task on the worker queue
(`worker`); `WriteLocally` is the task, which writes to disk. The history variable `lost`
has the feeds whose deletion died before its task. `sent` is how much of the
queue the server has taken on this connection: `Disconnect` loses the acknowledgements,
and the writes are taken again. `View(p)` is what a query on phone p finds. Uploads and
photo deletions may fail, nobody retries; a failed upload may still have stored its
photo; the document is written all the same. Ids are seconds, so two phones may take the
same id: then it is `Shared`, and the properties exempt it where the code can keep no
promise.

**FeedCatalogue** - the abstract list: a feed is absent, announced, posted, removed; while
its saver has not heard of it, it may be posted again (or shared, when two phones saved in
the same second).

**WriteQueue, WritePipeline** - the promise of the write path and the write path. The
pipeline holds the oldest `MaxPendingWrites` batches of the queue on disk; the stream goes
through *initial, starting, open, error, backoff*; requests and responses are sequences.
Every action is one operation on the worker queue, with all it calls: `MutationResult`
removes the batch from disk, takes it off the pipeline, and refills the pipeline.

**Reads, GetDocuments** - the promise of the read path and the read path: the main queue
(`GetDocuments`, `ListenerRuns`), the worker queue (`Work`, `TimerFires`, `Connect` and
what a stream reports), the network (`ServerTakes`, `ServerSnapshot`, `StreamFails`).
A task of the worker queue carries the number of its call or its write (`ListenTask`,
`RemoveTask`, `WriteTask`); `Among` takes listeners out of the vector in its order.
`refused` and `orphan` are history variables for the two oddities described in section 4.

**MC\*** modules add the constants for TLC. **MainFeedProofs,
AddFeedProofs, FeedSyncProofs, FeedDeletionProofs, WritePipelineProofs,
GetDocumentsProofs, RowImagesProofs, PointScreensProofs** hold the theorems.

Definitions marked *mutant* in comments are plausible bugs of the definition next to
them; they are not part of any specification. `PROJECT.json` pairs each checked
property with the one that breaks it.

## 3. Runs

| Run | Checks | Bounds |
|---|---|---|
| `home_overlap` | IInv, NoDuplicates, CellsCurrent, CrashCauses, DeleteHitsTarget, ModifyHitsTarget | 2 feeds, 1 cell, 2 requests in flight, 1 of them by a tap |
| `home_liveness` | TableCatchesUp | 1 feed, 1 cell, 2 requests, both by taps if need be |
| `form_saves` | IInv, SingleFlight, PhotoBeforeFeed, FeedsKept | 1 form, 2 saves, 4 seconds |
| `form_screens` | WrittenAsShown, NoStaleMail, TimerPopsSaver, PointReachesAsker, OverlayGoes, EverySaveWrites | 2 forms, 1 save, 1 second |
| `form_blank`, `form_photo`, `form_modify` | the three findings below | 1 form, 1 save |
| `sync_phones` | IInv, SavedOnce, NoDanglingFeed, DeletedStaysDeleted, ImplementsCatalogue, ImplementsQueues, DeletesReach | 2 phones, 1 id, 1 save, 1 deletion on a worker queue |
| `write_pipeline` | IInv, NoAssertFails, NothingLost, InOrder, EveryWriteSettles, ImplementsQueue | a pipeline of 2, 5 writes, 3 broken connections or restarts |
| `get_documents` | IInv, ImplementsReads, EveryCallAnswered | 3 calls, 1 write, 1 change by others, 1 refusal or break |
| `row_images` | PhotoInPlace, EveryDownloadEnds | 2 cells, 2 photos, 3 downloads |
| `point_screens` | IInv, AllowedVisitLocates | 3 places (one at sea), 2 visits of 2 locations, 1 map |

Why these bounds are enough to see the interesting cases:

* `MaxRequests = 2` is the smallest number of requests that overlap; `MaxTaps` limits
  those a tap made so that the queue stays small. Two feeds tell "oldest first" from
  "newest first" and leave a neighbour to hit by mistake. One cell is enough for a cell to
  be reused for another row. The proofs remove all these bounds.
* Two forms are needed for one to be pushed over another. Two saves are needed for one
  save's timer or date to meet another save. `MaxSaves` counts the saves of a run.
* `MaxClock` bounds the *dates*, not the timers: `Tick` goes on for as long as a timer
  runs, with the clock standing still. Four seconds let a second save start just after
  the first one's timer fired; where the date does not matter one is enough.
* Texts other than the point behave like it except that `viewWillAppear` leaves them
  alone. Runs with `Words = {}` check the point only; the findings use one word. The
  empty text is always among the values.
* In FeedSync feeds do not influence each other but through the order of a phone's queue,
  which WriteQueue keeps. One feed that one phone saves and both delete shows every race on
  it: from stale snapshots, with acknowledgements lost, with kills before and after a task
  ran, deleted any number of times. A second save of the one id would make it `Shared`, which
  most properties exempt, and `MaxRepeats` bounds only how many deletions of it wait on one
  worker queue at a time. Two saves have 400,000 states and take TLC over four minutes; shared
  ids, several feeds and longer queues are covered by the theorems alone (all but
  `DeletesReach` are proved, with no bound).
* Five writes through a pipeline of two fill it, refill it and leave some on disk only;
  three failures let a resent write be lost again. `kMaxPendingWrites` is 10 in the code;
  nothing in the code depends on its value.
* Three calls and one fault: one call answered before, one waiting during, one made
  after. `MaxFaults` bounds breaks of a connection that has spoken; an attempt that
  never gets through may fail any number of times.
* Three downloads on two cells let one cell have an older, a cancelled and a newer one
  while the other fetches the same photo. Two visits let an answer arrive in the next.

Deadlock is checked in the runs of MainFeed, AddFeed and FeedSync. In `write_pipeline`,
`get_documents` and `row_images` the system rests when the run's bounded work is done, and
in `point_screens` a crash ends the app, so those four do not check it.

**Fairness.** Only the system is fair, never the user.

* MainFeed: Firestore answers every query (that is `EveryCallAnswered`) and the main queue
  runs what was dispatched to it.
* AddFeed: Storage ends every upload, at worst by giving up after its retry time; the main
  queue runs completions and timers; time passes.
* FeedSync: the worker queue runs its tasks while the process lives (WF; a kill takes them
  away); the server takes what a phone sends (WF), and hears back from it (SF: not every
  connection breaks before its acknowledgements). It holds for a phone that is used again
  and online again; one that is switched off for good keeps its deletion for itself.
* WritePipeline, GetDocuments: the worker queue runs what is due, the server answers what
  it has read. Breaks are bounded, otherwise no write would ever settle; nothing bounds the
  attempts to connect.
* RowImages: the two queues run and every fetch ends. PointScreens: a phone that again and
  again may be located is (SF, since permission may flip), and the geocoder answers.

## 4. What the checks show

Holds:

* Rows, lists and cells: the lists stay parallel, cells are current whenever the
  lists are not empty, and `cellForRowAt` never indexes out of range although the
  table is out of step between `getData` and its answer: its `isEmpty` test and the
  atomic clear are what saves it (`CrashCauses`, `CellsCurrent`).
* "delete" and "modify" act on the feed that was tapped, provided that the
  collection is still the one on screen. If another phone changed it, a neighbour is
  deleted; nothing in the code detects this.
* Saves: as long as the overlay is not tapped away there is one save at a time, no
  save overwrites another, and what is written is what was shown. Whatever the user does,
  the timer pops the form that was saved or nothing, unless "modify" pushed another over it.
* A document without its photo is one whose upload failed or that `delete()` was called for.
* Writes that are on disk reach the server in order, each at least once, none is lost by a
  crash, and the assertions of the write path cannot fail. Reads are answered once and in
  order.
* An address handed to the form is one of the same visit to the location screen.

Holds with an exception that the property names:

* **A deleted feed may come back.** The write stream's handshake carries no stream token, so a
  write whose acknowledgement was lost is sent and applied again. If another phone
  deleted the feed in between, it is back, without its photo (`DeletedStaysDeleted`,
  `Unconfirmed` in the catalogue). The saver's own phone is safe: its delete stands behind
  the save in its queue.
* **A kill loses what has not reached the disk.** Between `setData` or `delete()` and the run
  of its task on Firestore's worker queue (`FSTFirestoreClient.mm:388`) the write is in memory
  only. A save killed there leaves its photo without a document; a deletion killed there
  leaves the feed, and its photo may be gone all the same (`lost` in `DeletesReach` and
  `NoDanglingFeed`).
* **A refused query may leave later calls hanging.** When the server refuses the query after its
  last listener was removed, `ProcessTargetError` skips the target before its response is
  counted; from then on the snapshots of that stream are ignored (`refused` in
  `EveryCallAnswered`, `RequestsMatch`).
* **A call may wait without its ten seconds.** A call that joins a connection attempt begun for
  calls that are gone has no timer, since `UpdateState(Unknown)` cancelled it
  (`online_state_tracker.cc:43` says the wait is never indefinite); it waits until the
  attempt fails (`orphan` in `WaitsForGoodReason`).
* **A late photo may cover the right one.** The image view does not ask whether a download is still its
  own. One past stopping when its cell was bound anew lands; if the new row's photo came
  from the cache, the wrong one stays (`PhotoInPlace`).
* **A visit that had to ask for permission finds no address**, whatever the answer: nothing listens
  for it (`AskedForNothing`); "confirm" then erases the form's point.

Crashes the model reaches, as the two `CrashCauses` say: a tap on the point of a cell that
was never bound, while the lists are reloading; a "modify" whose row number is larger than
the new download; a place in no country, a geocoder error, a map's placemark without a
location.

Findings (the code does not do what its comments say):

* `form_blank`: the check for empty fields compares with `nil` and never fires
  (`AddFeedViewController.swift:86`).
* `form_photo`: a feed is saved although its photo could not be (`:84`).
* `form_modify`: the point "modify" filled in is erased as the form appears
  (`MainViewController.swift:145`).

## 5. Proofs

`tlapm` checks the proof modules to the last leaf; the only assumptions are the named
ASSUMEs on the constants (`MainFeed`: feeds are naturals, because dates are ordered,
and finitely many; `NoFeed` is none of them. `PointScreens`: the sea is among the places,
the empty text is not. `AddFeed`: the empty text is not among the texts a user enters,
`NoPhoto` is no photo, and "nothing in the mailbox" is no text. `RowImages`: `None` is no
photo. The bounds are naturals everywhere).

**MainFeedProofs.** None of the home screen's properties is inductive by itself: that a
cell is current depends on the row count being that of the lists, that on the
reload being still to come, and that "delete" hits its target depends on what was
true at the tap, two asynchronous steps earlier. `IInv` adds what is missing:
`RowsCurrent` (non-empty lists are those the table counted), `StaleHasReload` (a table
out of step has a list request pending), `TapSound` (a remembered tap agrees with the
list remembered with it), `RequestSound` (answers are in id order), `AloneOrEmpty`
(without overlap the pending list request is the only one and finds the lists empty).
`InvariantHolds` is `Spec => []IInv`, one step per action; `TypeCorrect`,
`ListsStayParallel`, `CellsStayCurrent`, `ListedOnce` follow from it, and
`DeleteRemovesTapped`, `ModifyShowsTapped`, `CrashesExplained` are action properties
proved from it.

**PointScreensProofs.** `MailIsOfItsVisit` and `PointIsOfItsVisit` rest on `NewestIsOpen` (one
screen at a time) and on every geocode naming a location that was told (in `TypeOK`).
Lemmas on `Append` and on replacing one visit carry them through the sequence of visits.

**AddFeedProofs.** Whether there is one save at a time depends on what lies over the form. The
inductive invariant says that a running save, unless its overlay was tapped away, keeps
the form locked (`Locked`) with the overlay or the saver itself on top of the stack
(`OnTop`); that a form being saved is the top screen or off the stack, but for one that
"modify" pushed over it (`Stacked`); that the form then keeps its texts until the document is written
(`TextsKept`); that two saves have different dates, because the later can only start when
the three seconds of the earlier are over (`DatesApart`, `Elapsed`); and that what Storage
and Firestore hold was put there by a save of that date (`Stamped`, `UploadsStored`). From
it follow `SingleFlight`, `PhotoBeforeFeed`, `NoStaleMail`, `WrittenAsShown` and, as action
properties, `FeedsKept`, `TimerPopsSaver` and `PointReachesAsker`, for any number of forms,
saves and seconds.

**RowImagesProofs.** `PhotoInPlace` is about one cell but is true because of the order of two
queues shared by all. The storage queue is serial: a download that was given up has its
cancellation there (`GivenUpIsCancelled`), behind its own start and before the start of the
cell's next (`WorkInOrder`), so of one cell's downloads at most one can be stopped
(`OneAtATime`). The main queue delivers in order
(`MainInOrder`), so of two that run past their cancellation the older lands first
(`OlderLandsFirst`).

**FeedSyncProofs.** `NoDanglingFeed` is about documents, but a document is written from a
queue that was filled by a completion that followed an upload, possibly restarts and
resends earlier. `PhotoInv` says that everything on that way is `Settled` (photo stored, upload
failed, or `delete()` called for it by somebody) and that photos are deleted only of feeds
somebody called it for. Lemmas on `Append` and `Tail` carry it through the worker queue and
the write queue. `QueuesImplemented` is the
refinement theorem that every phone's queue and the writes it has sent implement
`WriteQueue`.

The second half of the module is about the catalogue. `SavedOnce` says that a save is in one
place only, and is made inductive by `Traced`: whatever a phone has of a feed comes from its
own save or from the server, so no other phone can know of a feed before the server has it.
`SaveInv` is the two with `PhotoInv`. From it `CatalogueImplemented` shows, for any number of
phones, feeds and saves, that FeedSync implements FeedCatalogue: `SaveData` by a second
phone is *Share*, a `WriteLocally` of a save is *Announce*, what the server takes is *Post*,
*Remove* or changes nothing, an acknowledged save is *Confirm*, and every other step is a
stutter.

**FeedDeletionProofs.** `DeletedStaysDeleted` compares what a phone sees before and after a
step; that a feed whose deletion is on disk stays away rests on what the server did long
before. `Gone` says it:
once the server has taken a phone's delete, the feed is among the removed, and on the server
again only if it is `revived`, which for the phone's own save is impossible once the delete
was taken, as the save stood before it in the same queue (`SavedOnce`). The delicate part is a
query answered between a delete and its acknowledgement, whose documents the phone keeps
over its own write: it does so only for writes the server had taken (`newer`), so what it
keeps is later than the delete. `IInv` is `SaveInv` with `Gone`; `DeletionsLast` is
the property, step by step.

**WritePipelineProofs.** A response does not name its write; the code takes it for the head of
the pipeline. `IInv` says why that is right: on a stream that may write, what was answered
and what is still to be answered are the pipeline, in order (`ResponsesMatch`), before that
only the handshake is under way (`HandshakeFirst`), and the pipeline is the oldest part of
the queue (`PipelineIsOldest`). The proof states these of the values a step computes with
(`Oldest`, `Carries`, `Fits`), since every step that removes or adds a write ends in
`FillWritePipeline`; one lemma (`FillKeeps`) is about it and the others prepare its
hypotheses. With `QueueIsSuffix` and `ResultsTrue` it gives `NothingLost`, `NoAssertFails`,
`InOrder`, and the refinement `QueueImplemented`: with `QueuesImplemented` of FeedSyncProofs
it joins the client and the app's phones at WriteQueue. `kMaxPendingWrites` may be anything.

**GetDocumentsProofs.** That the app's reads are answered once and in order is nowhere in the
code: it follows from the order of a vector of listeners, of two queues, and from muting. `IInv`
has two halves. The stream's (`NoAssertFails`, `WaitsForGoodReason`, `RequestsMatch`,
`StreamKnown`) says what the client knows of the connection: a stream that is not open has
nothing of the server, and while the client does not know whether there is one, the timer or
the attempt of calls that are gone will tell. The calls' (`CallsInOrder`) follows each call from
the worker queue (`TasksInOrder`: behind the writes made before it, and behind older calls) to
the listeners (`ListenersInOrder`: an open call that has joined waits or has its event), to the
main queue (`EventsInOrder`: the first events of open calls come in the order of the calls, an
error is the last a call hears) and to its completion (`CompletedInOrder`: only a completed call
is muted, and one completed by an error is nowhere any more). Neither half is inductive without
the other: a snapshot for those who wait is in order only because all of them get it, which
needs that nobody waits in a view that is in sync or offline.

The proof states both halves of the values a step computes with (`StreamGood`; `TasksFit`,
`ListenersFit`, `EventsFit`, `DoneFit`), since `Deliver`, `Broadcast` and `Post` are nested in the
steps. One lemma per operator says what it does to the manager (`PostFacts`, `DeliverFacts`,
`BroadcastFacts`, `AmongFacts`); all steps but those of the two queues change the calls only by
telling listeners something (`Told`), and one lemma (`ToldStep`) shows that this keeps their
order. From `InvariantHolds` follow `AssertionsHold` and `WaitsHaveReasons`, and
`ReadsImplemented`: `GetDocuments` is *Ask*, `WriteFeed` is *Write*, an unmuted `ListenerRuns`
is *Complete* of the oldest call, a muted one is a stutter, and whatever any other step posts is
an *Answer* to the oldest calls that wait, without a gap (`PostAnswers`), or a stutter. With it every
refinement of section 2 is proved for all sizes. `Among` is defined by a recursive function;
where the proof needs induction (`AmongChosen`) it takes the least number for which the claim
fails (`Least`, from the library's well-founded order of the naturals), because the induction
theorems themselves take an operator.

Only model-checked: liveness under fairness (`TableCatchesUp`, `OverlayGoes`, `EverySaveWrites`,
`DeletesReach`, `EveryWriteSettles`, `EveryCallAnswered`, `EveryDownloadEnds`,
`AllowedVisitLocates`), which is out of the prover's reach. Every invariant and every other
action or refinement property of a passing run is a theorem.

## 6. Not modelled

* Pods other than the paths named above: transport, encryption, encoding, storage engines,
  image codecs, layout. They are the bulk of the repository's lines and the app uses them
  as they come; a model of them would not say anything about this program.
* Within the read path: documents in limbo, resume tokens and existence filters (they make
  a resumed snapshot cheaper or repair it, and the app never keeps a listener), other
  queries, and the pages of a large collection. Within the write path: transactions,
  users, the network switch.
* Drawing of the maps; layout, colours, resizing and compression of photos, logging.
* The users of different phones as such: there is no login, anybody deletes anything.

## 7. Plan

Done: all modules above, with every invariant, action property and refinement of their
passing runs proved. Next: MainFeed and AddFeed composed over the shared navigation stack
and document set.
