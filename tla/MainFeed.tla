------------------------------ MODULE MainFeed ------------------------------
(***************************************************************************)
(* The home screen: MainViewController, the shared FeedDataManager it      *)
(* fills, and the table cells that show it.                                *)
(*                                                                         *)
(* Everything here runs on the main queue, but getDocuments() does not     *)
(* answer at once: every request is a record in `requests` that Firestore  *)
(* answers (on its own queue) and whose completion handler runs later,     *)
(* after whatever the user did in between.  Firestore keeps the listeners  *)
(* of one query in a vector and hands results to them in that order, so    *)
(* requests are answered and completed first in, first out.                *)
(*                                                                         *)
(* Rows and tags are numbered from 0 as in the source; sequences from 1.   *)
(***************************************************************************)
EXTENDS Naturals, Sequences, FiniteSets, SequencesExt

CONSTANTS
    Feeds,        \* document ids; dates in the source, so ordered by time
    Cells,        \* the table's reusable MainTableViewCell objects
    NoFeed,       \* the content of labels nobody has set
    MaxRequests,  \* bound on getDocuments() calls in flight
    MaxTaps       \* bound on those of them a "modify" or "delete" made

ASSUME FeedsAssumption == Feeds \subseteq Nat /\ IsFiniteSet(Feeds)
ASSUME NoFeedAssumption == NoFeed \notin Feeds
ASSUME BoundsAssumption == MaxRequests \in Nat \ {0} /\ MaxTaps \in Nat

VARIABLES
    docs,          \* the "feeds" collection as this client's Firestore sees it
    allFeedData,   \* FeedDataManager.allFeedData, by document id
    allImageData,  \* FeedDataManager.allImageData, by image name (= document id)
    tableRows,     \* the row count the table took at its last reloadData()
    cells,         \* per cell: where it is, its row, actionButton.tag, its labels
    requests,      \* queue of getDocuments() calls in flight
    sheet,         \* <<>> or <<tap>>: the action sheet a more button opened
    nav,           \* navigation stack above the home screen
    overlapped,    \* history: a list request was pending at the last getData()
    trap           \* why the process died, "none" while it runs

table == <<allFeedData, allImageData, tableRows, cells>>
vars == <<docs, table, requests, sheet, nav, overlapped, trap>>

(***************************************************************************)
(* Data.  A tap keeps what the action sheet's closures captured (the tag)  *)
(* and, as history, the feed the row showed and the list in memory then.   *)
(***************************************************************************)
Labels == Feeds \cup {NoFeed}
Cell == [place : {"unmade", "pooled", "shown"}, row : Nat, tag : Nat, label : Labels]
Tap == [num : Nat, feed : Labels, list : Seq(Feeds)]
Request == [kind : {"list", "modify", "delete"}, tap : Tap,
            status : {"asked", "answered", "failed"}, documents : Seq(Feeds)]
Screen == [view : {"add", "map"}, feed : Labels]

NoTap == [num |-> 0, feed |-> NoFeed, list |-> <<>>]
Ask(kind, tap) ==
    [kind |-> kind, tap |-> tap, status |-> "asked", documents |-> <<>>]

\* The one sequence of S in document-id order: what getDocuments() returns.
Snapshots(S) ==
    {s \in [1..Cardinality(S) -> S] : \A i, j \in DOMAIN s : i < j => s[i] < s[j]}

Shown(c) == cells[c].place = "shown"
Pooled(c) == [cells[c] EXCEPT !.place = "pooled", !.row = 0]
OnHome == nav = <<>> /\ sheet = <<>> /\ trap = "none"

\* Mutants of getData(): only one of the two lists is forgotten.
GetDataKeepsImages(q) ==
    /\ allFeedData' = <<>> /\ UNCHANGED allImageData
    /\ requests' = Append(q, Ask("list", NoTap))
    /\ overlapped' = \E i \in DOMAIN q : q[i].kind = "list"

GetDataKeepsFeeds(q) ==
    /\ allImageData' = <<>> /\ UNCHANGED allFeedData
    /\ requests' = Append(q, Ask("list", NoTap))
    /\ overlapped' = \E i \in DOMAIN q : q[i].kind = "list"

(***************************************************************************)
(* getData(): forget both lists at once, ask for the collection; q is the  *)
(* queue the new request joins.                                            *)
(***************************************************************************)
GetData(q) ==
    /\ allFeedData' = <<>>
    /\ allImageData' = <<>>
    /\ requests' = Append(q, Ask("list", NoTap))
    /\ overlapped' = \E i \in DOMAIN q : q[i].kind = "list"

\* Mutant of the reload: not after an error.
ReloadOnSuccess(n) ==
    IF Head(requests).status = "failed"
    THEN UNCHANGED <<tableRows, cells>>
    ELSE /\ tableRows' = n
         /\ cells' = [c \in Cells |-> IF Shown(c) THEN Pooled(c) ELSE cells[c]]

\* reloadData(): take the new row count, give every visible cell back.
ReloadData(n) ==
    /\ tableRows' = n
    /\ cells' = [c \in Cells |-> IF Shown(c) THEN Pooled(c) ELSE cells[c]]

\* A started app: viewWillAppear has called getData() on the empty lists.
Unmade == [place |-> "unmade", row |-> 0, tag |-> 0, label |-> NoFeed]

Init ==
    /\ docs \in SUBSET Feeds
    /\ allFeedData = <<>> /\ allImageData = <<>>
    /\ tableRows = 0
    /\ cells = [c \in Cells |-> Unmade]
    /\ requests = <<Ask("list", NoTap)>>
    /\ sheet = <<>> /\ nav = <<>>
    /\ overlapped = FALSE
    /\ trap = "none"

-----------------------------------------------------------------------------
(***************************************************************************)
(* Firestore, and the other users of the collection.                       *)
(***************************************************************************)

\* A document saved here or on another phone becomes visible to this client.
FeedPosted(d) ==
    /\ d \notin docs
    /\ docs' = docs \cup {d}
    /\ UNCHANGED <<table, requests, sheet, nav, overlapped, trap>>

\* Another phone deleted a document.
FeedRemoved(d) ==
    /\ d \in docs
    /\ docs' = docs \ {d}
    /\ UNCHANGED <<table, requests, sheet, nav, overlapped, trap>>

\* The oldest unanswered getDocuments() gets its snapshot or its error.
Answer ==
    \E i \in DOMAIN requests :
        /\ trap = "none"
        /\ requests[i].status = "asked"
        /\ \A j \in 1..(i-1) : requests[j].status # "asked"
        /\ \/ \E s \in Snapshots(docs) :
                requests' = [requests EXCEPT ![i].status = "answered", ![i].documents = s]
           \/ requests' = [requests EXCEPT ![i].status = "failed"]
        /\ UNCHANGED <<docs, table, sheet, nav, overlapped, trap>>

-----------------------------------------------------------------------------
(***************************************************************************)
(* Completion handlers of getDocuments(), one per caller.                  *)
(***************************************************************************)
Ready(kind) ==
    /\ trap = "none"
    /\ requests # <<>>
    /\ Head(requests).kind = kind
    /\ Head(requests).status # "asked"

\* getData()'s handler appends newest first, and reloads on an error too (a
\* failed request has no documents).
ListCallback ==
    LET downloaded == Reverse(Head(requests).documents) IN
    /\ Ready("list")
    /\ allFeedData' = allFeedData \o downloaded
    /\ allImageData' = allImageData \o downloaded
    /\ ReloadData(Len(allFeedData) + Len(downloaded))
    /\ requests' = Tail(requests)
    /\ UNCHANGED <<docs, sheet, nav, overlapped, trap>>

\* "modify" counts down from the newest document (mutant: up from the oldest).
ModifyCountsUp(request) == request.tap.num + 1
ModifyPosition(request) == Len(request.documents) - request.tap.num

\* "modify": documents[count - num] fills a new form, pushed over whatever
\* screen is on top by now; an index below 0 traps.
ModifyCallback ==
    LET request == Head(requests)
        position == ModifyPosition(request) IN
    /\ Ready("modify")
    /\ requests' = Tail(requests)
    /\ \/ request.status = "failed" /\ UNCHANGED <<nav, trap>>
       \/ /\ request.status = "answered" /\ position \in DOMAIN request.documents
          /\ nav' = Append(nav, [view |-> "add", feed |-> request.documents[position]])
          /\ UNCHANGED trap
       \/ /\ request.status = "answered" /\ position \notin DOMAIN request.documents
          /\ trap' = "documentIndex"
          /\ UNCHANGED nav
    /\ UNCHANGED <<docs, table, sheet, overlapped>>

\* Mutant: the loop runs over the documents as they came, oldest first.
DoomedUnreversed(request) ==
    {request.documents[i] : i \in {k \in DOMAIN request.documents : k = request.tap.num + 1}}

\* The documents whose position in the reversed snapshot is num: at most one.
Doomed(request) ==
    {Reverse(request.documents)[i] :
        i \in {k \in DOMAIN request.documents : k = request.tap.num + 1}}

\* "delete": the num-th newest document goes (Firestore shows its own writes to
\* the next query at once), then getData() whether or not one was found.
DeleteCallback ==
    /\ Ready("delete")
    /\ \/ /\ Head(requests).status = "failed"
          /\ requests' = Tail(requests)
          /\ UNCHANGED <<docs, allFeedData, allImageData, overlapped>>
       \/ /\ Head(requests).status = "answered"
          /\ docs' = docs \ Doomed(Head(requests))
          /\ GetData(Tail(requests))
    /\ UNCHANGED <<tableRows, cells, sheet, nav, trap>>

-----------------------------------------------------------------------------
(***************************************************************************)
(* The table and the user.                                                 *)
(***************************************************************************)

\* What cellForRowAt sets on a cell for row r (mutant: the tag is forgotten).
BoundUntagged(c, r) ==
    [cells[c] EXCEPT !.place = "shown", !.row = r, !.label = allFeedData[r + 1]]
Bound(c, r) ==
    [place |-> "shown", row |-> r, tag |-> r, label |-> allFeedData[r + 1]]

\* cellForRowAt: row r scrolls in.  A pooled cell is reused before a new one is
\* made.  With no images in memory the cell is returned as it was; otherwise
\* both lists are indexed, and an index past either end traps.
ShowRow(c, r) ==
    /\ nav = <<>> /\ trap = "none"
    /\ r < tableRows
    /\ \A o \in Cells : Shown(o) => cells[o].row # r
    /\ \/ cells[c].place = "pooled"
       \/ cells[c].place = "unmade" /\ \A o \in Cells : cells[o].place # "pooled"
    /\ \/ /\ allImageData = <<>>
          /\ cells' = [cells EXCEPT ![c].place = "shown", ![c].row = r]
          /\ UNCHANGED trap
       \/ /\ allImageData # <<>> /\ r < Len(allImageData) /\ r < Len(allFeedData)
          /\ cells' = [cells EXCEPT ![c] = Bound(c, r)]
          /\ UNCHANGED trap
       \/ /\ allImageData # <<>> /\ (r >= Len(allImageData) \/ r >= Len(allFeedData))
          /\ trap' = "cellForRow"
          /\ UNCHANGED cells
    /\ UNCHANGED <<docs, allFeedData, allImageData, tableRows, requests, sheet, nav, overlapped>>

\* A row scrolls out; its cell keeps its content for the next dequeue.
HideRow(c) ==
    /\ nav = <<>> /\ trap = "none"
    /\ Shown(c)
    /\ cells' = [cells EXCEPT ![c] = Pooled(c)]
    /\ UNCHANGED <<docs, allFeedData, allImageData, tableRows, requests, sheet, nav,
                   overlapped, trap>>

\* moreButtonDidTap -> alertActionSheet(sender.tag).
MoreButtonDidTap(c) ==
    /\ OnHome
    /\ Shown(c)
    /\ sheet' = <<[num |-> cells[c].tag, feed |-> cells[c].label, list |-> allFeedData]>>
    /\ UNCHANGED <<docs, table, requests, nav, overlapped, trap>>

\* The sheet's "modify" and "delete" buttons download the collection again.
Choose(kind) ==
    /\ trap = "none"
    /\ sheet # <<>>
    /\ Len(requests) < MaxRequests
    /\ Cardinality({i \in DOMAIN requests : requests[i].kind # "list"}) < MaxTaps
    /\ requests' = Append(requests, Ask(kind, Head(sheet)))
    /\ sheet' = <<>>
    /\ UNCHANGED <<docs, table, nav, overlapped, trap>>

Cancel ==
    /\ trap = "none"
    /\ sheet # <<>>
    /\ sheet' = <<>>
    /\ UNCHANGED <<docs, table, requests, nav, overlapped, trap>>

\* pointBtnDidTap -> presentMapView(pointBtn.text!): nil text traps.
PointBtnDidTap(c) ==
    /\ OnHome
    /\ Shown(c)
    /\ \/ /\ cells[c].label # NoFeed
          /\ nav' = <<[view |-> "map", feed |-> NoFeed]>>
          /\ UNCHANGED trap
       \/ /\ cells[c].label = NoFeed
          /\ trap' = "pointText"
          /\ UNCHANGED nav
    /\ UNCHANGED <<docs, table, requests, sheet, overlapped>>

PlusButtonDidTap ==
    /\ OnHome
    /\ nav' = <<[view |-> "add", feed |-> NoFeed]>>
    /\ UNCHANGED <<docs, table, requests, sheet, overlapped, trap>>

\* Screens are popped: the back button or the form's own pop takes the top one,
\* a tap on the tab bar all of them.  Uncovering the home screen calls getData().
Pop(k) ==
    /\ trap = "none"
    /\ nav' = SubSeq(nav, 1, k)
    /\ \/ k = 0 /\ Len(requests) < MaxRequests /\ GetData(requests)
       \/ k > 0 /\ UNCHANGED <<allFeedData, allImageData, requests, overlapped>>
    /\ UNCHANGED <<docs, tableRows, cells, sheet, trap>>

\* A swipe back that is let go half way: viewWillAppear ran, nothing was popped.
SwipeCancelled ==
    /\ trap = "none" /\ sheet = <<>> /\ Len(nav) = 1
    /\ Len(requests) < MaxRequests
    /\ GetData(requests)
    /\ UNCHANGED <<docs, tableRows, cells, sheet, nav, trap>>

\* After a trap the user starts the app again; nothing of it was persisted.
Relaunch ==
    /\ trap # "none"
    /\ GetData(<<>>)
    /\ tableRows' = 0
    /\ cells' = [c \in Cells |-> Unmade]
    /\ sheet' = <<>> /\ nav' = <<>>
    /\ trap' = "none"
    /\ UNCHANGED docs

-----------------------------------------------------------------------------
Callback == ListCallback \/ ModifyCallback \/ DeleteCallback

Next ==
    \/ \E d \in Feeds : FeedPosted(d) \/ FeedRemoved(d)
    \/ Answer
    \/ Callback
    \/ \E c \in Cells : HideRow(c) \/ MoreButtonDidTap(c) \/ PointBtnDidTap(c)
    \/ \E c \in Cells, r \in 0..(tableRows - 1) : ShowRow(c, r)
    \/ \E k \in {0, Len(nav) - 1} : nav # <<>> /\ Pop(k)
    \/ \E kind \in {"modify", "delete"} : Choose(kind)
    \/ Cancel \/ PlusButtonDidTap \/ SwipeCancelled \/ Relaunch

Spec == Init /\ [][Next]_vars

\* Firestore answers every query (from its cache when it is offline) and the
\* main queue runs what was dispatched to it.  The user owes nothing.
FairSpec == Spec /\ WF_vars(Answer) /\ WF_vars(Callback)

-----------------------------------------------------------------------------
(***************************************************************************)
(* Properties.                                                             *)
(***************************************************************************)

\* The values every variable takes.
TypeOK ==
    /\ docs \in SUBSET Feeds
    /\ allFeedData \in Seq(Feeds)
    /\ allImageData \in Seq(Feeds)
    /\ tableRows \in Nat
    /\ cells \in [Cells -> Cell]
    /\ requests \in Seq(Request)
    /\ sheet \in Seq(Tap) /\ Len(sheet) <= 1
    /\ nav \in Seq(Screen)
    /\ overlapped \in BOOLEAN
    /\ trap \in {"none", "cellForRow", "documentIndex", "pointText"}

\* The two lists of FeedDataManager, filled by two append() calls and indexed by
\* one row number in cellForRowAt, stay parallel: no feed shows another's photo.
ListsParallel == allImageData = allFeedData

\* Once the lists are back from an emptying getData(), every visible cell has been
\* bound to them again: its tag is its row and its labels are that row's feed, so
\* no cell filled before the reload, or left as it was by cellForRowAt's empty
\* branch, is still on screen.
CellsCurrent ==
    allFeedData # <<>> =>
        \A c \in Cells : Shown(c) =>
            /\ cells[c].row < Len(allFeedData)
            /\ cells[c].tag = cells[c].row
            /\ cells[c].label = allFeedData[cells[c].row + 1]

\* When getData() did not overlap an earlier one, its handler fills an empty list
\* and the screen has every feed at most once, newest first.  (Overlapping calls
\* append one copy each: viewWillAppear and delete both start one at any time.)
NoDuplicates ==
    ~overlapped => \A i, j \in DOMAIN allFeedData : i < j => allFeedData[i] > allFeedData[j]

\* The process dies only where it must: cellForRowAt never indexes past a list,
\* although lists and table are out of step from getData() to reloadData(); a nil
\* point label is tapped only while the lists are being reloaded; and "modify"
\* runs below index 0 only if the collection is no longer the one on screen.
CrashCauses ==
    [][trap = "none" /\ trap' # "none" =>
          \/ trap' = "pointText" /\ allFeedData = <<>>
          \/ /\ trap' = "documentIndex"
             /\ \/ Head(requests).tap.list = <<>>
                \/ Head(requests).tap.list # Reverse(Head(requests).documents)]_vars

\* The collection a handler downloaded is the one its tap saw on screen.
SeenAtTap(request) ==
    request.tap.list # <<>> /\ request.tap.list = Reverse(request.documents)

\* The handler of "delete", given the collection that was on screen when the more
\* button was tapped, deletes the feed that row showed and no other.  Tag, cell and
\* lists may all have changed since: what counts is that they agreed at the tap.
DeleteHitsTarget ==
    [][DeleteCallback /\ Head(requests).status = "answered" /\ SeenAtTap(Head(requests))
        => docs' = docs \ {Head(requests).tap.feed}]_vars

\* So does "modify", which counts down from the last document where "delete" counts
\* up in the reversed ones: the form it pushes is filled with the feed tapped on.
ModifyHitsTarget ==
    [][ModifyCallback /\ SeenAtTap(Head(requests))
        => nav' = Append(nav, [view |-> "add", feed |-> Head(requests).tap.feed])]_vars

\* The table is never left showing row counts of lists that are gone: every getData()
\* is followed by a reloadData(), whatever the query answers, unless the app dies.
TableCatchesUp ==
    (tableRows # Len(allFeedData)) ~> (tableRows = Len(allFeedData) \/ trap # "none")

-----------------------------------------------------------------------------
(***************************************************************************)
(* The inductive invariant behind the properties above.                    *)
(***************************************************************************)
Pending(kind) == \E i \in DOMAIN requests : requests[i].kind = kind

\* Non-empty lists are those the table counted at its last reload.
RowsCurrent == allFeedData # <<>> => tableRows = Len(allFeedData)

\* A table out of step with the lists has a reload coming.
StaleHasReload == tableRows # Len(allFeedData) => Pending("list")

\* A tap on a row of loaded lists holds that row's number and that row's feed.
TapSound(tap) ==
    tap.list # <<>> =>
        tap.num < Len(tap.list) /\ tap.feed = tap.list[tap.num + 1]

Ascending(s) == \A i, j \in DOMAIN s : i < j => s[i] < s[j]

\* Answers are snapshots in id order; there is none before the answer.
RequestSound(request) ==
    /\ TapSound(request.tap)
    /\ Ascending(request.documents)
    /\ request.status # "answered" => request.documents = <<>>

\* Without overlap a list request is alone, and finds the lists empty.
AloneOrEmpty ==
    ~overlapped =>
        /\ Pending("list") => allFeedData = <<>>
        /\ \A i, j \in DOMAIN requests :
              requests[i].kind = "list" /\ requests[j].kind = "list" => i = j

IInv ==
    /\ TypeOK
    /\ ListsParallel
    /\ RowsCurrent
    /\ CellsCurrent
    /\ StaleHasReload
    /\ \A i \in DOMAIN sheet : TapSound(sheet[i])
    /\ \A i \in DOMAIN requests : RequestSound(requests[i])
    /\ AloneOrEmpty
    /\ NoDuplicates

=============================================================================
