--------------------------- MODULE MainFeedProofs ---------------------------
(***************************************************************************)
(* Proofs about the home screen, for every finite set of feeds, every set  *)
(* of cells and every bound on the requests in flight.                     *)
(***************************************************************************)
EXTENDS MainFeed, SequenceTheorems, FiniteSetTheorems, TLAPS

-----------------------------------------------------------------------------
(***************************************************************************)
(* Lemmas about the operators.                                             *)
(***************************************************************************)

\* Reversing keeps the length and mirrors the positions.
LEMMA ReverseProperties ==
    ASSUME NEW S, NEW s \in Seq(S)
    PROVE  /\ Reverse(s) \in Seq(S)
           /\ Len(Reverse(s)) = Len(s)
           /\ \A i \in 1..Len(s) : Reverse(s)[i] = s[Len(s) - i + 1]
           /\ Reverse(s) = <<>> <=> s = <<>>
<1>1. Len(s) \in Nat /\ \A i \in 1..Len(s) : Len(s) - i + 1 \in 1..Len(s)
  BY LenProperties
<1>2. \A i \in 1..Len(s) : s[Len(s) - i + 1] \in S
  BY <1>1, ElementOfSeq
<1>3. Reverse(s) \in Seq(S) /\ Len(Reverse(s)) = Len(s)
  BY <1>1, <1>2 DEF Reverse
<1> QED  BY <1>1, <1>3 DEF Reverse

\* A snapshot is a sequence of feeds in ascending order.
LEMMA SnapshotProperties ==
    ASSUME NEW S \in SUBSET Feeds, NEW s \in Snapshots(S)
    PROVE  s \in Seq(Feeds) /\ Ascending(s)
<1>1. Cardinality(S) \in Nat
  BY FeedsAssumption, FS_Subset, FS_CardinalityType
<1>2. s \in [1..Cardinality(S) -> S]  BY DEF Snapshots
<1>3. s \in Seq(Feeds)  BY <1>1, <1>2
<1> QED  BY <1>3 DEF Snapshots, Ascending

\* Asking puts a request at the end of the queue and leaves the others alone.
LEMMA AskProperties ==
    ASSUME NEW q \in Seq(Request), NEW tap \in Tap,
           NEW kind \in {"list", "modify", "delete"}
    PROVE  LET r == Append(q, Ask(kind, tap)) IN
           /\ Ask(kind, tap) \in Request
           /\ r \in Seq(Request)
           /\ DOMAIN r = 1..(Len(q) + 1)
           /\ \A i \in DOMAIN q : i \in DOMAIN r /\ r[i] = q[i]
           /\ r[Len(q) + 1] = Ask(kind, tap)
           /\ \A i \in DOMAIN r : i \in DOMAIN q \/ i = Len(q) + 1
<1>1. Ask(kind, tap) \in Request  BY DEF Ask, Request
<1> QED  BY <1>1

\* The head leaves the queue and the others move up one place.
LEMMA TailProperties ==
    ASSUME NEW q \in Seq(Request), q # <<>>
    PROVE  /\ 1 \in DOMAIN q /\ q[1] = Head(q) /\ Head(q) \in Request
           /\ Tail(q) \in Seq(Request)
           /\ \A i \in DOMAIN Tail(q) :
                i \in Nat \ {0} /\ i + 1 \in DOMAIN q /\ Tail(q)[i] = q[i + 1]
           /\ \A i \in DOMAIN q : i # 1 => i - 1 \in DOMAIN Tail(q) /\ Tail(q)[i - 1] = q[i]
BY HeadTailProperties, LenProperties

\* No tap and empty lists: what getData() asks with.
LEMMA NoTapProperties ==
    /\ NoTap \in Tap
    /\ TapSound(NoTap)
<1>1. <<>> \in Seq(Feeds)  OBVIOUS
<1> QED  BY <1>1 DEF NoTap, Tap, TapSound, Labels

-----------------------------------------------------------------------------
(***************************************************************************)
(* The parts of the invariant each operator keeps.                         *)
(***************************************************************************)
RequestsOK == requests \in Seq(Request) /\ \A i \in DOMAIN requests : RequestSound(requests[i])

\* getData(), over a queue q of sound requests, re-establishes everything that
\* speaks of lists and requests.
LEMMA GetDataStep ==
    ASSUME NEW q \in Seq(Request), \A i \in DOMAIN q : RequestSound(q[i]),
           GetData(q)
    PROVE  /\ allFeedData' = <<>> /\ allImageData' = <<>>
           /\ overlapped' \in BOOLEAN
           /\ RequestsOK'
           /\ Pending("list")'
           /\ AloneOrEmpty'
           /\ NoDuplicates'
<1> DEFINE r == Append(q, Ask("list", NoTap))
<1>1. allFeedData' = <<>> /\ allImageData' = <<>> /\ requests' = r
      /\ overlapped' = (\E i \in DOMAIN q : q[i].kind = "list")
  BY DEF GetData
<1>2. /\ r \in Seq(Request)
      /\ DOMAIN r = 1..(Len(q) + 1)
      /\ \A i \in DOMAIN q : i \in DOMAIN r /\ r[i] = q[i]
      /\ r[Len(q) + 1] = Ask("list", NoTap)
      /\ \A i \in DOMAIN r : i \in DOMAIN q \/ i = Len(q) + 1
  BY AskProperties, NoTapProperties
<1>3. RequestSound(Ask("list", NoTap))
  BY NoTapProperties DEF RequestSound, Ask, Ascending
<1> HIDE DEF r
<1>4. RequestsOK'
  BY <1>1, <1>2, <1>3 DEF RequestsOK
<1>5. Len(q) + 1 \in DOMAIN r /\ r[Len(q) + 1].kind = "list"
  BY <1>2 DEF Ask
<1>6. Pending("list")'
  BY <1>1, <1>5 DEF Pending
<1>7. AloneOrEmpty'
  BY <1>1, <1>2 DEF AloneOrEmpty
<1>8. NoDuplicates'
  BY <1>1 DEF NoDuplicates
<1> QED  BY <1>1, <1>4, <1>6, <1>7, <1>8

\* The handler takes its request off the queue: what is left stays sound.
LEMMA TailSound ==
    ASSUME RequestsOK, requests # <<>>
    PROVE  /\ Tail(requests) \in Seq(Request)
           /\ \A i \in DOMAIN Tail(requests) : RequestSound(Tail(requests)[i])
           /\ Head(requests) \in Request /\ RequestSound(Head(requests))
BY TailProperties DEF RequestsOK

\* A queue that lost only a request of another kind keeps its list requests.
LEMMA TailPending ==
    ASSUME RequestsOK, requests # <<>>, Head(requests).kind # "list",
           requests' = Tail(requests), UNCHANGED <<allFeedData, overlapped>>
    PROVE  /\ RequestsOK'
           /\ Pending("list") => Pending("list")'
           /\ AloneOrEmpty => AloneOrEmpty'
<1>1. /\ 1 \in DOMAIN requests /\ requests[1] = Head(requests)
      /\ \A i \in DOMAIN Tail(requests) :
           i \in Nat \ {0} /\ i + 1 \in DOMAIN requests /\ Tail(requests)[i] = requests[i + 1]
      /\ \A i \in DOMAIN requests :
           i # 1 => i - 1 \in DOMAIN Tail(requests) /\ Tail(requests)[i - 1] = requests[i]
  BY TailProperties DEF RequestsOK
<1>2. RequestsOK'  BY TailSound DEF RequestsOK
<1>3. Pending("list") => Pending("list")'  BY <1>1 DEF Pending
<1>4. AloneOrEmpty => AloneOrEmpty'
  <2> SUFFICES ASSUME AloneOrEmpty, ~overlapped
               PROVE  /\ Pending("list")' => allFeedData = <<>>
                      /\ \A i, j \in DOMAIN Tail(requests) :
                           Tail(requests)[i].kind = "list" /\ Tail(requests)[j].kind = "list" => i = j
    BY DEF AloneOrEmpty
  <2>1. Pending("list")' => Pending("list")  BY <1>1 DEF Pending
  <2>2. ASSUME NEW i \in DOMAIN Tail(requests), NEW j \in DOMAIN Tail(requests),
               Tail(requests)[i].kind = "list", Tail(requests)[j].kind = "list"
        PROVE  i = j
    <3>1. i + 1 = j + 1  BY <1>1, <2>2 DEF AloneOrEmpty
    <3>2. i \in Nat /\ j \in Nat  BY <1>1
    <3> QED  BY <3>1, <3>2
  <2> QED  BY <2>1, <2>2 DEF AloneOrEmpty
<1> QED  BY <1>2, <1>3, <1>4

\* A queue that gained a request of another kind.
LEMMA ChoosePending ==
    ASSUME RequestsOK, NEW tap \in Tap, TapSound(tap), NEW kind \in {"modify", "delete"},
           requests' = Append(requests, Ask(kind, tap)), UNCHANGED <<allFeedData, overlapped>>
    PROVE  /\ RequestsOK'
           /\ Pending("list") => Pending("list")'
           /\ AloneOrEmpty => AloneOrEmpty'
<1>1. /\ requests' \in Seq(Request)
      /\ \A i \in DOMAIN requests : i \in DOMAIN requests' /\ requests'[i] = requests[i]
      /\ requests'[Len(requests) + 1] = Ask(kind, tap)
      /\ \A i \in DOMAIN requests' : i \in DOMAIN requests \/ i = Len(requests) + 1
  BY AskProperties DEF RequestsOK
<1>2. RequestSound(Ask(kind, tap))  BY DEF RequestSound, Ask, Ascending
<1>3. RequestsOK'  BY <1>1, <1>2 DEF RequestsOK
<1>4. Pending("list") => Pending("list")'  BY <1>1 DEF Pending
<1>5. \A i \in DOMAIN requests' : requests'[i].kind = "list" => i \in DOMAIN requests
  BY <1>1 DEF Ask
<1>6. AloneOrEmpty => AloneOrEmpty'
  BY <1>1, <1>5 DEF AloneOrEmpty, Pending
<1> QED  BY <1>3, <1>4, <1>6

-----------------------------------------------------------------------------
(***************************************************************************)
(* The invariant is inductive: one lemma per handler that touches lists,   *)
(* cells or taps, then one step per action.                                *)
(***************************************************************************)

\* getData()'s handler appends a descending run to both lists and reloads.
LEMMA ListCallbackStep == IInv /\ ListCallback => IInv'
<1> SUFFICES ASSUME IInv, ListCallback  PROVE IInv'
  OBVIOUS
<1> DEFINE downloaded == Reverse(Head(requests).documents)
<1>1. /\ requests # <<>> /\ Head(requests).kind = "list"
      /\ allFeedData' = allFeedData \o downloaded
      /\ allImageData' = allImageData \o downloaded
      /\ tableRows' = Len(allFeedData) + Len(downloaded)
      /\ cells' = [c \in Cells |-> IF Shown(c) THEN Pooled(c) ELSE cells[c]]
      /\ requests' = Tail(requests)
      /\ UNCHANGED <<docs, sheet, nav, overlapped, trap>>
  BY DEF ListCallback, Ready, ReloadData
<1>2. RequestsOK  BY DEF IInv, TypeOK, RequestsOK
<1>3. /\ Tail(requests) \in Seq(Request)
      /\ \A i \in DOMAIN Tail(requests) : RequestSound(Tail(requests)[i])
      /\ Head(requests) \in Request /\ RequestSound(Head(requests))
  BY <1>1, <1>2, TailSound
<1>4. /\ 1 \in DOMAIN requests /\ requests[1] = Head(requests)
      /\ \A i \in DOMAIN Tail(requests) :
           i \in Nat \ {0} /\ i + 1 \in DOMAIN requests /\ Tail(requests)[i] = requests[i + 1]
  BY <1>1, <1>2, TailProperties DEF RequestsOK
<1>5. /\ Head(requests).documents \in Seq(Feeds)
      /\ Ascending(Head(requests).documents)
  BY <1>3 DEF Request, RequestSound
<1>6. /\ downloaded \in Seq(Feeds)
      /\ Len(downloaded) = Len(Head(requests).documents)
      /\ \A i \in 1..Len(downloaded) :
           downloaded[i] = Head(requests).documents[Len(downloaded) - i + 1]
  BY <1>5, ReverseProperties
<1> HIDE DEF downloaded
<1>7. allFeedData \in Seq(Feeds) /\ allImageData = allFeedData
  BY DEF IInv, TypeOK, ListsParallel
<1>8. /\ allFeedData' \in Seq(Feeds)
      /\ Len(allFeedData') = Len(allFeedData) + Len(downloaded)
      /\ allImageData' = allFeedData'
  BY <1>1, <1>6, <1>7, ConcatProperties
<1>9. cells' \in [Cells -> Cell] /\ \A c \in Cells : cells'[c].place # "shown"
  BY <1>1 DEF IInv, TypeOK, Shown, Pooled, Cell
<1>10. TypeOK'
  BY <1>1, <1>3, <1>6, <1>7, <1>8, <1>9, LenProperties DEF IInv, TypeOK
<1>11. RowsCurrent' /\ StaleHasReload' /\ CellsCurrent' /\ ListsParallel'
  BY <1>1, <1>8, <1>9 DEF RowsCurrent, StaleHasReload, CellsCurrent, ListsParallel, Shown
<1>12. ~overlapped => allFeedData = <<>>
  BY <1>1, <1>4 DEF IInv, AloneOrEmpty, Pending
<1>13. AloneOrEmpty'
  <2>1. ASSUME ~overlapped, NEW i \in DOMAIN Tail(requests)
        PROVE  Tail(requests)[i].kind # "list"
    BY <1>1, <1>4, <2>1 DEF IInv, AloneOrEmpty
  <2> QED  BY <1>1, <2>1 DEF AloneOrEmpty, Pending
<1>14. NoDuplicates'
  <2> SUFFICES ASSUME ~overlapped, NEW i \in DOMAIN allFeedData', NEW j \in DOMAIN allFeedData',
                      i < j
               PROVE  allFeedData'[i] > allFeedData'[j]
    BY <1>1 DEF NoDuplicates
  <2>1. allFeedData' = downloaded
    BY <1>1, <1>6, <1>12, ConcatEmptySeq
  <2>2. i \in 1..Len(downloaded) /\ j \in 1..Len(downloaded)
    BY <1>6, <2>1, LenProperties
  <2> DEFINE k == Len(downloaded) - j + 1
             l == Len(downloaded) - i + 1
  <2>3. /\ Len(downloaded) \in Nat
        /\ DOMAIN Head(requests).documents = 1..Len(downloaded)
    BY <1>5, <1>6, LenProperties
  <2>4. k \in DOMAIN Head(requests).documents /\ l \in DOMAIN Head(requests).documents /\ k < l
    BY <2>2, <2>3
  <2>5. Head(requests).documents[k] < Head(requests).documents[l]
    BY <1>5, <2>4 DEF Ascending
  <2>6. \A n \in DOMAIN Head(requests).documents : Head(requests).documents[n] \in Nat
    BY <1>5, ElementOfSeq, LenProperties, FeedsAssumption
  <2> QED  BY <1>6, <2>1, <2>2, <2>4, <2>5, <2>6
<1>15. (\A i \in DOMAIN sheet : TapSound(sheet[i]))'
  BY <1>1 DEF IInv
<1>16. (\A i \in DOMAIN requests : RequestSound(requests[i]))'
  BY <1>1, <1>3
<1> QED  BY <1>8, <1>10, <1>11, <1>13, <1>14, <1>15, <1>16 DEF IInv

\* getData(), called by a step that leaves table, sheet and the type of the other
\* variables alone.
LEMMA AppearStep ==
    ASSUME IInv, NEW q \in Seq(Request), \A i \in DOMAIN q : RequestSound(q[i]),
           GetData(q), docs' \in SUBSET Feeds, nav' \in Seq(Screen),
           trap' \in {"none", "cellForRow", "documentIndex", "pointText"},
           sheet' = sheet, tableRows' = tableRows, cells' = cells
    PROVE  IInv'
<1>1. /\ allFeedData' = <<>> /\ allImageData' = <<>>
      /\ overlapped' \in BOOLEAN
      /\ RequestsOK' /\ Pending("list")' /\ AloneOrEmpty' /\ NoDuplicates'
  BY GetDataStep
<1>2. TypeOK'  BY <1>1, EmptySeq DEF IInv, TypeOK, RequestsOK
<1>3. ListsParallel' /\ RowsCurrent' /\ CellsCurrent' /\ StaleHasReload'
  BY <1>1 DEF ListsParallel, RowsCurrent, CellsCurrent, StaleHasReload
<1> QED  BY <1>1, <1>2, <1>3 DEF IInv, RequestsOK

\* Firestore's answer to the oldest unanswered request is a sorted snapshot.
LEMMA AnswerStep == IInv /\ Answer => IInv'
<1> SUFFICES ASSUME IInv, Answer  PROVE IInv'
  OBVIOUS
<1>1. PICK i \in DOMAIN requests :
        /\ requests[i].status = "asked"
        /\ \/ \E s \in Snapshots(docs) :
                requests' = [requests EXCEPT ![i].status = "answered", ![i].documents = s]
           \/ requests' = [requests EXCEPT ![i].status = "failed"]
        /\ UNCHANGED <<docs, table, sheet, nav, overlapped, trap>>
  BY DEF Answer
<1>2. requests \in Seq(Request) /\ RequestSound(requests[i]) /\ requests[i] \in Request
  BY DEF IInv, TypeOK
<1>3. PICK r \in Request : /\ RequestSound(r) /\ r.kind = requests[i].kind
                           /\ requests' = [requests EXCEPT ![i] = r]
  <2>1. CASE requests' = [requests EXCEPT ![i].status = "failed"]
    <3> DEFINE r == [requests[i] EXCEPT !.status = "failed"]
    <3>1. r \in Request /\ r.kind = requests[i].kind /\ r.tap = requests[i].tap
          /\ r.documents = requests[i].documents
      BY <1>2 DEF Request
    <3>2. RequestSound(r)  BY <1>1, <1>2, <3>1 DEF RequestSound
    <3> QED  BY <2>1, <3>1, <3>2
  <2>2. ASSUME NEW s \in Snapshots(docs),
               requests' = [requests EXCEPT ![i].status = "answered", ![i].documents = s]
        PROVE  \E r \in Request : /\ RequestSound(r) /\ r.kind = requests[i].kind
                                  /\ requests' = [requests EXCEPT ![i] = r]
    <3> DEFINE r == [requests[i] EXCEPT !.status = "answered", !.documents = s]
    <3>1. s \in Seq(Feeds) /\ Ascending(s)
      BY SnapshotProperties DEF IInv, TypeOK
    <3>2. r \in Request /\ r.kind = requests[i].kind /\ r.tap = requests[i].tap
          /\ r.documents = s /\ r.status = "answered"
      BY <1>2, <3>1 DEF Request
    <3>3. RequestSound(r)  BY <1>2, <3>1, <3>2 DEF RequestSound
    <3>4. requests' = [requests EXCEPT ![i] = r]  BY <2>2
    <3> QED  BY <3>2, <3>3, <3>4
  <2> QED  BY <1>1, <2>1, <2>2
<1>4. /\ requests' \in Seq(Request) /\ DOMAIN requests' = DOMAIN requests
      /\ \A j \in DOMAIN requests :
           requests'[j].kind = requests[j].kind /\ RequestSound(requests'[j])
  BY <1>2, <1>3 DEF IInv
<1>5. TypeOK'  BY <1>1, <1>4 DEF IInv, TypeOK, table
<1>6. /\ Pending("list")' <=> Pending("list")
      /\ \A j \in DOMAIN requests' : RequestSound(requests'[j])
  BY <1>4 DEF Pending
<1>7. ListsParallel' /\ RowsCurrent' /\ CellsCurrent' /\ StaleHasReload' /\ NoDuplicates'
  BY <1>1, <1>6 DEF IInv, table, ListsParallel, RowsCurrent, CellsCurrent, Shown,
                    StaleHasReload, NoDuplicates
<1>8. AloneOrEmpty'  BY <1>1, <1>4, <1>6 DEF IInv, AloneOrEmpty, table
<1>9. (\A j \in DOMAIN sheet : TapSound(sheet[j]))'  BY <1>1 DEF IInv
<1> QED  BY <1>5, <1>6, <1>7, <1>8, <1>9 DEF IInv

\* A step that changes only documents, navigation or the cause of death.
LEMMA QuietStep ==
    ASSUME IInv, docs' \in SUBSET Feeds, nav' \in Seq(Screen),
           trap' \in {"none", "cellForRow", "documentIndex", "pointText"},
           UNCHANGED <<table, requests, sheet, overlapped>>
    PROVE  IInv'
<1>1. TypeOK'  BY DEF IInv, TypeOK, table
<1>2. Pending("list")' <=> Pending("list")  BY DEF Pending
<1>3. ListsParallel' /\ RowsCurrent' /\ CellsCurrent' /\ StaleHasReload' /\ NoDuplicates'
  BY <1>2 DEF IInv, table, ListsParallel, RowsCurrent, CellsCurrent, Shown,
              StaleHasReload, NoDuplicates
<1>4. AloneOrEmpty'  BY <1>2 DEF IInv, AloneOrEmpty, table
<1> QED  BY <1>1, <1>3, <1>4 DEF IInv

\* A step that changes only requests and sheet, and no list request.
LEMMA RequestStep ==
    ASSUME IInv, RequestsOK', Pending("list") => Pending("list")', AloneOrEmpty',
           sheet' \in Seq(Tap), Len(sheet') <= 1, \A i \in DOMAIN sheet' : TapSound(sheet'[i]),
           nav' \in Seq(Screen),
           trap' \in {"none", "cellForRow", "documentIndex", "pointText"},
           UNCHANGED <<docs, table, overlapped>>
    PROVE  IInv'
<1>1. TypeOK'  BY DEF IInv, TypeOK, table, RequestsOK
<1>2. ListsParallel' /\ RowsCurrent' /\ CellsCurrent' /\ StaleHasReload' /\ NoDuplicates'
  BY DEF IInv, table, ListsParallel, RowsCurrent, CellsCurrent, Shown,
         StaleHasReload, NoDuplicates
<1> QED  BY <1>1, <1>2 DEF IInv, RequestsOK

\* A row that scrolls in is bound to the lists, and while they are empty the cell
\* is left as it was; the lists are never indexed past their ends.
LEMMA ShowRowStep ==
    ASSUME IInv, NEW c \in Cells, NEW r \in 0..(tableRows - 1), ShowRow(c, r)
    PROVE  IInv' /\ trap' = "none"
<1>1. /\ r \in Nat /\ r < tableRows /\ trap = "none"
      /\ UNCHANGED <<docs, allFeedData, allImageData, tableRows, requests, sheet, nav, overlapped>>
  BY DEF ShowRow, IInv, TypeOK
<1>2. allImageData # <<>> => r < Len(allImageData) /\ r < Len(allFeedData)
  BY <1>1 DEF IInv, ListsParallel, RowsCurrent
<1>3. CASE /\ allImageData = <<>>
           /\ cells' = [cells EXCEPT ![c].place = "shown", ![c].row = r]
           /\ UNCHANGED trap
  <2>1. cells' \in [Cells -> Cell]  BY <1>1, <1>3 DEF IInv, TypeOK, Cell
  <2>2. CellsCurrent'  BY <1>1, <1>3 DEF IInv, ListsParallel, CellsCurrent
  <2>3. Pending("list")' <=> Pending("list")  BY <1>1 DEF Pending
  <2>4. TypeOK'  BY <1>1, <1>3, <2>1 DEF IInv, TypeOK
  <2>5. ListsParallel' /\ RowsCurrent' /\ StaleHasReload' /\ NoDuplicates' /\ AloneOrEmpty'
    BY <1>1, <2>3 DEF IInv, ListsParallel, RowsCurrent, StaleHasReload, NoDuplicates, AloneOrEmpty
  <2> QED  BY <1>1, <1>3, <2>2, <2>4, <2>5 DEF IInv
<1>4. CASE /\ allImageData # <<>>
           /\ cells' = [cells EXCEPT ![c] = Bound(c, r)]
           /\ UNCHANGED trap
  <2>1. allFeedData[r + 1] \in Feeds  BY <1>1, <1>2, <1>4, ElementOfSeq DEF IInv, TypeOK
  <2>2. cells' \in [Cells -> Cell]  BY <1>1, <1>4, <2>1 DEF IInv, TypeOK, Cell, Labels, Bound
  <2>3. CellsCurrent'
    BY <1>1, <1>2, <1>4 DEF IInv, TypeOK, ListsParallel, CellsCurrent, Shown, Bound
  <2>4. Pending("list")' <=> Pending("list")  BY <1>1 DEF Pending
  <2>5. TypeOK'  BY <1>1, <1>4, <2>2 DEF IInv, TypeOK
  <2>6. ListsParallel' /\ RowsCurrent' /\ StaleHasReload' /\ NoDuplicates' /\ AloneOrEmpty'
    BY <1>1, <2>4 DEF IInv, ListsParallel, RowsCurrent, StaleHasReload, NoDuplicates, AloneOrEmpty
  <2> QED  BY <1>1, <1>4, <2>3, <2>5, <2>6 DEF IInv
<1> QED  BY <1>2, <1>3, <1>4 DEF ShowRow

\* A row that scrolls out.
LEMMA HideRowStep ==
    ASSUME IInv, NEW c \in Cells, HideRow(c)
    PROVE  IInv'
<1>1. /\ cells' = [cells EXCEPT ![c] = Pooled(c)]
      /\ UNCHANGED <<docs, allFeedData, allImageData, tableRows, requests, sheet, nav,
                     overlapped, trap>>
  BY DEF HideRow
<1>2. cells' \in [Cells -> Cell]  BY <1>1 DEF IInv, TypeOK, Cell, Pooled
<1>3. CellsCurrent'  BY <1>1 DEF IInv, TypeOK, CellsCurrent, Shown, Pooled, Cell
<1>4. Pending("list")' <=> Pending("list")  BY <1>1 DEF Pending
<1>5. TypeOK'  BY <1>1, <1>2 DEF IInv, TypeOK
<1>6. ListsParallel' /\ RowsCurrent' /\ StaleHasReload' /\ NoDuplicates' /\ AloneOrEmpty'
  BY <1>1, <1>4 DEF IInv, ListsParallel, RowsCurrent, StaleHasReload, NoDuplicates, AloneOrEmpty
<1> QED  BY <1>1, <1>3, <1>5, <1>6 DEF IInv

\* The more button of a visible cell opens a sheet that knows the right row.
LEMMA MoreButtonStep ==
    ASSUME IInv, NEW c \in Cells, MoreButtonDidTap(c)
    PROVE  IInv'
<1> DEFINE tap == [num |-> cells[c].tag, feed |-> cells[c].label, list |-> allFeedData]
<1>1. Shown(c) /\ sheet' = <<tap>> /\ UNCHANGED <<docs, table, requests, nav, overlapped, trap>>
  BY DEF MoreButtonDidTap
<1>2. tap \in Tap  BY DEF IInv, TypeOK, Cell, Tap
<1>3. TapSound(tap)  BY <1>1 DEF IInv, CellsCurrent, TapSound
<1> HIDE DEF tap
<1>4. sheet' \in Seq(Tap) /\ Len(sheet') <= 1 /\ \A i \in DOMAIN sheet' : TapSound(sheet'[i])
  BY <1>1, <1>2, <1>3
<1>5. RequestsOK' /\ (Pending("list")' <=> Pending("list"))
  BY <1>1 DEF IInv, TypeOK, RequestsOK, Pending
<1>6. AloneOrEmpty'  BY <1>1, <1>5 DEF IInv, AloneOrEmpty, table
<1>7. nav' \in Seq(Screen) /\ trap' \in {"none", "cellForRow", "documentIndex", "pointText"}
  BY <1>1 DEF IInv, TypeOK
<1> QED  BY <1>1, <1>4, <1>5, <1>6, <1>7, RequestStep

\* "modify" or "delete" takes the sheet's tap into the queue; "cancel" drops it.
LEMMA SheetStep ==
    ASSUME IInv, Cancel \/ \E kind \in {"modify", "delete"} : Choose(kind)
    PROVE  IInv'
<1>1. /\ sheet # <<>> /\ sheet' = <<>>
      /\ UNCHANGED <<docs, table, nav, overlapped, trap>>
  BY DEF Cancel, Choose
<1>2. sheet' \in Seq(Tap) /\ Len(sheet') <= 1 /\ \A i \in DOMAIN sheet' : TapSound(sheet'[i])
  BY <1>1
<1>3. Head(sheet) \in Tap /\ TapSound(Head(sheet))
  BY <1>1, HeadTailProperties, LenProperties DEF IInv, TypeOK
<1>4. RequestsOK /\ AloneOrEmpty  BY DEF IInv, TypeOK, RequestsOK
<1>5. RequestsOK' /\ (Pending("list") => Pending("list")') /\ AloneOrEmpty'
  <2>1. CASE Cancel
    <3>1. UNCHANGED requests  BY <2>1 DEF Cancel
    <3> QED  BY <1>1, <1>4, <3>1 DEF RequestsOK, Pending, AloneOrEmpty, table
  <2>2. ASSUME NEW kind \in {"modify", "delete"}, Choose(kind)
        PROVE  RequestsOK' /\ (Pending("list") => Pending("list")') /\ AloneOrEmpty'
    <3>1. requests' = Append(requests, Ask(kind, Head(sheet)))
      BY <2>2 DEF Choose
    <3> QED  BY <1>1, <1>3, <1>4, <3>1, ChoosePending DEF table
  <2> QED  BY <2>1, <2>2
<1>6. nav' \in Seq(Screen) /\ trap' \in {"none", "cellForRow", "documentIndex", "pointText"}
  BY <1>1 DEF IInv, TypeOK
<1> QED  BY <1>1, <1>2, <1>5, <1>6, RequestStep

\* "modify" takes its request off the queue, pushes a form or dies.
LEMMA ModifyCallbackStep ==
    ASSUME IInv, ModifyCallback
    PROVE  IInv'
<1> DEFINE request == Head(requests)
           position == ModifyPosition(request)
<1>1. /\ requests # <<>> /\ request.kind = "modify" /\ requests' = Tail(requests)
      /\ UNCHANGED <<docs, table, sheet, overlapped>>
  BY DEF ModifyCallback, Ready
<1>2. RequestsOK /\ AloneOrEmpty  BY DEF IInv, TypeOK, RequestsOK
<1>3. RequestsOK' /\ (Pending("list") => Pending("list")') /\ AloneOrEmpty'
  BY <1>1, <1>2, TailPending DEF table
<1>4. request \in Request  BY <1>1, <1>2, TailSound
<1>5. request.documents \in Seq(Feeds) /\ request.tap.num \in Nat
  BY <1>4 DEF Request, Tap
<1>6. nav' \in Seq(Screen) /\ trap' \in {"none", "cellForRow", "documentIndex", "pointText"}
  <2>1. CASE position \in DOMAIN request.documents /\ UNCHANGED trap
             /\ nav' = Append(nav, [view |-> "add", feed |-> request.documents[position]])
    <3>1. request.documents[position] \in Feeds  BY <1>5, <2>1, ElementOfSeq, LenProperties
    <3> QED  BY <2>1, <3>1 DEF IInv, TypeOK, Screen, Labels
  <2>2. CASE UNCHANGED nav /\ trap' \in {trap, "documentIndex"}
    BY <2>2 DEF IInv, TypeOK
  <2> QED  BY <2>1, <2>2 DEF ModifyCallback
<1>7. sheet' \in Seq(Tap) /\ Len(sheet') <= 1 /\ \A i \in DOMAIN sheet' : TapSound(sheet'[i])
  BY <1>1 DEF IInv, TypeOK
<1> QED  BY <1>1, <1>3, <1>6, <1>7, RequestStep

\* "delete" takes its request off the queue; if it was answered, getData() follows.
LEMMA DeleteCallbackStep ==
    ASSUME IInv, DeleteCallback
    PROVE  IInv'
<1>1. /\ requests # <<>> /\ Head(requests).kind = "delete"
      /\ UNCHANGED <<tableRows, cells, sheet, nav, trap>>
  BY DEF DeleteCallback, Ready
<1>2. RequestsOK /\ AloneOrEmpty  BY DEF IInv, TypeOK, RequestsOK
<1>3. CASE requests' = Tail(requests) /\ UNCHANGED <<docs, allFeedData, allImageData, overlapped>>
  <2>1. RequestsOK' /\ (Pending("list") => Pending("list")') /\ AloneOrEmpty'
    BY <1>1, <1>2, <1>3, TailPending
  <2>2. sheet' \in Seq(Tap) /\ Len(sheet') <= 1 /\ \A i \in DOMAIN sheet' : TapSound(sheet'[i])
    BY <1>1 DEF IInv, TypeOK
  <2>3. nav' \in Seq(Screen) /\ trap' \in {"none", "cellForRow", "documentIndex", "pointText"}
    BY <1>1 DEF IInv, TypeOK
  <2> QED  BY <1>1, <1>3, <2>1, <2>2, <2>3, RequestStep DEF table
<1>4. CASE docs' = docs \ Doomed(Head(requests)) /\ GetData(Tail(requests))
  <2>1. /\ Tail(requests) \in Seq(Request)
        /\ \A i \in DOMAIN Tail(requests) : RequestSound(Tail(requests)[i])
    BY <1>1, <1>2, TailSound
  <2>2. /\ docs' \in SUBSET Feeds /\ nav' \in Seq(Screen)
        /\ trap' \in {"none", "cellForRow", "documentIndex", "pointText"}
    BY <1>1, <1>4 DEF IInv, TypeOK
  <2> QED  BY <1>1, <1>4, <2>1, <2>2, AppearStep
<1> QED  BY <1>3, <1>4 DEF DeleteCallback

\* Taps that open or close a screen.
LEMMA NavigationStep ==
    ASSUME IInv,
           \/ \E c \in Cells : PointBtnDidTap(c)
           \/ \E k \in {0, Len(nav) - 1} : nav # <<>> /\ Pop(k)
           \/ PlusButtonDidTap \/ SwipeCancelled
    PROVE  IInv'
<1> DEFINE map == [view |-> "map", feed |-> NoFeed]
           form == [view |-> "add", feed |-> NoFeed]
<1>1. /\ requests \in Seq(Request) /\ \A i \in DOMAIN requests : RequestSound(requests[i])
      /\ docs \in SUBSET Feeds /\ nav \in Seq(Screen)
      /\ trap \in {"none", "cellForRow", "documentIndex", "pointText"}
  BY DEF IInv, TypeOK
<1>2. map \in Screen /\ form \in Screen  BY DEF Screen, Labels
<1>3. <<map>> \in Seq(Screen) /\ <<form>> \in Seq(Screen)
  <2> HIDE DEF map, form
  <2> QED  BY <1>2
<1>4. ASSUME NEW c \in Cells, PointBtnDidTap(c)  PROVE IInv'
  <2>1. /\ nav' = <<map>> \/ nav' = nav
        /\ trap' = "pointText" \/ trap' = trap
        /\ UNCHANGED <<docs, table, requests, sheet, overlapped>>
    BY <1>4 DEF PointBtnDidTap
  <2> HIDE DEF map
  <2> QED  BY <1>1, <1>3, <2>1, QuietStep
<1>5. CASE PlusButtonDidTap
  <2>1. nav' = <<form>> /\ UNCHANGED <<docs, table, requests, sheet, overlapped, trap>>
    BY <1>5 DEF PlusButtonDidTap
  <2> HIDE DEF form
  <2> QED  BY <1>1, <1>3, <2>1, QuietStep
<1>6. ASSUME nav # <<>>, NEW k \in {0, Len(nav) - 1}, Pop(k)  PROVE IInv'
  <2>1. Len(nav) \in Nat \ {0} /\ k \in Nat /\ k <= Len(nav)
    BY <1>1, <1>6, EmptySeq
  <2>2. \A i \in 1..k : nav[i] \in Screen
    BY <1>1, <2>1, ElementOfSeq
  <2>3. SubSeq(nav, 1, k) \in Seq(Screen)
    BY <2>1, <2>2, SubSeqProperties
  <2>4. /\ nav' \in Seq(Screen)
        /\ UNCHANGED <<docs, tableRows, cells, sheet, trap>>
        /\ \/ GetData(requests)
           \/ UNCHANGED <<allFeedData, allImageData, requests, overlapped>>
    BY <1>6, <2>3 DEF Pop
  <2>5. CASE GetData(requests)  BY <1>1, <2>4, <2>5, AppearStep
  <2>6. CASE UNCHANGED <<allFeedData, allImageData, requests, overlapped>>
    BY <1>1, <2>4, <2>6, QuietStep DEF table
  <2> QED  BY <2>4, <2>5, <2>6
<1>7. CASE SwipeCancelled
  <2>1. GetData(requests) /\ UNCHANGED <<docs, tableRows, cells, sheet, nav, trap>>
    BY <1>7 DEF SwipeCancelled
  <2> QED  BY <1>1, <2>1, AppearStep
<1> QED  BY <1>4, <1>5, <1>6, <1>7

\* The app starts: empty lists, cells nobody made, one list request.
LEMMA RelaunchStep ==
    ASSUME IInv, Relaunch
    PROVE  IInv'
<1>1. /\ GetData(<<>>) /\ tableRows' = 0 /\ cells' = [c \in Cells |-> Unmade]
      /\ sheet' = <<>> /\ nav' = <<>> /\ trap' = "none" /\ UNCHANGED docs
  BY DEF Relaunch
<1>2. <<>> \in Seq(Request) /\ \A i \in DOMAIN <<>> : RequestSound(<<>>[i])
  OBVIOUS
<1>3. /\ allFeedData' = <<>> /\ allImageData' = <<>>
      /\ overlapped' \in BOOLEAN
      /\ RequestsOK' /\ Pending("list")' /\ AloneOrEmpty' /\ NoDuplicates'
  BY <1>1, <1>2, GetDataStep
<1>4. cells' \in [Cells -> Cell]  BY <1>1 DEF Unmade, Cell, Labels
<1>5. TypeOK'  BY <1>1, <1>3, <1>4, EmptySeq DEF IInv, TypeOK, RequestsOK
<1>6. ListsParallel' /\ RowsCurrent' /\ CellsCurrent' /\ StaleHasReload'
  BY <1>3 DEF ListsParallel, RowsCurrent, CellsCurrent, StaleHasReload
<1>7. (\A i \in DOMAIN sheet : TapSound(sheet[i]))'  BY <1>1
<1> QED  BY <1>3, <1>5, <1>6, <1>7 DEF IInv, RequestsOK

\* Every start and every step keeps the invariant.
LEMMA InitIInv == Init => IInv
<1> SUFFICES ASSUME Init  PROVE IInv
  OBVIOUS
<1>1. TypeOK
  <2>1. Ask("list", NoTap) \in Request
    BY AskProperties, NoTapProperties, EmptySeq
  <2>2. requests \in Seq(Request)  BY <2>1 DEF Init
  <2>3. cells \in [Cells -> Cell]  BY DEF Init, Unmade, Cell, Labels
  <2>4. /\ docs \in SUBSET Feeds /\ tableRows = 0 /\ overlapped = FALSE /\ trap = "none"
        /\ allFeedData = <<>> /\ allImageData = <<>> /\ sheet = <<>> /\ nav = <<>>
    BY DEF Init
  <2>5. <<>> \in Seq(Feeds) /\ <<>> \in Seq(Tap) /\ <<>> \in Seq(Screen) /\ Len(<<>>) = 0
    BY EmptySeq
  <2>6. sheet \in Seq(Tap) /\ Len(sheet) <= 1  BY <2>4, <2>5
  <2>7. overlapped \in BOOLEAN /\ trap \in {"none", "cellForRow", "documentIndex", "pointText"}
    BY <2>4
  <2>8. allFeedData \in Seq(Feeds) /\ allImageData \in Seq(Feeds) /\ nav \in Seq(Screen)
    BY <2>4, <2>5
  <2>9. tableRows \in Nat  BY <2>4
  <2> QED  BY <2>2, <2>3, <2>4, <2>6, <2>7, <2>8, <2>9 DEF TypeOK
<1>2. RequestSound(Ask("list", NoTap))
  BY NoTapProperties DEF RequestSound, Ask, Ascending
<1>3. \A i \in DOMAIN requests : i = 1 /\ RequestSound(requests[i])
  BY <1>2 DEF Init
<1>4. AloneOrEmpty  BY <1>3 DEF Init, AloneOrEmpty
<1>5. ListsParallel /\ RowsCurrent /\ CellsCurrent /\ StaleHasReload /\ NoDuplicates
  BY DEF Init, ListsParallel, RowsCurrent, CellsCurrent, StaleHasReload, NoDuplicates
<1>6. \A i \in DOMAIN sheet : TapSound(sheet[i])  BY DEF Init
<1> QED  BY <1>1, <1>3, <1>4, <1>5, <1>6 DEF IInv

LEMMA NextIInv == IInv /\ [Next]_vars => IInv'
<1> SUFFICES ASSUME IInv, [Next]_vars  PROVE IInv'
  OBVIOUS
<1>1. ASSUME NEW d \in Feeds, FeedPosted(d) \/ FeedRemoved(d)  PROVE IInv'
  <2>1. docs' \in SUBSET Feeds /\ UNCHANGED <<table, requests, sheet, nav, overlapped, trap>>
    BY <1>1 DEF FeedPosted, FeedRemoved, IInv, TypeOK
  <2>2. nav' \in Seq(Screen) /\ trap' \in {"none", "cellForRow", "documentIndex", "pointText"}
    BY <2>1 DEF IInv, TypeOK
  <2> QED  BY <2>1, <2>2, QuietStep
<1>2. CASE Answer  BY <1>2, AnswerStep
<1>3. CASE Callback
  BY <1>3, ListCallbackStep, ModifyCallbackStep, DeleteCallbackStep DEF Callback
<1>4. ASSUME NEW c \in Cells, HideRow(c)  PROVE IInv'  BY <1>4, HideRowStep
<1>5. ASSUME NEW c \in Cells, MoreButtonDidTap(c)  PROVE IInv'  BY <1>5, MoreButtonStep
<1>6. ASSUME NEW c \in Cells, NEW r \in 0..(tableRows - 1), ShowRow(c, r)  PROVE IInv'
  BY <1>6, ShowRowStep
<1>7. CASE Cancel \/ \E kind \in {"modify", "delete"} : Choose(kind)
  BY <1>7, SheetStep
<1>8. CASE \/ \E c \in Cells : PointBtnDidTap(c)
           \/ \E k \in {0, Len(nav) - 1} : nav # <<>> /\ Pop(k)
           \/ PlusButtonDidTap \/ SwipeCancelled
  BY <1>8, NavigationStep
<1>9. CASE Relaunch  BY <1>9, RelaunchStep
<1>10. CASE UNCHANGED vars
  <2>1. /\ docs' = docs /\ nav' = nav /\ trap' = trap
        /\ UNCHANGED <<table, requests, sheet, overlapped>>
    BY <1>10 DEF vars
  <2>2. /\ docs' \in SUBSET Feeds /\ nav' \in Seq(Screen)
        /\ trap' \in {"none", "cellForRow", "documentIndex", "pointText"}
    BY <2>1 DEF IInv, TypeOK
  <2> QED  BY <2>1, <2>2, QuietStep
<1> QED  BY <1>1, <1>2, <1>3, <1>4, <1>5, <1>6, <1>7, <1>8, <1>9, <1>10 DEF Next

-----------------------------------------------------------------------------
(***************************************************************************)
(* The theorems.                                                           *)
(***************************************************************************)

\* The inductive invariant holds in every reachable state of the home screen.
THEOREM InvariantHolds == Spec => []IInv
<1>1. Init => IInv  BY InitIInv
<1>2. IInv /\ [Next]_vars => IInv'  BY NextIInv
<1> QED  BY <1>1, <1>2, PTL DEF Spec

\* Every variable keeps its type.
THEOREM TypeCorrect == Spec => []TypeOK
<1>1. IInv => TypeOK  BY DEF IInv
<1> QED  BY <1>1, InvariantHolds, PTL

\* FeedDataManager's two lists never come apart, whatever callbacks interleave.
THEOREM ListsStayParallel == Spec => []ListsParallel
<1>1. IInv => ListsParallel  BY DEF IInv
<1> QED  BY <1>1, InvariantHolds, PTL

\* While the lists are loaded, every visible cell carries its own row and feed.
THEOREM CellsStayCurrent == Spec => []CellsCurrent
<1>1. IInv => CellsCurrent  BY DEF IInv
<1> QED  BY <1>1, InvariantHolds, PTL

\* Reloads that do not overlap show every feed at most once, newest first.
THEOREM ListedOnce == Spec => []NoDuplicates
<1>1. IInv => NoDuplicates  BY DEF IInv
<1> QED  BY <1>1, InvariantHolds, PTL

\* A tap that saw the downloaded collection names its target in both countings.
LEMMA SeenTarget ==
    ASSUME NEW request \in Request, RequestSound(request), SeenAtTap(request)
    PROVE  /\ ModifyPosition(request) \in DOMAIN request.documents
           /\ request.documents[ModifyPosition(request)] = request.tap.feed
           /\ Doomed(request) = {request.tap.feed}
<1> DEFINE n == Len(request.documents)
           num == request.tap.num
<1>1. request.documents \in Seq(Feeds) /\ num \in Nat /\ n \in Nat
  BY LenProperties DEF Request, Tap
<1>2. num < Len(request.tap.list) /\ request.tap.feed = request.tap.list[num + 1]
  BY DEF SeenAtTap, RequestSound, TapSound
<1>3. /\ Len(Reverse(request.documents)) = n
      /\ \A i \in 1..n : Reverse(request.documents)[i] = request.documents[n - i + 1]
  BY <1>1, ReverseProperties
<1>4. num + 1 \in 1..n  BY <1>1, <1>2, <1>3 DEF SeenAtTap
<1>5. Reverse(request.documents)[num + 1] = request.tap.feed  BY <1>2 DEF SeenAtTap
<1>6. request.documents[n - (num + 1) + 1] = request.tap.feed  BY <1>3, <1>4, <1>5
<1>7. n - (num + 1) + 1 = n - num  BY <1>1
<1>8. {k \in DOMAIN request.documents : k = num + 1} = {num + 1}
  BY <1>1, <1>4, LenProperties
<1>9. Doomed(request) = {request.tap.feed}  BY <1>5, <1>8 DEF Doomed
<1>10. n - num \in DOMAIN request.documents  BY <1>1, <1>4, LenProperties
<1> QED  BY <1>6, <1>7, <1>9, <1>10 DEF ModifyPosition

\* The request whose handler runs is a sound one.
LEMMA HeadSound ==
    ASSUME IInv, requests # <<>>
    PROVE  Head(requests) \in Request /\ RequestSound(Head(requests))
BY TailSound DEF IInv, TypeOK, RequestsOK

\* "delete" removes the feed of the tapped row when the collection is the one
\* the user saw.
THEOREM DeleteRemovesTapped == Spec => DeleteHitsTarget
<1>1. ASSUME IInv, DeleteCallback, Head(requests).status = "answered", SeenAtTap(Head(requests))
      PROVE  docs' = docs \ {Head(requests).tap.feed}
  <2>1. requests # <<>> /\ docs' = docs \ Doomed(Head(requests))
    BY <1>1 DEF DeleteCallback, Ready
  <2> QED  BY <1>1, <2>1, HeadSound, SeenTarget
<1>2. IInv /\ [Next]_vars =>
        [DeleteCallback /\ Head(requests).status = "answered" /\ SeenAtTap(Head(requests))
          => docs' = docs \ {Head(requests).tap.feed}]_vars
  BY <1>1
<1> QED  BY <1>2, InvariantHolds, PTL DEF Spec, DeleteHitsTarget

\* "modify" fills its form with the feed of the tapped row when the collection is
\* the one the user saw.
THEOREM ModifyShowsTapped == Spec => ModifyHitsTarget
<1>1. ASSUME IInv, ModifyCallback, SeenAtTap(Head(requests))
      PROVE  nav' = Append(nav, [view |-> "add", feed |-> Head(requests).tap.feed])
  <2> DEFINE request == Head(requests)
  <2>1. requests # <<>>  BY <1>1 DEF ModifyCallback, Ready
  <2>2. request \in Request /\ RequestSound(request)  BY <1>1, <2>1, HeadSound
  <2>3. /\ ModifyPosition(request) \in DOMAIN request.documents
        /\ request.documents[ModifyPosition(request)] = request.tap.feed
    BY <1>1, <2>2, SeenTarget
  <2>4. request.documents # <<>>
    BY <1>1, <2>2, ReverseProperties DEF SeenAtTap, Request
  <2>5. request.status = "answered"  BY <2>2, <2>4 DEF RequestSound
  <2> QED  BY <1>1, <2>3, <2>5 DEF ModifyCallback
<1>2. IInv /\ [Next]_vars =>
        [ModifyCallback /\ SeenAtTap(Head(requests))
          => nav' = Append(nav, [view |-> "add", feed |-> Head(requests).tap.feed])]_vars
  BY <1>1
<1> QED  BY <1>2, InvariantHolds, PTL DEF Spec, ModifyHitsTarget

\* The process dies only by tapping a nil point label while the lists reload, or by
\* "modify" on a collection that is not the one tapped on; never in cellForRowAt.
THEOREM CrashesExplained == Spec => CrashCauses
<1> DEFINE Cause == \/ trap' = "pointText" /\ allFeedData = <<>>
                    \/ /\ trap' = "documentIndex"
                       /\ \/ Head(requests).tap.list = <<>>
                          \/ Head(requests).tap.list # Reverse(Head(requests).documents)
<1>1. ASSUME IInv, Next, trap = "none", trap' # "none"  PROVE Cause
  <2>1. ASSUME NEW c \in Cells, PointBtnDidTap(c)  PROVE Cause
    <3>1. Shown(c) /\ cells[c].label = NoFeed /\ trap' = "pointText"
      BY <1>1, <2>1 DEF PointBtnDidTap
    <3>2. allFeedData = <<>>
      <4> SUFFICES ASSUME allFeedData # <<>>  PROVE FALSE
        OBVIOUS
      <4>1. /\ cells[c].row \in Nat /\ cells[c].row < Len(allFeedData)
            /\ cells[c].label = allFeedData[cells[c].row + 1]
        BY <1>1, <3>1 DEF IInv, CellsCurrent, TypeOK, Cell, Shown
      <4>2. cells[c].label \in Feeds  BY <1>1, <4>1, ElementOfSeq, LenProperties DEF IInv, TypeOK
      <4> QED  BY <3>1, <4>2, NoFeedAssumption
    <3> QED  BY <3>1, <3>2
  <2>2. CASE ModifyCallback
    <3>1. /\ requests # <<>> /\ trap' = "documentIndex"
          /\ ModifyPosition(Head(requests)) \notin DOMAIN Head(requests).documents
      BY <1>1, <2>2 DEF ModifyCallback, Ready
    <3>2. Head(requests) \in Request /\ RequestSound(Head(requests))
      BY <1>1, <3>1, HeadSound
    <3>3. ~SeenAtTap(Head(requests))  BY <3>1, <3>2, SeenTarget
    <3> QED  BY <3>1, <3>3 DEF SeenAtTap
  <2>3. ASSUME NEW c \in Cells, NEW r \in 0..(tableRows - 1), ShowRow(c, r)  PROVE Cause
    BY <1>1, <2>3, ShowRowStep
  <2>4. ASSUME NEW d \in Feeds, FeedPosted(d) \/ FeedRemoved(d)  PROVE Cause
    BY <1>1, <2>4 DEF FeedPosted, FeedRemoved
  <2>5. CASE Answer \/ ListCallback \/ DeleteCallback
    BY <1>1, <2>5 DEF Answer, ListCallback, DeleteCallback
  <2>6. ASSUME NEW c \in Cells, HideRow(c) \/ MoreButtonDidTap(c)  PROVE Cause
    BY <1>1, <2>6 DEF HideRow, MoreButtonDidTap
  <2>7. ASSUME NEW kind \in {"modify", "delete"}, Choose(kind)  PROVE Cause
    BY <1>1, <2>7 DEF Choose
  <2>8. ASSUME NEW k \in {0, Len(nav) - 1}, Pop(k)  PROVE Cause
    BY <1>1, <2>8 DEF Pop
  <2>9. CASE Cancel \/ PlusButtonDidTap \/ SwipeCancelled \/ Relaunch
    BY <1>1, <2>9 DEF Cancel, PlusButtonDidTap, SwipeCancelled, Relaunch
  <2> QED
    BY <1>1, <2>1, <2>2, <2>3, <2>4, <2>5, <2>6, <2>7, <2>8, <2>9 DEF Next, Callback
<1>2. IInv /\ [Next]_vars => [trap = "none" /\ trap' # "none" => Cause]_vars
  BY <1>1 DEF vars
<1> QED  BY <1>2, InvariantHolds, PTL DEF Spec, CrashCauses

=============================================================================
