-------------------------- MODULE FeedDeletionProofs --------------------------
(***************************************************************************)
(* A phone that deleted a feed never sees it again (DeletedStaysDeleted),  *)
(* for any number of phones and feeds.                                     *)
(*                                                                         *)
(* When the server takes a phone's delete, it has taken the saver's write  *)
(* before: the phone had the feed from the server, or the saver is that    *)
(* phone and its write stood before the delete in the same queue.  So the  *)
(* feed is removed, and back only if the saver's write comes once more,    *)
(* which the phone's own write cannot once the delete was acknowledged     *)
(* (Gone).  What a query brings in between is taken for newer than the     *)
(* delete only if the server had taken the delete by then.                 *)
(***************************************************************************)
EXTENDS FeedSyncProofs

\* The parts of Gone.
LEMMA GoneGives ==
    ASSUME Gone, NEW p \in Phones
    PROVE  /\ removed \subseteq Doomed /\ docs \cap removed \subseteq revived
           /\ Queued(p, "delete") \subseteq doomed[p]
           /\ doomed[p] \subseteq Known \cup Queued(p, "set")
           /\ newer[p] \subseteq TakenIds(p)
           /\ \A id \in Ids \ Shared : GoneAt(p, id)
  BY DEF Gone

\* Nothing that GoneAt requires to be absent appears, and what it requires stays.
LEMMA GoneAtRests ==
    ASSUME NEW p, NEW id, GoneAt(p, id),
           id \in removed => id \in removed', id \in revived => id \in revived',
           id \in docs' => id \in docs, id \in saved'[p] => id \in saved[p],
           DeleteTaken(p, id)' => DeleteTaken(p, id), DeleteDone(p, id)' => DeleteDone(p, id),
           id \in Queued(p, "set")' => id \in Queued(p, "set"),
           id \in newer'[p] => id \in newer[p] /\ (id \in cache'[p] <=> id \in cache[p])
    PROVE  GoneAt(p, id)'
  BY DEF GoneAt

\* A queue that rests, and how far the server has taken it.
LEMMA QueueRestsHere ==
    ASSUME NEW p, pending'[p] = pending[p]
    PROVE  /\ \A v : Places(p, v)' = Places(p, v)
           /\ Queued(p, "set")' = Queued(p, "set") /\ Queued(p, "delete")' = Queued(p, "delete")
           /\ sent'[p] = sent[p] => /\ TakenIds(p)' = TakenIds(p)
                                    /\ \A id : DeleteTaken(p, id)' <=> DeleteTaken(p, id)
           /\ \A id : doomed'[p] = doomed[p] => (DeleteDone(p, id)' <=> DeleteDone(p, id))
  BY DEF Places, Queued, TakenIds, DeleteTaken, DeleteDone

\* What the server has taken of a queue, it has or had.
LEMMA TakenKnown ==
    ASSUME TypeOK, Traced, Gone, NEW p \in Phones, NEW id \in Ids \ Shared, id \in TakenIds(p)
    PROVE  id \in Known
<1>1. PICK i \in 1..sent[p] : pending[p][i].id = id
  BY DEF TakenIds
<1>2. pending[p] \in Seq(Write) /\ sent[p] \in Nat /\ sent[p] <= Len(pending[p])
  BY DEF TypeOK
<1>3. i \in DOMAIN pending[p] /\ i <= sent[p] /\ pending[p][i] \in Write
  BY <1>2
<1>4. CASE pending[p][i].op = "set"
  BY <1>1, <1>4, TracedAt
<1>5. CASE pending[p][i] = Delete(id)
  <2>1. DeleteTaken(p, id)
    BY <1>3, <1>5 DEF DeleteTaken, Places
  <2>. QED
    BY <2>1, GoneGives DEF GoneAt, Known
<1>. QED
  BY <1>1, <1>3, <1>4, <1>5, WriteFields, Writes

\* An id one phone takes, and that is not shared by that, is known to nobody.
LEMMA FreshSave ==
    ASSUME TypeOK, Traced, NEW p \in Phones, NEW id \in Ids, id \notin saved[p],
           saved' = [saved EXCEPT ![p] = @ \cup {id}], id \notin Shared'
    PROVE  id \notin Known
<1>1. ASSUME NEW r \in Phones, id \in saved[r] PROVE FALSE
  <2>1. r # p
    BY <1>1
  <2>2. id \in saved'[p] /\ id \in saved'[r]
    BY <1>1, <2>1 DEF TypeOK
  <2>. QED
    BY <2>1, <2>2 DEF Shared
<1>. QED
  BY <1>1 DEF Traced

\* Histories grow.
LEMMA HistoryGrows ==
    ASSUME TypeOK, [Next]_vars
    PROVE  /\ \A q \in Phones : saved[q] \subseteq saved'[q] /\ doomed[q] \subseteq doomed'[q]
           /\ removed \subseteq removed' /\ revived \subseteq revived'
           /\ Shared \subseteq Shared' /\ Doomed \subseteq Doomed'
<1>1. \/ \E p \in Phones, id \in Ids : SaveData(p, id)
      \/ \E p \in Phones : WriteLocally(p) \/ Take(p)
      \/ UNCHANGED <<saved, doomed, removed, revived>>
  <2>1. ASSUME NEW p \in Phones, NEW id \in Ids, UploadEnds(p, id)
        PROVE  UNCHANGED <<saved, doomed, removed, revived>>
    BY <2>1 DEF UploadEnds
  <2>2. ASSUME NEW p \in Phones, NEW id \in Ids,
               \/ UploadCompletion(p, id) \/ Answer(p, id)
               \/ DeleteCallback(p, id) \/ PhotoDeleteEnds(p, id)
        PROVE  UNCHANGED <<saved, doomed, removed, revived>>
    BY <2>2 DEF UploadCompletion, Answer, DeleteCallback, PhotoDeleteEnds, history
  <2>3. ASSUME NEW p \in Phones, Acknowledge(p) \/ Disconnect(p) \/ Listen(p) \/ Restart(p)
        PROVE  UNCHANGED <<saved, doomed, removed, revived>>
    BY <2>3 DEF Acknowledge, Disconnect, Listen, Restart, history
  <2>4. UNCHANGED vars => UNCHANGED <<saved, doomed, removed, revived>>
    BY DEF vars, history
  <2>. QED
    BY <2>1, <2>2, <2>3, <2>4 DEF Next
<1>2. \/ UNCHANGED saved
      \/ \E p \in Phones, id \in Ids : saved' = [saved EXCEPT ![p] = @ \cup {id}]
  BY <1>1 DEF SaveData, WriteLocally, Take
<1>3. UNCHANGED doomed \/ \E p \in Phones : \E S : doomed' = [doomed EXCEPT ![p] = @ \cup S]
  BY <1>1 DEF SaveData, WriteLocally, Take
<1>4. \A q \in Phones : saved[q] \subseteq saved'[q]
  BY <1>2 DEF TypeOK
<1>5. \A q \in Phones : doomed[q] \subseteq doomed'[q]
  BY <1>3 DEF TypeOK
<1>6. removed \subseteq removed' /\ revived \subseteq revived'
  BY <1>1 DEF SaveData, WriteLocally, Take
<1>. QED
  BY <1>4, <1>5, <1>6, SharedStays DEF Doomed

-----------------------------------------------------------------------------
(***************************************************************************)
(* Every step keeps Gone.                                                  *)
(***************************************************************************)

\* What is to be shown of a phone.
GoneOf(p) ==
    /\ Queued(p, "delete") \subseteq doomed[p]
    /\ doomed[p] \subseteq Known \cup Queued(p, "set")
    /\ newer[p] \subseteq TakenIds(p)
    /\ \A id \in Ids \ Shared : GoneAt(p, id)

\* A phone on which nothing happens, while the server's documents and their history rest.
LEMMA GoneOfRests ==
    ASSUME Gone, NEW q \in Phones, Shared \subseteq Shared', UNCHANGED <<docs, removed, revived>>,
           pending'[q] = pending[q], sent'[q] = sent[q], newer'[q] = newer[q],
           cache'[q] = cache[q], doomed'[q] = doomed[q], saved'[q] = saved[q]
    PROVE  GoneOf(q)'
<1>1. /\ Queued(q, "set")' = Queued(q, "set") /\ Queued(q, "delete")' = Queued(q, "delete")
      /\ TakenIds(q)' = TakenIds(q)
      /\ \A id : DeleteTaken(q, id)' <=> DeleteTaken(q, id)
      /\ \A id : DeleteDone(q, id)' <=> DeleteDone(q, id)
  BY QueueRestsHere
<1>2. Known' = Known
  BY DEF Known
<1>3. ASSUME NEW id \in Ids \ Shared' PROVE GoneAt(q, id)'
  <2>1. GoneAt(q, id)
    BY GoneGives
  <2>. QED
    BY <1>1, <2>1, GoneAtRests
<1>. QED
  BY <1>1, <1>2, <1>3, GoneGives DEF GoneOf

\* Nothing happens but in memory.
LEMMA GoneInMemory ==
    ASSUME Gone, UNCHANGED <<docs, removed, revived, pending, sent, newer, cache, doomed, saved>>
    PROVE  Gone'
<1>1. Shared' = Shared /\ Doomed' = Doomed
  BY DEF Shared, Doomed
<1>2. \A q \in Phones : GoneOf(q)'
  BY <1>1, GoneOfRests
<1>. QED
  BY <1>1, <1>2 DEF Gone, GoneOf

LEMMA GoneSave ==
    ASSUME TypeOK, Traced, Gone, Shared \subseteq Shared',
           NEW p \in Phones, NEW id \in Ids, SaveData(p, id)
    PROVE  Gone'
<1>1. /\ id \notin saved[p] /\ saved' = [saved EXCEPT ![p] = @ \cup {id}]
      /\ UNCHANGED <<docs, removed, revived, pending, sent, newer, cache, doomed>>
  BY DEF SaveData, connection
<1>2. removed' \subseteq Doomed' /\ docs' \cap removed' \subseteq revived'
  BY <1>1 DEF Gone, Doomed
<1>3. ASSUME NEW q \in Phones, q # p PROVE GoneOf(q)'
  <2>1. saved'[q] = saved[q]
    BY <1>1, <1>3 DEF TypeOK
  <2>. QED
    BY <1>1, <2>1, GoneOfRests
<1>4. GoneOf(p)'
  <2>1. /\ Queued(p, "set")' = Queued(p, "set") /\ Queued(p, "delete")' = Queued(p, "delete")
        /\ TakenIds(p)' = TakenIds(p)
        /\ \A d : DeleteTaken(p, d)' <=> DeleteTaken(p, d)
        /\ \A d : DeleteDone(p, d)' <=> DeleteDone(p, d)
    BY <1>1, QueueRestsHere
  <2>2. Known' = Known
    BY <1>1 DEF Known
  <2>3. ASSUME NEW d \in Ids \ Shared' PROVE GoneAt(p, d)'
    <3>1. GoneAt(p, d) /\ d \in Ids \ Shared
      BY GoneGives
    <3>2. CASE d = id
      <4>1. d \notin Known
        BY <1>1, <3>2, FreshSave
      <4>2. d \notin newer[p] /\ d \notin removed
        BY <3>1, <4>1, TakenKnown, GoneGives DEF Known
      <4>. QED
        BY <1>1, <2>1, <3>1, <4>2 DEF GoneAt
    <3>3. CASE d # id
      <4>1. d \in saved'[p] => d \in saved[p]
        BY <1>1, <3>3 DEF TypeOK
      <4>. QED
        BY <1>1, <2>1, <3>1, <4>1, GoneAtRests
    <3>. QED
      BY <3>2, <3>3
  <2>. QED
    BY <1>1, <2>1, <2>2, <2>3, GoneGives DEF GoneOf
<1>5. \A q \in Phones : GoneOf(q)'
  BY <1>3, <1>4
<1>. QED
  BY <1>2, <1>5 DEF Gone, GoneOf

\* The connection breaks, or the process dies: nothing counts as taken.
LEMMA GoneBreak ==
    ASSUME TypeOK, Gone, Shared \subseteq Shared', NEW p \in Phones, Disconnect(p) \/ Restart(p)
    PROVE  Gone'
<1>1. /\ sent' = [sent EXCEPT ![p] = 0] /\ newer' = [newer EXCEPT ![p] = {}]
      /\ UNCHANGED <<docs, removed, revived, pending, cache, doomed, saved>>
  BY DEF Disconnect, Restart, history
<1>2. removed' \subseteq Doomed' /\ docs' \cap removed' \subseteq revived'
  BY <1>1 DEF Gone, Doomed
<1>3. ASSUME NEW q \in Phones, q # p PROVE GoneOf(q)'
  <2>1. sent'[q] = sent[q] /\ newer'[q] = newer[q]
    BY <1>1, <1>3 DEF TypeOK
  <2>. QED
    BY <1>1, <2>1, GoneOfRests
<1>4. GoneOf(p)'
  <2>1. /\ Queued(p, "set")' = Queued(p, "set") /\ Queued(p, "delete")' = Queued(p, "delete")
        /\ \A v : Places(p, v)' = Places(p, v)
        /\ \A d : DeleteDone(p, d)' <=> DeleteDone(p, d)
    BY <1>1, QueueRestsHere
  <2>2. Known' = Known
    BY <1>1 DEF Known
  <2>3. sent'[p] = 0 /\ newer'[p] = {}
    BY <1>1 DEF TypeOK
  <2>4. ASSUME NEW d PROVE ~DeleteTaken(p, d)'
    <3>1. \A i \in Places(p, Delete(d)) : i \in DOMAIN pending[p]
      BY DEF Places
    <3>2. pending[p] \in Seq(Write)
      BY DEF TypeOK
    <3>3. \A i \in DOMAIN pending[p] : ~(i <= 0)
      BY <3>2
    <3>. QED
      BY <2>1, <2>3, <3>1, <3>3 DEF DeleteTaken
  <2>5. ASSUME NEW d \in Ids \ Shared' PROVE GoneAt(p, d)'
    <3>1. GoneAt(p, d)
      BY GoneGives
    <3>. QED
      BY <1>1, <2>1, <2>3, <2>4, <3>1, GoneAtRests
  <2>. QED
    BY <1>1, <2>1, <2>2, <2>3, <2>5, GoneGives DEF GoneOf
<1>5. \A q \in Phones : GoneOf(q)'
  BY <1>3, <1>4
<1>. QED
  BY <1>2, <1>5 DEF Gone, GoneOf

\* A query is answered: what it says of a feed whose write the server has taken is newer.
LEMMA GoneListen ==
    ASSUME TypeOK, Traced, Gone, Shared \subseteq Shared', NEW p \in Phones, Listen(p)
    PROVE  Gone'
<1>1. /\ cache' = [cache EXCEPT ![p] = docs]
      /\ UNCHANGED <<docs, removed, revived, pending, sent, doomed, saved>>
  BY DEF Listen, history
<1>2. PICK unsaid \in SUBSET (TakenIds(p) \ (docs \cup cache[p])) :
          newer' = [newer EXCEPT ![p] = TakenIds(p) \ unsaid]
  BY DEF Listen
<1>3. removed' \subseteq Doomed' /\ docs' \cap removed' \subseteq revived'
  BY <1>1 DEF Gone, Doomed
<1>4. ASSUME NEW q \in Phones, q # p PROVE GoneOf(q)'
  <2>1. cache'[q] = cache[q] /\ newer'[q] = newer[q]
    BY <1>1, <1>2, <1>4 DEF TypeOK
  <2>. QED
    BY <1>1, <2>1, GoneOfRests
<1>5. GoneOf(p)'
  <2>1. /\ Queued(p, "set")' = Queued(p, "set") /\ Queued(p, "delete")' = Queued(p, "delete")
        /\ TakenIds(p)' = TakenIds(p)
        /\ \A d : DeleteTaken(p, d)' <=> DeleteTaken(p, d)
        /\ \A d : DeleteDone(p, d)' <=> DeleteDone(p, d)
    BY <1>1, QueueRestsHere
  <2>2. Known' = Known
    BY <1>1 DEF Known
  <2>3. cache'[p] = docs /\ newer'[p] \subseteq TakenIds(p)
    BY <1>1, <1>2 DEF TypeOK
  <2>4. ASSUME NEW d \in Ids \ Shared' PROVE GoneAt(p, d)'
    <3>1. GoneAt(p, d) /\ d \in Ids \ Shared
      BY GoneGives
    <3>2. d \in newer'[p] \ cache'[p] => d \in removed
      BY <2>3, <3>1, TakenKnown DEF Known
    <3>3. DeleteTaken(p, d) /\ d \in cache'[p] => d \in revived \ saved[p]
      BY <2>3, <3>1, GoneGives DEF GoneAt
    <3>. QED
      BY <1>1, <2>1, <3>1, <3>2, <3>3 DEF GoneAt
  <2>. QED
    BY <1>1, <2>1, <2>2, <2>3, <2>4, GoneGives DEF GoneOf
<1>6. \A q \in Phones : GoneOf(q)'
  BY <1>4, <1>5
<1>. QED
  BY <1>3, <1>6 DEF Gone, GoneOf

\* A write that is queued is not taken yet.
LEMMA AppendTaken ==
    ASSUME TypeOK, NEW p \in Phones, NEW w \in Write, Appends(p, w), NEW q \in Phones
    PROVE  /\ TakenIds(q)' = TakenIds(q)
           /\ \A d : DeleteTaken(q, d)' => DeleteTaken(q, d)
<1>1. /\ pending[q] \in Seq(Write) /\ sent[q] \in Nat /\ sent[q] <= Len(pending[q])
      /\ Len(pending[p]) \in Nat /\ sent[p] \in Nat /\ sent[p] <= Len(pending[p]) /\ sent' = sent
  BY DEF TypeOK, Appends
<1>2. \A i \in 1..sent[q] : i \in DOMAIN pending[q]
  BY <1>1
<1>3. \A i \in 1..sent[q] : pending'[q][i] = pending[q][i]
  BY <1>2, AppendPlaces
<1>4. TakenIds(q)' = TakenIds(q)
  BY <1>1, <1>3 DEF TakenIds
<1>5. ASSUME NEW d, NEW i \in Places(q, Delete(d))', i <= sent'[q] PROVE i \in Places(q, Delete(d))
  <2>1. CASE q = p /\ Delete(d) = w
    <3>1. i \in Places(q, Delete(d)) \/ i = Len(pending[p]) + 1
      BY <1>5, <2>1, AppendPlaces
    <3>2. i # Len(pending[p]) + 1
      BY <1>1, <1>5, <2>1
    <3>. QED
      BY <3>1, <3>2
  <2>2. CASE ~(q = p /\ Delete(d) = w)
    BY <1>5, <2>2, AppendPlaces
  <2>. QED
    BY <2>1, <2>2
<1>6. \A d : DeleteTaken(q, d)' => DeleteTaken(q, d)
  BY <1>1, <1>5 DEF DeleteTaken
<1>. QED
  BY <1>4, <1>6

\* A save whose write is not queued yet has not been deleted.
LEMMA EndedNotDoomed ==
    ASSUME Traced, SavedOnce, Gone, NEW p \in Phones, NEW id \in Ids \ Shared,
           id \in Coming(p)
    PROVE  id \notin doomed[p]
<1>1. Places(p, Set(id)) = {} /\ id \notin Known
  BY OnceFollows DEF OnceAt
<1>2. id \notin Queued(p, "set")
  BY <1>1, QueuedByPlace
<1>. QED
  BY <1>1, <1>2, GoneGives

\* The worker puts a write on disk: of a save it has not written yet, or the deletion of a
\* feed the phone knows of.
Written(p, w, id) ==
    /\ Appends(p, w)
    /\ w = Set(id) => id \in Coming(p) /\ doomed' = doomed
    /\ w = Delete(id) => /\ id \in Known \cup Queued(p, "set")
                         /\ doomed' = [doomed EXCEPT ![p] = @ \cup {id}]
    /\ UNCHANGED <<docs, removed, revived, sent, newer, cache, saved>>

LEMMA WorkerWrites ==
    ASSUME TypeOK, Traced, NEW p \in Phones, WriteLocally(p)
    PROVE  \E id \in Ids : \E w \in {Set(id), Delete(id)} : Written(p, w, id)
<1>1. /\ Runs(p) /\ Head(worker[p]) \in Write /\ Appends(p, Head(worker[p]))
      /\ UNCHANGED <<docs, removed, revived, sent, newer, cache, saved>>
  BY WritesHead DEF WriteLocally, connection
<1>2. PICK w \in Write : w = Head(worker[p])
  BY <1>1
<1>3. PICK id \in Ids : id = w.id
  BY WriteFields
<1>4. w = Set(id) \/ w = Delete(id)
  BY <1>3, WriteFields
<1>5. /\ Set(id).op = "set" /\ Delete(id).op = "delete"
      /\ doomed' = [doomed EXCEPT ![p] = @ \cup (IF w.op = "delete" THEN {w.id} ELSE {})]
  BY <1>2, Writes DEF WriteLocally
<1>6. w = Set(id) => id \in Coming(p)
  <2>1. w.op = "set" => w.id \in Tasks(p, "set")
    BY <1>1, <1>2, RunTasks
  <2>. QED
    BY <1>3, <1>5, <2>1 DEF Coming
<1>7. w = Delete(id) => id \in Known \cup Queued(p, "set")
  <2>1. w.op = "delete" => w.id \in Tasks(p, "delete")
    BY <1>1, <1>2, RunTasks
  <2>. QED
    BY <1>3, <1>5, <2>1, TracedAt
<1>8. w = Set(id) => doomed' = doomed
  BY <1>5 DEF TypeOK
<1>9. w = Delete(id) => doomed' = [doomed EXCEPT ![p] = @ \cup {id}]
  BY <1>3, <1>5
<1>. QED
  BY <1>1, <1>2, <1>4, <1>6, <1>7, <1>8, <1>9 DEF Written

LEMMA GoneAppend ==
    ASSUME TypeOK, Traced, SavedOnce, Gone, Shared \subseteq Shared', NEW p \in Phones,
           WriteLocally(p)
    PROVE  Gone'
<1>0. PICK id \in Ids : \E w \in {Set(id), Delete(id)} : Written(p, w, id)
  BY WorkerWrites
<1>1. PICK w \in {Set(id), Delete(id)} :
          /\ Appends(p, w)
          /\ w = Set(id) => id \in Coming(p) /\ doomed' = doomed
          /\ w = Delete(id) => /\ id \in Known \cup Queued(p, "set")
                               /\ doomed' = [doomed EXCEPT ![p] = @ \cup {id}]
          /\ UNCHANGED <<docs, removed, revived, sent, newer, cache, saved>>
  BY <1>0 DEF Written
<1>2. UNCHANGED <<docs, removed, revived, sent, newer, cache, saved>>
  BY <1>1
<1>3. /\ w \in Write /\ w.id = id /\ w.op \in {"set", "delete"}
      /\ (w.op = "set" <=> w = Set(id)) /\ (w.op = "delete" <=> w = Delete(id))
  BY Writes
<1>4. \A q \in Phones : /\ doomed[q] \subseteq doomed'[q]
                        /\ doomed'[q] = doomed[q] \/ (q = p /\ w.op = "delete")
                        /\ doomed'[q] \subseteq doomed[q] \cup {id}
  BY <1>1, <1>3 DEF TypeOK
<1>5. w.op = "delete" => id \in doomed'[p]
  BY <1>1, <1>3 DEF TypeOK
<1>6. Known' = Known
  BY <1>2 DEF Known
<1>7. removed' \subseteq Doomed' /\ docs' \cap removed' \subseteq revived'
  BY <1>2, <1>4 DEF Gone, Doomed
<1>8. ASSUME NEW q \in Phones PROVE GoneOf(q)'
  <2>1. /\ Queued(q, "set")' = Queued(q, "set") \cup (IF q = p /\ w.op = "set" THEN {id} ELSE {})
        /\ Queued(q, "delete")' = Queued(q, "delete") \cup (IF q = p /\ w.op = "delete" THEN {id} ELSE {})
    BY <1>1, <1>3, AppendQueued
  <2>2. TakenIds(q)' = TakenIds(q) /\ \A d : DeleteTaken(q, d)' => DeleteTaken(q, d)
    BY <1>1, <1>3, AppendTaken
  <2>3. /\ Queued(q, "delete") \subseteq doomed[q] /\ doomed[q] \subseteq Known \cup Queued(q, "set")
        /\ newer[q] \subseteq TakenIds(q)
    BY GoneGives
  <2>4. q = p /\ w.op = "delete" => id \in Known \cup Queued(q, "set")
    BY <1>1, <1>3
  <2>5. ASSUME NEW d \in Ids \ Shared' PROVE GoneAt(q, d)'
    <3>1. GoneAt(q, d) /\ d \in Ids \ Shared
      BY GoneGives
    <3>2. DeleteDone(q, d)' => DeleteDone(q, d)
      BY <1>4, <2>1 DEF DeleteDone
    <3>3. CASE d = id /\ q = p /\ w.op = "set"
      <4>1. d \notin doomed[q] /\ doomed'[q] = doomed[q]
        BY <1>1, <1>3, <3>1, <3>3, EndedNotDoomed
      <4>2. ~DeleteDone(q, d)'
        BY <4>1 DEF DeleteDone
      <4>. QED
        BY <1>2, <2>2, <3>1, <4>2 DEF GoneAt
    <3>4. CASE ~(d = id /\ q = p /\ w.op = "set")
      <4>1. d \in Queued(q, "set")' => d \in Queued(q, "set")
        BY <2>1, <3>4
      <4>. QED
        BY <1>2, <2>2, <3>1, <3>2, <4>1, GoneAtRests
    <3>. QED
      BY <3>3, <3>4
  <2>6. Queued(q, "delete")' \subseteq doomed'[q]
    BY <1>4, <1>5, <2>1, <2>3
  <2>7. doomed'[q] \subseteq Known' \cup Queued(q, "set")'
    BY <1>4, <1>6, <2>1, <2>3, <2>4
  <2>. QED
    BY <1>2, <2>2, <2>3, <2>5, <2>6, <2>7 DEF GoneOf
<1>. QED
  BY <1>7, <1>8 DEF Gone, GoneOf

\* An acknowledgement: the oldest write, which the server has taken, leaves the queue.
Acknowledged(p, w, id) ==
    /\ Drops(p) /\ w = Head(pending[p]) /\ id = w.id
    /\ 1 \in Places(p, w) /\ sent[p] \in Nat /\ 1 <= sent[p]
    /\ sent' = [sent EXCEPT ![p] = @ - 1]
    /\ cache' = [cache EXCEPT ![p] = Applied(w, @, newer[p])]
    /\ newer' = [newer EXCEPT ![p] = @ \cap TakenIds(p)']
    /\ UNCHANGED <<docs, removed, revived, doomed, saved>>

LEMMA AcknowledgeDrops ==
    ASSUME TypeOK, NEW p \in Phones, Acknowledge(p)
    PROVE  \E w \in Write, id \in Ids : Acknowledged(p, w, id)
<1>1. /\ pending[p] \in Seq(Write) /\ sent[p] \in Nat /\ sent[p] > 0
      /\ sent[p] <= Len(pending[p]) /\ Len(pending[p]) \in Nat
  BY DEF Acknowledge, TypeOK
<1>2. pending[p] # <<>> /\ 1 <= sent[p]
  BY <1>1
<1>3. Drops(p)
  BY <1>2 DEF Acknowledge, Drops
<1>4. /\ sent' = [sent EXCEPT ![p] = @ - 1]
      /\ cache' = [cache EXCEPT ![p] = Applied(Head(pending[p]), @, newer[p])]
      /\ newer' = [newer EXCEPT ![p] = @ \cap TakenIds(p)']
      /\ UNCHANGED <<docs, removed, revived, doomed, saved>>
  BY DEF Acknowledge, history
<1>5. PICK w \in Write : w = Head(pending[p]) /\ 1 \in Places(p, w)
  BY <1>3, DropPlaces
<1>6. w.id \in Ids
  BY WriteFields
<1>. QED
  BY <1>1, <1>2, <1>3, <1>4, <1>5, <1>6 DEF Acknowledged

\* What it does to the phone's queue and to what the phone knows.
LEMMA AcknowledgedEffects ==
    ASSUME TypeOK, Traced, NEW p \in Phones, NEW w \in Write, NEW id \in Ids,
           Acknowledged(p, w, id)
    PROVE  /\ \A d \in Ids : DeleteTaken(p, d)' => DeleteTaken(p, d)
           /\ \A op : Queued(p, op)' \subseteq Queued(p, op)
           /\ \A op : \A d \in Queued(p, op) \ Queued(p, op)' : w.op = op /\ id = d
           /\ w = Set(id) \/ (w = Delete(id) /\ DeleteTaken(p, id))
           /\ w = Set(id) => id \in Known
           /\ newer'[p] \subseteq newer[p] /\ newer'[p] \subseteq TakenIds(p)'
           /\ cache'[p] = Applied(w, cache[p], newer[p])
<1>1. /\ Drops(p) /\ w = Head(pending[p]) /\ id = w.id /\ 1 \in Places(p, w)
      /\ sent[p] \in Nat /\ 1 <= sent[p] /\ sent'[p] = sent[p] - 1
  BY DEF Acknowledged, TypeOK
<1>2. ASSUME NEW d \in Ids, DeleteTaken(p, d)' PROVE DeleteTaken(p, d)
  <2>1. PICK i \in Places(p, Delete(d))' : i <= sent'[p]
    BY <1>2 DEF DeleteTaken
  <2>2. PICK j \in Places(p, Delete(d)) \ {1} : i = j - 1
    BY <1>1, DropPlaces
  <2>3. j \in Nat /\ Places(p, Delete(d)) \subseteq Nat
    BY <1>1, DropPlaces
  <2>4. j <= sent[p]
    BY <1>1, <2>1, <2>2, <2>3
  <2>. QED
    BY <2>4 DEF DeleteTaken
<1>3. \A op : /\ Queued(p, op)' \subseteq Queued(p, op)
              /\ \A d \in Queued(p, op) \ Queued(p, op)' : w.op = op /\ id = d
  BY <1>1, DropQueued
<1>4. w = Set(id) \/ w = Delete(id)
  BY <1>1, WriteFields
<1>5. w = Delete(id) => DeleteTaken(p, id)
  BY <1>1 DEF DeleteTaken
<1>6. w = Set(id) => id \in Known
  <2>1. pending[p][1] = w /\ 1 \in 1..sent[p]
    BY <1>1 DEF Places
  <2>. QED
    BY <1>1, <2>1, Writes, TracedAt
<1>7. newer'[p] = newer[p] \cap TakenIds(p)' /\ cache'[p] = Applied(w, cache[p], newer[p])
  BY DEF Acknowledged, TypeOK
<1>. QED
  BY <1>2, <1>3, <1>4, <1>5, <1>6, <1>7

LEMMA GoneAcknowledge ==
    ASSUME TypeOK, Traced, SavedOnce, Gone, Shared' = Shared, NEW p \in Phones, Acknowledge(p)
    PROVE  Gone'
<1>1. PICK w \in Write, id \in Ids : Acknowledged(p, w, id)
  BY AcknowledgeDrops
<1>2. UNCHANGED <<docs, removed, revived, doomed, saved>>
  BY <1>1 DEF Acknowledged
<1>3. removed' \subseteq Doomed' /\ docs' \cap removed' \subseteq revived'
  BY <1>2 DEF Gone, Doomed
<1>4. ASSUME NEW q \in Phones, q # p PROVE GoneOf(q)'
  <2>1. /\ cache'[q] = cache[q] /\ newer'[q] = newer[q] /\ sent'[q] = sent[q]
        /\ pending'[q] = pending[q]
    BY <1>1, <1>4 DEF TypeOK, Acknowledged, Drops
  <2>. QED
    BY <1>2, <2>1, GoneOfRests
<1>5. GoneOf(p)'
  <2>1. /\ \A d \in Ids : DeleteTaken(p, d)' => DeleteTaken(p, d)
        /\ Queued(p, "set")' \subseteq Queued(p, "set")
        /\ Queued(p, "delete")' \subseteq Queued(p, "delete")
        /\ \A d \in Queued(p, "set") \ Queued(p, "set")' : w.op = "set" /\ id = d
        /\ \A d \in Queued(p, "delete") \ Queued(p, "delete")' : w.op = "delete" /\ id = d
        /\ w = Set(id) \/ (w = Delete(id) /\ DeleteTaken(p, id))
        /\ w = Set(id) => id \in Known
        /\ newer'[p] \subseteq newer[p] /\ newer'[p] \subseteq TakenIds(p)'
        /\ cache'[p] = Applied(w, cache[p], newer[p])
    BY <1>1, AcknowledgedEffects
  <2>2. w.id = id /\ (w.op = "set" <=> w = Set(id)) /\ (w.op = "delete" <=> w = Delete(id))
    BY <1>1, Writes DEF Acknowledged
  <2>3. /\ Queued(p, "delete") \subseteq doomed[p] /\ doomed[p] \subseteq Known \cup Queued(p, "set")
        /\ newer[p] \subseteq TakenIds(p)
    BY GoneGives
  <2>4. Known' = Known
    BY <1>2 DEF Known
  <2>5. ASSUME NEW d \in Ids \ Shared PROVE GoneAt(p, d)'
    <3>1. GoneAt(p, d)
      BY GoneGives
    <3>2. d \in newer'[p] => d \in newer[p] /\ (d \in cache'[p] <=> d \in cache[p])
      BY <2>1, <2>2 DEF Applied
    <3>3. CASE d \in Queued(p, "delete") \ Queued(p, "delete")'
      <4>1. d = id /\ w = Delete(id) /\ DeleteTaken(p, d)
        BY <2>1, <2>2, <3>3
      <4>2. d \notin Queued(p, "set")
        <5>1. 1 \in Places(p, Delete(d)) /\ Places(p, Set(d)) \subseteq Nat \ {0}
          BY <1>1, <4>1, DropPlaces DEF Acknowledged
        <5>2. \A i \in Places(p, Set(d)) : i < 1
          BY <5>1, OnceFollows DEF OnceAt
        <5>3. Places(p, Set(d)) = {}
          BY <5>1, <5>2
        <5>. QED
          BY <5>3, QueuedByPlace
      <4>3. d \in removed /\ (d \in saved[p] => d \notin docs)
        BY <3>1, <4>1 DEF GoneAt
      <4>. QED
        BY <1>2, <2>1, <3>1, <3>2, <4>2, <4>3 DEF GoneAt
    <3>4. CASE d \notin Queued(p, "delete") \ Queued(p, "delete")'
      <4>1. DeleteDone(p, d)' => DeleteDone(p, d)
        BY <1>2, <3>4 DEF DeleteDone
      <4>. QED
        BY <1>2, <2>1, <3>1, <3>2, <4>1, GoneAtRests
    <3>. QED
      BY <3>3, <3>4
  <2>6. doomed'[p] \subseteq Known' \cup Queued(p, "set")'
    BY <1>2, <2>1, <2>2, <2>3, <2>4
  <2>. QED
    BY <1>2, <2>1, <2>3, <2>5, <2>6, Shared' = Shared DEF GoneOf
<1>6. \A q \in Phones : GoneOf(q)'
  BY <1>4, <1>5
<1>. QED
  BY <1>3, <1>6 DEF Gone, GoneOf

\* The server takes phone p's write w of feed id.
Taken(p, w, id) ==
    /\ sent[p] \in Nat /\ sent[p] + 1 \in Places(p, w) /\ id = w.id
    /\ sent' = [sent EXCEPT ![p] = @ + 1]
    /\ newer' = [newer EXCEPT ![p] = @ \ {id}]
    /\ \/ /\ w = Set(id) /\ docs' = docs \cup {id} /\ removed' = removed
          /\ revived' = revived \cup (removed \cap {id})
       \/ /\ w = Delete(id) /\ docs' = docs \ {id} /\ revived' = revived
          /\ removed' = removed \cup (docs \cap {id})
    /\ UNCHANGED <<pending, cache, doomed, saved>>

LEMMA TakeTakes ==
    ASSUME TypeOK, NEW p \in Phones, Take(p)
    PROVE  \E w \in Write, id \in Ids : Taken(p, w, id)
<1>1. pending[p] \in Seq(Write) /\ sent[p] \in Nat /\ sent[p] < Len(pending[p]) /\ Len(pending[p]) \in Nat
  BY DEF Take, TypeOK
<1>2. sent[p] + 1 \in DOMAIN pending[p] /\ pending[p][sent[p] + 1] \in Write
  BY <1>1
<1>3. PICK w \in Write : w = pending[p][sent[p] + 1] /\ sent[p] + 1 \in Places(p, w)
  BY <1>2 DEF Places
<1>4. PICK id \in Ids : id = w.id
  BY WriteFields
<1>5. /\ w.op = "set" => w = Set(id)
      /\ w.op = "delete" => w = Delete(id)
  BY <1>4, Writes
<1>6. /\ sent' = [sent EXCEPT ![p] = @ + 1]
      /\ newer' = [newer EXCEPT ![p] = @ \ {id}]
      /\ \/ /\ w.op = "set" /\ docs' = docs \cup {id} /\ removed' = removed
            /\ revived' = revived \cup (removed \cap {id})
         \/ /\ w.op = "delete" /\ docs' = docs \ {id} /\ revived' = revived
            /\ removed' = removed \cup (docs \cap {id})
      /\ UNCHANGED <<pending, cache, doomed, saved>>
  BY <1>3, <1>4 DEF Take
<1>. QED
  BY <1>1, <1>3, <1>4, <1>5, <1>6 DEF Taken

\* What it means for the taking phone and for the others.
LEMMA TakenEffects ==
    ASSUME TypeOK, NEW p \in Phones, NEW w \in Write, NEW id \in Ids, Taken(p, w, id),
           NEW q \in Phones
    PROVE  /\ Queued(q, "set")' = Queued(q, "set") /\ Queued(q, "delete")' = Queued(q, "delete")
           /\ \A d : DeleteDone(q, d)' <=> DeleteDone(q, d)
           /\ \A d \in Ids : w # Delete(d) \/ q # p => (DeleteTaken(q, d)' => DeleteTaken(q, d))
           /\ newer'[q] = newer[q] \ (IF q = p THEN {id} ELSE {})
           /\ newer[q] \subseteq TakenIds(q) => newer'[q] \subseteq TakenIds(q)'
<1>1. pending' = pending /\ doomed' = doomed
  BY DEF Taken
<1>2. /\ Queued(q, "set")' = Queued(q, "set") /\ Queued(q, "delete")' = Queued(q, "delete")
      /\ \A v : Places(q, v)' = Places(q, v)
      /\ \A d : DeleteDone(q, d)' <=> DeleteDone(q, d)
  BY <1>1, QueueRestsHere
<1>3. newer'[q] = newer[q] \ (IF q = p THEN {id} ELSE {})
  BY DEF Taken, TypeOK
<1>4. CASE q # p
  <2>1. sent'[q] = sent[q]
    BY <1>4 DEF Taken, TypeOK
  <2>2. TakenIds(q)' = TakenIds(q) /\ \A d : DeleteTaken(q, d)' <=> DeleteTaken(q, d)
    BY <1>1, <2>1, QueueRestsHere
  <2>. QED
    BY <1>2, <1>3, <1>4, <2>2
<1>5. CASE q = p
  <2>1. sent[p] \in Nat /\ sent'[p] = sent[p] + 1 /\ pending[p] \in Seq(Write)
    BY DEF Taken, TypeOK
  <2>2. ASSUME NEW d \in Ids, w # Delete(d), DeleteTaken(p, d)' PROVE DeleteTaken(p, d)
    <3>1. PICK i \in Places(p, Delete(d)) : i <= sent'[p]
      BY <1>2, <1>5, <2>2 DEF DeleteTaken
    <3>2. i # sent[p] + 1
      BY <2>2, <3>1 DEF Taken, Places
    <3>3. i \in DOMAIN pending[p]
      BY <3>1 DEF Places
    <3>4. i \in Nat
      BY <2>1, <3>3
    <3>5. i <= sent[p]
      BY <2>1, <3>1, <3>2, <3>4
    <3>. QED
      BY <3>1, <3>5 DEF DeleteTaken
  <2>3. TakenIds(p) \subseteq TakenIds(p)'
    <3>1. \A i \in 1..sent[p] : i \in 1..sent'[p]
      BY <2>1
    <3>. QED
      BY <1>1, <3>1 DEF TakenIds
  <2>. QED
    BY <1>2, <1>3, <1>5, <2>2, <2>3
<1>. QED
  BY <1>4, <1>5

\* A feed's write is taken for the first time, or once more; its delete is taken behind it.
LEMMA TakenInOrder ==
    ASSUME TypeOK, Traced, SavedOnce, Gone, NEW p \in Phones, NEW w \in Write,
           NEW id \in Ids \ Shared, Taken(p, w, id)
    PROVE  /\ w = Set(id) => /\ id \in saved[p] /\ ~DeleteTaken(p, id) /\ ~DeleteDone(p, id)
           /\ w = Delete(id) => id \in Known /\ id \in doomed[p]
<1>1. sent[p] \in Nat /\ sent[p] + 1 \in Places(p, w) /\ pending[p] \in Seq(Write)
  BY DEF Taken, TypeOK
<1>2. \A v : Places(p, v) \subseteq Nat \ {0}
  BY <1>1 DEF Places
<1>3. CASE w = Set(id)
  <2>1. id \in Queued(p, "set")
    BY <1>1, <1>3, QueuedByPlace
  <2>2. id \in saved[p] /\ ~DeleteDone(p, id)
    BY <2>1, TracedAt, GoneGives DEF GoneAt
  <2>3. ASSUME NEW j \in Places(p, Delete(id)), j <= sent[p] PROVE FALSE
    <3>1. sent[p] + 1 < j
      BY <1>1, <1>3, OnceFollows DEF OnceAt
    <3>2. j \in Nat
      BY <1>2
    <3>. QED
      BY <1>1, <2>3, <3>1, <3>2
  <2>. QED
    BY <1>3, <2>2, <2>3, Writes DEF DeleteTaken
<1>4. CASE w = Delete(id)
  <2>1. id \in Queued(p, "delete")
    BY <1>1, <1>4, QueuedByPlace
  <2>2. ASSUME NEW i \in Places(p, Set(id)) PROVE id \in Known
    <3>1. i < sent[p] + 1
      BY <1>1, <1>4, OnceFollows DEF OnceAt
    <3>2. i \in Nat \ {0}
      BY <1>2
    <3>3. i \in 1..sent[p]
      BY <1>1, <3>1, <3>2
    <3>4. pending[p][i] = Set(id)
      BY DEF Places
    <3>. QED
      BY <3>3, <3>4, Writes, TracedAt
  <2>3. id \in Known
    BY <2>1, <2>2, QueuedByPlace, TracedAt
  <2>. QED
    BY <1>4, <2>1, <2>3, Writes, GoneGives
<1>. QED
  BY <1>3, <1>4

LEMMA GoneTake ==
    ASSUME TypeOK, Traced, SavedOnce, Gone, Shared' = Shared, NEW p \in Phones, Take(p)
    PROVE  Gone'
<1>1. PICK w \in Write, id \in Ids : Taken(p, w, id)
  BY TakeTakes
<1>2. /\ \/ /\ w = Set(id) /\ docs' = docs \cup {id} /\ removed' = removed
            /\ revived' = revived \cup (removed \cap {id})
         \/ /\ w = Delete(id) /\ docs' = docs \ {id} /\ revived' = revived
            /\ removed' = removed \cup (docs \cap {id})
      /\ UNCHANGED <<pending, cache, doomed, saved>>
      /\ sent[p] + 1 \in Places(p, w)
  BY <1>1 DEF Taken
<1>3. removed' \subseteq Doomed'
  <2>1. w = Delete(id) => id \in Doomed
    BY <1>2, QueuedByPlace, GoneGives DEF Doomed
  <2>. QED
    BY <1>2, <2>1, Writes DEF Gone, Doomed
<1>4. docs' \cap removed' \subseteq revived'
  BY <1>2 DEF Gone
<1>5. Known \subseteq Known'
  BY <1>2 DEF Known
<1>6. ASSUME NEW q \in Phones PROVE GoneOf(q)'
  <2>1. /\ Queued(q, "set")' = Queued(q, "set") /\ Queued(q, "delete")' = Queued(q, "delete")
        /\ \A d : DeleteDone(q, d)' <=> DeleteDone(q, d)
        /\ \A d \in Ids : w # Delete(d) \/ q # p => (DeleteTaken(q, d)' => DeleteTaken(q, d))
        /\ newer'[q] = newer[q] \ (IF q = p THEN {id} ELSE {})
        /\ newer[q] \subseteq TakenIds(q) => newer'[q] \subseteq TakenIds(q)'
    BY <1>1, TakenEffects
  <2>2. /\ Queued(q, "delete") \subseteq doomed[q] /\ doomed[q] \subseteq Known \cup Queued(q, "set")
        /\ newer[q] \subseteq TakenIds(q)
    BY GoneGives
  <2>3. ASSUME NEW d \in Ids \ Shared PROVE GoneAt(q, d)'
    <3>1. GoneAt(q, d)
      BY GoneGives
    <3>2. CASE d # id
      <4>1. w # Delete(d)
        BY <1>2, <3>2, Writes
      <4>. QED
        BY <1>2, <2>1, <3>1, <3>2, <4>1, GoneAtRests
    <3>3. CASE d = id /\ w = Set(id)
      <4>1. id \in saved[p] /\ ~DeleteTaken(p, id) /\ ~DeleteDone(p, id)
        BY <1>1, <3>3, TakenInOrder
      <4>2. w # Delete(id)
        BY <3>3, Writes
      <4>3. CASE q = p
        BY <1>2, <2>1, <3>1, <3>3, <4>1, <4>2, <4>3 DEF GoneAt
      <4>4. CASE q # p
        <5>1. d \notin saved[q]
          BY <3>3, <4>1, <4>4, SharedBy
        <5>2. removed \subseteq removed' /\ revived \subseteq revived'
          BY <1>2
        <5>. QED
          BY <1>2, <2>1, <3>1, <4>4, <5>1, <5>2 DEF GoneAt
      <4>. QED
        BY <4>3, <4>4
    <3>4. CASE d = id /\ w = Delete(id)
      <4>1. d \in Known
        BY <1>1, <3>4, TakenInOrder
      <4>2. d \in removed' /\ d \notin docs' /\ revived' = revived
        BY <1>2, <3>4, <4>1, Writes DEF Known
      <4>3. CASE q = p
        BY <1>2, <2>1, <3>1, <3>4, <4>2, <4>3 DEF GoneAt
      <4>4. CASE q # p
        BY <1>2, <2>1, <3>1, <4>2, <4>4 DEF GoneAt
      <4>. QED
        BY <4>3, <4>4
    <3>. QED
      BY <1>2, <3>2, <3>3, <3>4
  <2>. QED
    BY <1>2, <1>5, <2>1, <2>2, <2>3, Shared' = Shared DEF GoneOf
<1>. QED
  BY <1>3, <1>4, <1>6 DEF Gone, GoneOf

-----------------------------------------------------------------------------
LEMMA InitIInv == Init => IInv
<1> SUFFICES ASSUME Init PROVE IInv
  OBVIOUS
<1>1. SaveInv
  BY InitSaveInv
<1>2. /\ removed = {} /\ docs = {} /\ Doomed = {}
      /\ \A p \in Phones : /\ pending[p] = <<>> /\ newer[p] = {} /\ doomed[p] = {}
  BY DEF Init, NoId, Doomed
<1>3. ASSUME NEW p \in Phones
      PROVE  /\ Queued(p, "delete") = {}
             /\ \A id \in Ids : ~DeleteTaken(p, id) /\ ~DeleteDone(p, id)
  BY <1>2 DEF Queued, Range, DeleteTaken, DeleteDone, Places
<1>4. \A p \in Phones, id \in Ids \ Shared : GoneAt(p, id)
  BY <1>2, <1>3 DEF GoneAt
<1>5. Gone
  BY <1>2, <1>3, <1>4 DEF Gone
<1>. QED
  BY <1>1, <1>5 DEF IInv

LEMMA NextIInv == IInv /\ [Next]_vars => IInv'
<1> SUFFICES ASSUME IInv, [Next]_vars PROVE IInv'
  OBVIOUS
<1>1. TypeOK /\ Traced /\ SavedOnce /\ Gone /\ SaveInv
  BY DEF IInv, SaveInv, PhotoInv
<1>2. Shared \subseteq Shared'
  BY <1>1, HistoryGrows
<1>3. ASSUME NEW p \in Phones, NEW id \in Ids, SaveData(p, id) PROVE Gone'
  BY <1>1, <1>2, <1>3, GoneSave
<1>4. ASSUME NEW p \in Phones, NEW id \in Ids,
             \/ UploadEnds(p, id) \/ UploadCompletion(p, id) \/ Answer(p, id)
             \/ DeleteCallback(p, id) \/ PhotoDeleteEnds(p, id)
      PROVE  Gone'
  <2>1. UNCHANGED <<docs, removed, revived, pending, sent, newer, cache, doomed, saved>>
    BY <1>4 DEF UploadEnds, UploadCompletion, Answer, DeleteCallback, PhotoDeleteEnds,
                connection, history
  <2>. QED
    BY <1>1, <2>1, GoneInMemory
<1>5. ASSUME NEW p \in Phones, WriteLocally(p) PROVE Gone'
  BY <1>1, <1>2, <1>5, GoneAppend
<1>6. ASSUME NEW p \in Phones, Take(p) PROVE Gone'
  <2>1. Shared' = Shared
    BY <1>6, SameShared DEF Take
  <2>. QED
    BY <1>1, <1>6, <2>1, GoneTake
<1>7. ASSUME NEW p \in Phones, Acknowledge(p) PROVE Gone'
  <2>1. Shared' = Shared
    BY <1>7, SameShared DEF Acknowledge, history
  <2>. QED
    BY <1>1, <1>7, <2>1, GoneAcknowledge
<1>8. ASSUME NEW p \in Phones, Disconnect(p) \/ Restart(p) PROVE Gone'
  BY <1>1, <1>2, <1>8, GoneBreak
<1>9. ASSUME NEW p \in Phones, Listen(p) PROVE Gone'
  BY <1>1, <1>2, <1>9, GoneListen
<1>10. ASSUME UNCHANGED vars PROVE Gone'
  <2>1. UNCHANGED <<docs, removed, revived, pending, sent, newer, cache, doomed, saved>>
    BY <1>10 DEF vars, connection, history
  <2>. QED
    BY <1>1, <2>1, GoneInMemory
<1>11. Gone'
  BY <1>3, <1>4, <1>5, <1>6, <1>7, <1>8, <1>9, <1>10 DEF Next
<1>12. SaveInv'
  BY <1>1, NextSaveInv
<1>. QED
  BY <1>11, <1>12 DEF IInv

\* The whole invariant of FeedSync.
THEOREM InvariantHolds == Spec => []IInv
<1>. QED
  BY InitIInv, NextIInv, PTL DEF Spec

-----------------------------------------------------------------------------
(***************************************************************************)
(* What a phone sees.                                                      *)
(***************************************************************************)

\* What DeletedStaysDeleted says of a step, a phone and a feed.
Stays(p, id) ==
    /\ /\ id \in doomed[p] /\ id \notin View(p)
       /\ id \in saved[p] \/ id \notin revived'
       => id \notin View(p)'
    /\ id \in View(p) /\ id \notin View(p)' => id \in Doomed'

LEMMA ViewRests ==
    ASSUME NEW p, NEW id, pending'[p] = pending[p], cache'[p] = cache[p]
    PROVE  Stays(p, id)
  BY DEF Stays, View, Queued

LEMMA StaysListen ==
    ASSUME IInv, NEW p \in Phones, Listen(p), Doomed \subseteq Doomed', NEW id \in Ids \ Shared
    PROVE  Stays(p, id)
<1>1. cache'[p] = docs /\ pending' = pending /\ UNCHANGED <<removed, revived>>
  BY DEF Listen, history, IInv, SaveInv, PhotoInv, TypeOK
<1>2. Queued(p, "set")' = Queued(p, "set") /\ Queued(p, "delete")' = Queued(p, "delete")
  BY <1>1, QueueRestsHere
<1>3. Gone /\ Traced /\ GoneAt(p, id) /\ removed \subseteq Doomed /\ docs \cap removed \subseteq revived
  BY GoneGives DEF IInv, SaveInv
<1>4. ASSUME id \in doomed[p], id \notin View(p), id \in saved[p] \/ id \notin revived', id \in View(p)'
      PROVE  FALSE
  <2>1. DeleteDone(p, id) /\ id \in docs \cup Queued(p, "set")
    BY <1>1, <1>2, <1>4 DEF DeleteDone, View
  <2>. QED
    BY <1>1, <1>3, <1>4, <2>1 DEF GoneAt
<1>5. ASSUME id \in View(p), id \notin View(p)' PROVE id \in Doomed'
  <2>1. id \in cache[p] /\ id \notin docs
    BY <1>1, <1>2, <1>5 DEF View
  <2>. QED
    BY <1>3, <2>1, TracedAt DEF Known
<1>. QED
  BY <1>4, <1>5 DEF Stays

LEMMA StaysAcknowledge ==
    ASSUME IInv, IInv', NEW p \in Phones, Acknowledge(p), Doomed \subseteq Doomed',
           NEW id \in Ids \ Shared, Shared' = Shared
    PROVE  Stays(p, id)
<1>1. TypeOK /\ Traced /\ Gone /\ GoneAt(p, id) /\ GoneAt(p, id)' /\ removed \subseteq Doomed
  BY GoneGives DEF IInv, SaveInv, PhotoInv, Gone
<1>2. PICK w \in Write, d \in Ids : Acknowledged(p, w, d)
  BY <1>1, AcknowledgeDrops
<1>3. UNCHANGED <<docs, removed, revived, doomed, saved>>
  BY <1>2 DEF Acknowledged
<1>4. /\ Queued(p, "set")' \subseteq Queued(p, "set")
      /\ Queued(p, "delete")' \subseteq Queued(p, "delete")
      /\ \A e \in Queued(p, "set") \ Queued(p, "set")' : w.op = "set" /\ d = e
      /\ \A e \in Queued(p, "delete") \ Queued(p, "delete")' : w.op = "delete" /\ d = e
      /\ w = Set(d) \/ (w = Delete(d) /\ DeleteTaken(p, d))
      /\ cache'[p] = Applied(w, cache[p], newer[p])
  BY <1>1, <1>2, AcknowledgedEffects
<1>5. /\ w.id = d /\ (w.op = "set" <=> w = Set(d)) /\ (w.op = "delete" <=> w = Delete(d))
      /\ w = Set(d) => d \in Queued(p, "set")
      /\ w = Delete(d) => d \in Queued(p, "delete")
  BY <1>2, Writes, QueuedByPlace DEF Acknowledged
<1>6. ASSUME id \in doomed[p], id \notin View(p), id \in saved[p] \/ id \notin revived', id \in View(p)'
      PROVE  FALSE
  <2>1. DeleteDone(p, id)'
    BY <1>3, <1>6 DEF DeleteDone, View
  <2>2. id \in cache'[p]
    BY <1>1, <1>6, <2>1 DEF GoneAt, View
  <2>3. CASE id \in Queued(p, "delete")
    <3>1. id \notin Queued(p, "delete")'
      BY <1>6 DEF View
    <3>2. d = id /\ w = Delete(d) /\ w.op # "set" /\ DeleteTaken(p, id)
      BY <1>4, <1>5, <2>3, <3>1, Writes
    <3>3. id \in newer[p] \cap cache[p]
      BY <1>4, <1>5, <2>2, <3>2 DEF Applied
    <3>. QED
      BY <1>1, <1>3, <1>6, <3>2, <3>3 DEF GoneAt
  <2>4. CASE id \notin Queued(p, "delete")
    <3>1. id \notin cache[p] /\ id \notin Queued(p, "set")
      BY <1>6, <2>4 DEF View
    <3>2. w = Set(d) /\ d = id
      BY <1>4, <1>5, <2>2, <3>1 DEF Applied
    <3>. QED
      BY <1>5, <3>1, <3>2
  <2>. QED
    BY <2>3, <2>4
<1>7. ASSUME id \in View(p), id \notin View(p)' PROVE id \in Doomed'
  <2>1. id \notin cache'[p] /\ id \notin Queued(p, "set")' /\ id \notin Queued(p, "delete")
    BY <1>4, <1>7 DEF View
  <2>2. CASE id \in cache[p]
    <3>1. w # Set(d) /\ d = id
      BY <1>4, <1>5, <2>1, <2>2 DEF Applied
    <3>. QED
      BY <1>4, <1>5, <2>1, <3>1
  <2>3. CASE id \notin cache[p]
    <3>1. id \in Queued(p, "set") \ Queued(p, "set")'
      BY <1>7, <2>1, <2>3 DEF View
    <3>2. w.op = "set" /\ d = id
      BY <1>4, <3>1
    <3>3. id \in newer[p]
      BY <1>4, <1>5, <2>1, <3>2 DEF Applied
    <3>4. id \in removed
      BY <1>1, <2>3, <3>3 DEF GoneAt
    <3>. QED
      BY <1>1, <3>4
  <2>. QED
    BY <2>2, <2>3
<1>. QED
  BY <1>6, <1>7 DEF Stays

LEMMA StaysAppend ==
    ASSUME IInv, NEW p \in Phones, WriteLocally(p), NEW id \in Ids \ Shared
    PROVE  Stays(p, id)
<1>1. TypeOK /\ Traced /\ SavedOnce /\ Gone
  BY DEF IInv, SaveInv, PhotoInv
<1>2. PICK d \in Ids : \E w \in {Set(d), Delete(d)} : Written(p, w, d)
  BY <1>1, WorkerWrites
<1>3. CASE Written(p, Set(d), d)
  <2>1. d \in Coming(p) /\ Appends(p, Set(d)) /\ cache' = cache
    BY <1>3 DEF Written
  <2>2. /\ Queued(p, "set")' = Queued(p, "set") \cup {d}
        /\ Queued(p, "delete")' = Queued(p, "delete") \cup {}
    <3>1. Set(d) \in Write /\ Set(d).op = "set" /\ Set(d).id = d
      BY Writes
    <3>2. /\ Queued(p, "set")' = Queued(p, "set") \cup (IF p = p /\ Set(d).op = "set" THEN {Set(d).id} ELSE {})
          /\ Queued(p, "delete")' = Queued(p, "delete") \cup (IF p = p /\ Set(d).op = "delete" THEN {Set(d).id} ELSE {})
      <4>1. \A op : Queued(p, op)' = Queued(p, op) \cup (IF p = p /\ Set(d).op = op THEN {Set(d).id} ELSE {})
        BY <1>1, <2>1, <3>1, AppendQueued
      <4>. QED
        BY <4>1
    <3>. QED
      BY <3>1, <3>2
  <2>3. d = id => id \notin doomed[p]
    BY <1>1, <2>1, EndedNotDoomed
  <2>. QED
    BY <2>1, <2>2, <2>3 DEF Stays, View
<1>4. CASE Written(p, Delete(d), d)
  <2>1. /\ Appends(p, Delete(d)) /\ cache' = cache
        /\ doomed' = [doomed EXCEPT ![p] = @ \cup {d}]
    BY <1>4 DEF Written
  <2>2. /\ Queued(p, "set")' = Queued(p, "set") \cup {}
        /\ Queued(p, "delete")' = Queued(p, "delete") \cup {d}
    <3>1. Delete(d) \in Write /\ Delete(d).op = "delete" /\ Delete(d).id = d
      BY Writes
    <3>2. /\ Queued(p, "set")' = Queued(p, "set") \cup (IF p = p /\ Delete(d).op = "set" THEN {Delete(d).id} ELSE {})
          /\ Queued(p, "delete")' = Queued(p, "delete") \cup (IF p = p /\ Delete(d).op = "delete" THEN {Delete(d).id} ELSE {})
      <4>1. \A op : Queued(p, op)' = Queued(p, op) \cup (IF p = p /\ Delete(d).op = op THEN {Delete(d).id} ELSE {})
        BY <1>1, <2>1, <3>1, AppendQueued
      <4>. QED
        BY <4>1
    <3>. QED
      BY <3>1, <3>2
  <2>3. d \in Doomed'
    BY <1>1, <2>1 DEF TypeOK, Doomed
  <2>. QED
    BY <2>1, <2>2, <2>3 DEF Stays, View
<1>. QED
  BY <1>2, <1>3, <1>4

LEMMA StaysStep ==
    ASSUME IInv, IInv', [Next]_vars, NEW q \in Phones, NEW id \in Ids \ Shared'
    PROVE  Stays(q, id)
<1>1. TypeOK
  BY DEF IInv, SaveInv, PhotoInv
<1>2. Shared \subseteq Shared' /\ Doomed \subseteq Doomed'
  BY <1>1, HistoryGrows
<1>3. id \in Ids \ Shared
  BY <1>2
<1>4. ASSUME NEW p \in Phones, NEW d \in Ids,
             \/ SaveData(p, d) \/ UploadEnds(p, d) \/ UploadCompletion(p, d)
             \/ Answer(p, d) \/ DeleteCallback(p, d) \/ PhotoDeleteEnds(p, d)
      PROVE  Stays(q, id)
  <2>1. pending' = pending /\ cache' = cache
    BY <1>4 DEF SaveData, UploadEnds, UploadCompletion, Answer, DeleteCallback,
                PhotoDeleteEnds
  <2>. QED
    BY <2>1, ViewRests
<1>5. ASSUME NEW p \in Phones, Take(p) \/ Disconnect(p) \/ Restart(p) PROVE Stays(q, id)
  <2>1. pending' = pending /\ cache' = cache
    BY <1>5 DEF Take, Disconnect, Restart
  <2>. QED
    BY <2>1, ViewRests
<1>6. ASSUME NEW p \in Phones, WriteLocally(p) PROVE Stays(q, id)
  <2>1. CASE q = p
    BY <1>3, <1>6, <2>1, StaysAppend
  <2>2. CASE q # p
    <3>1. pending'[q] = pending[q] /\ cache'[q] = cache[q]
      BY <1>1, <1>6, <2>2 DEF WriteLocally, TypeOK
    <3>. QED
      BY <3>1, ViewRests
  <2>. QED
    BY <2>1, <2>2
<1>7. ASSUME NEW p \in Phones, Acknowledge(p) PROVE Stays(q, id)
  <2>1. CASE q = p
    <3>1. Shared' = Shared
      BY <1>7, SameShared DEF Acknowledge, history
    <3>. QED
      BY <1>2, <1>3, <1>7, <2>1, <3>1, StaysAcknowledge
  <2>2. CASE q # p
    <3>1. pending'[q] = pending[q] /\ cache'[q] = cache[q]
      BY <1>1, <1>7, <2>2 DEF Acknowledge, TypeOK
    <3>. QED
      BY <3>1, ViewRests
  <2>. QED
    BY <2>1, <2>2
<1>8. ASSUME NEW p \in Phones, Listen(p) PROVE Stays(q, id)
  <2>1. CASE q = p
    BY <1>2, <1>3, <1>8, <2>1, StaysListen
  <2>2. CASE q # p
    <3>1. pending'[q] = pending[q] /\ cache'[q] = cache[q]
      BY <1>1, <1>8, <2>2 DEF Listen, TypeOK
    <3>. QED
      BY <3>1, ViewRests
  <2>. QED
    BY <2>1, <2>2
<1>9. CASE UNCHANGED vars
  BY <1>9, ViewRests DEF vars
<1>. QED
  BY <1>4, <1>5, <1>6, <1>7, <1>8, <1>9 DEF Next

\* "delete" and getDocuments(): a feed whose deletion is on a phone's disk stays away from
\* that phone, unless its saver's write is sent once more; and only a deletion takes a feed
\* away.
THEOREM DeletionsLast == Spec => DeletedStaysDeleted
<1>1. IInv /\ IInv' /\ [Next]_vars =>
          [\A p \in Phones, id \in Ids \ Shared' : Stays(p, id)]_vars
  BY StaysStep
<1>2. [\A p \in Phones, id \in Ids \ Shared' : Stays(p, id)]_vars =>
          [\A p \in Phones, id \in Ids \ Shared' :
              /\ /\ id \in doomed[p] /\ id \notin View(p)
                 /\ id \in saved[p] \/ id \notin revived'
                 => id \notin View(p)'
              /\ id \in View(p) /\ id \notin View(p)' => id \in Doomed']_vars
  BY DEF Stays
<1>. QED
  BY <1>1, <1>2, InvariantHolds, PTL DEF Spec, DeletedStaysDeleted

=============================================================================
