--------------------------- MODULE FeedSyncProofs ---------------------------
(***************************************************************************)
(* Proofs about FeedSync, for every number of phones and feeds: no         *)
(* document ever points to a photo that was not either stored, reported as *)
(* failed, or deleted on purpose; each phone's queue is a WriteQueue;      *)
(* every save is in one place (SavedOnce); and the phones together         *)
(* implement the catalogue.                                                *)
(***************************************************************************)
EXTENDS FeedSync, TLAPS

(***************************************************************************)
(* The write queue.                                                        *)
(***************************************************************************)

\* Appending a write adds it, and nothing else, to what is queued.
LEMMA RangeOfAppend ==
    ASSUME NEW S, NEW q \in Seq(S), NEW w \in S
    PROVE  Range(Append(q, w)) = Range(q) \cup {w}
<1>1. DOMAIN Append(q, w) = DOMAIN q \cup {Len(q) + 1}
    OBVIOUS
<1>2. \A i \in DOMAIN q : Append(q, w)[i] = q[i]
    OBVIOUS
<1>3. Append(q, w)[Len(q) + 1] = w
    OBVIOUS
<1> QED
    BY <1>1, <1>2, <1>3 DEF Range

\* Taking the oldest write away queues nothing new.
LEMMA RangeOfTail ==
    ASSUME NEW S, NEW q \in Seq(S), q # <<>>
    PROVE  /\ Head(q) \in Range(q)
           /\ Range(Tail(q)) \subseteq Range(q)
<1>1. 1 \in DOMAIN q /\ Head(q) = q[1]
    OBVIOUS
<1>2. \A i \in DOMAIN Tail(q) : i + 1 \in DOMAIN q /\ Tail(q)[i] = q[i + 1]
    OBVIOUS
<1> QED
    BY <1>1, <1>2 DEF Range

LEMMA Writes ==
    ASSUME NEW id \in Ids
    PROVE  /\ Set(id) \in Write /\ Set(id).op = "set" /\ Set(id).id = id
           /\ Delete(id) \in Write /\ Delete(id).op = "delete" /\ Delete(id).id = id
           /\ \A w \in Write : w.op = "set" /\ w.id = id => w = Set(id)
           /\ \A w \in Write : w.op = "delete" /\ w.id = id => w = Delete(id)
  BY DEF Set, Delete, Write

LEMMA WriteFields ==
    ASSUME NEW w \in Write
    PROVE  w.id \in Ids /\ (w = Set(w.id) \/ w = Delete(w.id)) /\ w.op \in {"set", "delete"}
  BY DEF Set, Delete, Write

\* What is queued, by places.
LEMMA QueuedByPlace ==
    ASSUME NEW p, NEW id \in Ids
    PROVE  /\ id \in Queued(p, "set") <=> Places(p, Set(id)) # {}
           /\ id \in Queued(p, "delete") <=> Places(p, Delete(id)) # {}
  BY DEF Queued, Range, Places, Set, Delete

\* Phone p appends a write w.
Appends(p, w) ==
    /\ pending' = [pending EXCEPT ![p] = Append(@, w)]
    /\ sent' = sent

LEMMA AppendPlaces ==
    ASSUME TypeOK, NEW p \in Phones, NEW w \in Write, Appends(p, w), NEW q \in Phones, NEW v
    PROVE  /\ Len(pending[p]) \in Nat /\ DOMAIN pending[p] = 1..Len(pending[p])
           /\ \A i \in DOMAIN pending[q] : i \in DOMAIN pending'[q] /\ pending'[q][i] = pending[q][i]
           /\ q = p /\ v = w => Places(q, v)' = Places(q, v) \cup {Len(pending[p]) + 1}
           /\ q # p \/ v # w => Places(q, v)' = Places(q, v)
<1>1. pending[p] \in Seq(Write) /\ pending[q] \in Seq(Write)
  BY DEF TypeOK
<1>2. CASE q = p
  <2>1. pending'[q] = Append(pending[p], w)
    BY <1>2 DEF Appends, TypeOK
  <2>2. /\ DOMAIN pending'[q] = DOMAIN pending[p] \cup {Len(pending[p]) + 1}
        /\ pending'[q][Len(pending[p]) + 1] = w
        /\ \A i \in DOMAIN pending[p] : pending'[q][i] = pending[p][i]
        /\ Len(pending[p]) \in Nat /\ DOMAIN pending[p] = 1..Len(pending[p])
    BY <1>1, <2>1
  <2>. QED
    BY <1>2, <2>2 DEF Places
<1>3. CASE q # p
  <2>1. pending'[q] = pending[q]
    BY <1>3 DEF Appends, TypeOK
  <2>. QED
    BY <1>1, <1>3, <2>1 DEF Places
<1>. QED
  BY <1>2, <1>3

LEMMA AppendQueued ==
    ASSUME TypeOK, NEW p \in Phones, NEW w \in Write, Appends(p, w), NEW q \in Phones, NEW op
    PROVE  Queued(q, op)' = Queued(q, op) \cup (IF q = p /\ w.op = op THEN {w.id} ELSE {})
<1>1. pending[p] \in Seq(Write)
  BY DEF TypeOK
<1>2. \A id \in Ids : [op |-> op, id |-> id] = w <=> w.op = op /\ w.id = id
  BY DEF Write
<1>3. w.id \in Ids
  BY WriteFields
<1>4. CASE q = p
  <2>1. pending'[q] = Append(pending[p], w)
    BY <1>4 DEF Appends, TypeOK
  <2>2. Range(pending'[q]) = Range(pending[p]) \cup {w}
    BY <1>1, <2>1, RangeOfAppend
  <2>. QED
    BY <1>2, <1>3, <1>4, <2>2 DEF Queued
<1>5. CASE q # p
  <2>1. pending'[q] = pending[q]
    BY <1>5 DEF Appends, TypeOK
  <2>. QED
    BY <1>5, <2>1 DEF Queued
<1>. QED
  BY <1>4, <1>5

LEMMA Popped ==
    ASSUME NEW S, NEW s \in Seq(S), s # <<>>, NEW t, t = Tail(s)
    PROVE  /\ Head(s) = s[1] /\ 1 \in DOMAIN s /\ Head(s) \in S
           /\ DOMAIN s = 1..Len(s) /\ DOMAIN t = 1..(Len(s) - 1) /\ Len(s) \in Nat
           /\ \A i \in DOMAIN t : i + 1 \in DOMAIN s /\ t[i] = s[i + 1]
           /\ \A i \in DOMAIN s : i # 1 => i - 1 \in DOMAIN t /\ t[i - 1] = s[i]
  OBVIOUS

\* Phone p drops its oldest write.
Drops(p) == pending[p] # <<>> /\ pending' = [pending EXCEPT ![p] = Tail(@)]

LEMMA DropPlaces ==
    ASSUME TypeOK, NEW p \in Phones, Drops(p), NEW v
    PROVE  /\ Places(p, v)' = {i - 1 : i \in Places(p, v) \ {1}}
           /\ \A q \in Phones : q # p => Places(q, v)' = Places(q, v)
           /\ 1 \in Places(p, v) <=> Head(pending[p]) = v
           /\ 1 \in DOMAIN pending[p] /\ Head(pending[p]) = pending[p][1]
           /\ Head(pending[p]) \in Write /\ Places(p, v) \subseteq Nat \ {0}
           /\ DOMAIN pending'[p] \subseteq Nat
           /\ \A i \in DOMAIN pending'[p] :
                  i + 1 \in DOMAIN pending[p] /\ pending'[p][i] = pending[p][i + 1]
<1>1. pending[p] # <<>> /\ pending[p] \in Seq(Write) /\ pending'[p] = Tail(pending[p])
  BY DEF Drops, TypeOK
<1>2. /\ 1 \in DOMAIN pending[p] /\ Head(pending[p]) = pending[p][1]
      /\ DOMAIN pending[p] = 1..Len(pending[p]) /\ Len(pending[p]) \in Nat
      /\ DOMAIN pending'[p] = 1..(Len(pending[p]) - 1)
      /\ \A i \in DOMAIN pending'[p] :
             i + 1 \in DOMAIN pending[p] /\ pending'[p][i] = pending[p][i + 1]
      /\ \A i \in DOMAIN pending[p] :
             i # 1 => i - 1 \in DOMAIN pending'[p] /\ pending'[p][i - 1] = pending[p][i]
      /\ Head(pending[p]) \in Write
  BY <1>1, Popped
<1>3. Places(p, v)' = {i - 1 : i \in Places(p, v) \ {1}}
  <2>1. \A i \in Places(p, v)' : i + 1 \in Places(p, v) \ {1} /\ (i + 1) - 1 = i
    BY <1>2 DEF Places
  <2>2. \A i \in Places(p, v) \ {1} : i - 1 \in Places(p, v)'
    BY <1>2 DEF Places
  <2>. QED
    BY <2>1, <2>2
<1>4. \A q \in Phones : q # p => Places(q, v)' = Places(q, v)
  BY DEF Drops, Places, TypeOK
<1>5. 1 \in Places(p, v) <=> Head(pending[p]) = v
  BY <1>2 DEF Places
<1>6. Places(p, v) \subseteq Nat \ {0}
  BY <1>2 DEF Places
<1>7. DOMAIN pending'[p] \subseteq Nat
  BY <1>2
<1>. QED
  BY <1>2, <1>3, <1>4, <1>5, <1>6, <1>7

LEMMA DropQueued ==
    ASSUME TypeOK, NEW p \in Phones, Drops(p), NEW q \in Phones, NEW op
    PROVE  /\ Queued(q, op)' \subseteq Queued(q, op)
           /\ \A id \in Queued(q, op) \ Queued(q, op)' :
                  q = p /\ Head(pending[p]).op = op /\ Head(pending[p]).id = id
<1>1. pending[p] # <<>> /\ pending[p] \in Seq(Write)
  BY DEF Drops, TypeOK
<1>2. CASE q = p
  <2>1. pending'[q] = Tail(pending[p])
    BY <1>2 DEF Drops, TypeOK
  <2>2. Range(pending[p]) \subseteq Range(Tail(pending[p])) \cup {Head(pending[p])}
    <3>1. \A i \in DOMAIN pending[p] :
              i = 1 \/ (i - 1 \in DOMAIN Tail(pending[p]) /\ Tail(pending[p])[i - 1] = pending[p][i])
      BY <1>1
    <3>2. Head(pending[p]) = pending[p][1]
      BY <1>1
    <3>. QED
      BY <3>1, <3>2 DEF Range
  <2>3. Range(Tail(pending[p])) \subseteq Range(pending[p])
    BY <1>1, RangeOfTail
  <2>. QED
    BY <1>2, <2>1, <2>2, <2>3 DEF Queued
<1>3. CASE q # p
  <2>1. pending'[q] = pending[q]
    BY <1>3 DEF Drops, TypeOK
  <2>. QED
    BY <2>1 DEF Queued
<1>. QED
  BY <1>2, <1>3

-----------------------------------------------------------------------------
(***************************************************************************)
(* The worker queue.                                                       *)
(***************************************************************************)

\* What the worker has tasks for, by their turns.
LEMMA TasksByTurn ==
    ASSUME NEW p, NEW id \in Ids
    PROVE  /\ id \in Tasks(p, "set") <=> Turns(p, Set(id)) # {}
           /\ id \in Tasks(p, "delete") <=> Turns(p, Delete(id)) # {}
  BY DEF Tasks, Range, Turns, Set, Delete

\* Phone p hands the worker a write w.
Hands(p, w) == worker' = [worker EXCEPT ![p] = Append(@, w)]

LEMMA HandTurns ==
    ASSUME TypeOK, NEW p \in Phones, NEW w \in Write, Hands(p, w), NEW q \in Phones, NEW v
    PROVE  /\ q = p /\ v = w => Turns(q, v)' = Turns(q, v) \cup {Len(worker[p]) + 1}
           /\ q # p \/ v # w => Turns(q, v)' = Turns(q, v)
<1>1. worker[p] \in Seq(Write) /\ worker[q] \in Seq(Write)
  BY DEF TypeOK
<1>2. CASE q = p
  <2>1. worker'[q] = Append(worker[p], w)
    BY <1>2 DEF Hands, TypeOK
  <2>2. /\ DOMAIN worker'[q] = DOMAIN worker[p] \cup {Len(worker[p]) + 1}
        /\ worker'[q][Len(worker[p]) + 1] = w
        /\ \A i \in DOMAIN worker[p] : worker'[q][i] = worker[p][i]
    BY <1>1, <2>1
  <2>. QED
    BY <1>2, <2>2 DEF Turns
<1>3. CASE q # p
  <2>1. worker'[q] = worker[q]
    BY <1>3 DEF Hands, TypeOK
  <2>. QED
    BY <1>3, <2>1 DEF Turns
<1>. QED
  BY <1>2, <1>3

LEMMA HandTasks ==
    ASSUME TypeOK, NEW p \in Phones, NEW w \in Write, Hands(p, w), NEW q \in Phones, NEW op
    PROVE  /\ q = p /\ w.op = op => Tasks(q, op)' = Tasks(q, op) \cup {w.id}
           /\ q # p \/ w.op # op => Tasks(q, op)' = Tasks(q, op)
<1>1. worker[p] \in Seq(Write)
  BY DEF TypeOK
<1>2. \A id \in Ids : [op |-> op, id |-> id] = w <=> w.op = op /\ w.id = id
  BY DEF Write
<1>3. w.id \in Ids
  BY WriteFields
<1>4. CASE q = p
  <2>1. worker'[q] = Append(worker[p], w)
    BY <1>4 DEF Hands, TypeOK
  <2>2. Range(worker'[q]) = Range(worker[p]) \cup {w}
    BY <1>1, <2>1, RangeOfAppend
  <2>. QED
    BY <1>2, <1>3, <1>4, <2>2 DEF Tasks
<1>5. CASE q # p
  <2>1. worker'[q] = worker[q]
    BY <1>5 DEF Hands, TypeOK
  <2>. QED
    BY <1>5, <2>1 DEF Tasks
<1>. QED
  BY <1>4, <1>5

LEMMA HandSet ==
    ASSUME TypeOK, NEW p \in Phones, NEW id \in Ids, Hands(p, Set(id)), NEW q \in Phones
    PROVE  /\ Tasks(q, "set")' = Tasks(q, "set") \cup (IF q = p THEN {id} ELSE {})
           /\ Tasks(q, "delete")' = Tasks(q, "delete")
<1>1. Set(id) \in Write /\ Set(id).op = "set" /\ Set(id).op # "delete" /\ Set(id).id = id
  BY Writes
<1>2. /\ q = p => Tasks(q, "set")' = Tasks(q, "set") \cup {id}
      /\ q # p => Tasks(q, "set")' = Tasks(q, "set")
  BY <1>1, HandTasks
<1>3. Tasks(q, "delete")' = Tasks(q, "delete")
  BY <1>1, HandTasks
<1>. QED
  BY <1>2, <1>3

LEMMA HandDelete ==
    ASSUME TypeOK, NEW p \in Phones, NEW id \in Ids, Hands(p, Delete(id)), NEW q \in Phones
    PROVE  /\ Tasks(q, "delete")' = Tasks(q, "delete") \cup (IF q = p THEN {id} ELSE {})
           /\ Tasks(q, "set")' = Tasks(q, "set")
<1>1. Delete(id) \in Write /\ Delete(id).op = "delete" /\ Delete(id).op # "set" /\ Delete(id).id = id
  BY Writes
<1>2. /\ q = p => Tasks(q, "delete")' = Tasks(q, "delete") \cup {id}
      /\ q # p => Tasks(q, "delete")' = Tasks(q, "delete")
  BY <1>1, HandTasks
<1>3. Tasks(q, "set")' = Tasks(q, "set")
  BY <1>1, HandTasks
<1>. QED
  BY <1>2, <1>3

\* The worker of phone p runs its first task.
Runs(p) == worker[p] # <<>> /\ worker' = [worker EXCEPT ![p] = Tail(@)]

LEMMA RunTurns ==
    ASSUME TypeOK, NEW p \in Phones, Runs(p), NEW v
    PROVE  /\ Turns(p, v)' = {i - 1 : i \in Turns(p, v) \ {1}}
           /\ \A q \in Phones : q # p => Turns(q, v)' = Turns(q, v)
           /\ 1 \in Turns(p, v) <=> Head(worker[p]) = v
           /\ Head(worker[p]) \in Write /\ Turns(p, v) \subseteq Nat \ {0}
<1>1. worker[p] # <<>> /\ worker[p] \in Seq(Write) /\ worker'[p] = Tail(worker[p])
  BY DEF Runs, TypeOK
<1>2. /\ 1 \in DOMAIN worker[p] /\ Head(worker[p]) = worker[p][1]
      /\ DOMAIN worker[p] = 1..Len(worker[p]) /\ Len(worker[p]) \in Nat
      /\ \A i \in DOMAIN worker'[p] :
             i \in Nat /\ i + 1 \in DOMAIN worker[p] /\ worker'[p][i] = worker[p][i + 1]
      /\ \A i \in DOMAIN worker[p] :
             i # 1 => i - 1 \in DOMAIN worker'[p] /\ worker'[p][i - 1] = worker[p][i]
      /\ Head(worker[p]) \in Write
  BY <1>1, Popped
<1>3. Turns(p, v)' = {i - 1 : i \in Turns(p, v) \ {1}}
  <2>1. \A i \in Turns(p, v)' : i + 1 \in Turns(p, v) \ {1} /\ (i + 1) - 1 = i
    <3>1. ASSUME NEW i \in Turns(p, v)'
          PROVE  i \in Nat /\ i + 1 \in Turns(p, v) /\ i \in DOMAIN worker'[p]
      BY <1>2 DEF Turns
    <3>2. 0 \notin DOMAIN worker'[p]
      BY <1>1, Popped
    <3>. QED
      BY <3>1, <3>2
  <2>2. \A i \in Turns(p, v) \ {1} : i - 1 \in Turns(p, v)'
    BY <1>2 DEF Turns
  <2>. QED
    BY <2>1, <2>2
<1>4. \A q \in Phones : q # p => Turns(q, v)' = Turns(q, v)
  BY DEF Runs, Turns, TypeOK
<1>5. (1 \in Turns(p, v) <=> Head(worker[p]) = v) /\ Turns(p, v) \subseteq Nat \ {0}
  BY <1>2 DEF Turns
<1>. QED
  BY <1>2, <1>3, <1>4, <1>5

LEMMA RunTasks ==
    ASSUME TypeOK, NEW p \in Phones, Runs(p), NEW q \in Phones, NEW op
    PROVE  /\ Tasks(q, op)' \subseteq Tasks(q, op)
           /\ q = p /\ Head(worker[p]).op = op => Head(worker[p]).id \in Tasks(q, op)
           /\ \A id \in Tasks(q, op) \ Tasks(q, op)' :
                  q = p /\ Head(worker[p]).op = op /\ Head(worker[p]).id = id
<1>1. worker[p] # <<>> /\ worker[p] \in Seq(Write)
  BY DEF Runs, TypeOK
<1>2. CASE q = p
  <2>1. worker'[q] = Tail(worker[p])
    BY <1>2 DEF Runs, TypeOK
  <2>2. Range(worker[p]) \subseteq Range(Tail(worker[p])) \cup {Head(worker[p])}
    <3>1. \A i \in DOMAIN worker[p] :
              i = 1 \/ (i - 1 \in DOMAIN Tail(worker[p]) /\ Tail(worker[p])[i - 1] = worker[p][i])
      BY <1>1
    <3>2. Head(worker[p]) = worker[p][1]
      BY <1>1
    <3>. QED
      BY <3>1, <3>2 DEF Range
  <2>3. Range(Tail(worker[p])) \subseteq Range(worker[p]) /\ Head(worker[p]) \in Range(worker[p])
    BY <1>1, RangeOfTail
  <2>4. Head(worker[p]) \in Write
    BY <1>1, Popped
  <2>5. \A id \in Ids : [op |-> op, id |-> id] = Head(worker[p]) <=>
            Head(worker[p]).op = op /\ Head(worker[p]).id = id
    BY <2>4 DEF Write
  <2>6. Head(worker[p]).id \in Ids
    BY <2>4, WriteFields
  <2>. QED
    BY <1>2, <2>1, <2>2, <2>3, <2>5, <2>6 DEF Tasks
<1>3. CASE q # p
  <2>1. worker'[q] = worker[q]
    BY <1>3 DEF Runs, TypeOK
  <2>. QED
    BY <1>3, <2>1 DEF Tasks
<1>. QED
  BY <1>2, <1>3

\* A phone that dies has no tasks left; the others keep theirs.
LEMMA RestartTasks ==
    ASSUME TypeOK, NEW p \in Phones, Restart(p), NEW q \in Phones, NEW v, NEW op
    PROVE  /\ Tasks(q, op)' = IF q = p THEN {} ELSE Tasks(q, op)
           /\ Turns(q, v)' = IF q = p THEN {} ELSE Turns(q, v)
<1>1. worker' = [worker EXCEPT ![p] = <<>>]
  BY DEF Restart
<1>2. worker'[q] = IF q = p THEN <<>> ELSE worker[q]
  BY <1>1 DEF TypeOK
<1>. QED
  BY <1>2 DEF Tasks, Turns, Range

\* The worker's first task puts its write on disk.
LEMMA WritesHead ==
    ASSUME TypeOK, NEW p \in Phones, WriteLocally(p)
    PROVE  /\ Runs(p) /\ Head(worker[p]) \in Write /\ Appends(p, Head(worker[p]))
           /\ Head(worker[p]) \in Range(worker[p])
<1>1. Runs(p) /\ Appends(p, Head(worker[p]))
  BY DEF WriteLocally, Runs, Appends, connection
<1>2. worker[p] \in Seq(Write) /\ worker[p] # <<>>
  BY <1>1 DEF Runs, TypeOK
<1>. QED
  BY <1>1, <1>2, Popped, RangeOfTail

-----------------------------------------------------------------------------
\* The initial states satisfy the invariant: everything is empty.
LEMMA InitInvariant == Init => PhotoInv
<1> SUFFICES ASSUME Init PROVE PhotoInv
    OBVIOUS
<1>1. pending \in [Phones -> Seq(Write)] /\ worker \in [Phones -> Seq(Write)]
    BY DEF Init
<1>2. TypeOK
    BY <1>1 DEF Init, NoId, TypeOK
<1>3. \A p \in Phones : /\ completions[p] = {} /\ photoDeletes[p] = {}
                         /\ Queued(p, "set") = {} /\ Tasks(p, "set") = {}
    BY DEF Init, NoId, Queued, Tasks, Range
<1> QED
    BY <1>2, <1>3 DEF PhotoInv, EndedBeforeWritten, WrittenSettled, PhotoDeletesAsked, Init

-----------------------------------------------------------------------------
(***************************************************************************)
(* One lemma for types, then one step per action.                          *)
(***************************************************************************)

\* The variables a step of one phone leaves alone keep their types: what is left to show
\* of a step that touches neither queues nor connections.
LEMMA TypeStepInMemory ==
    ASSUME TypeOK, UNCHANGED <<worker, pending, sent>>, lost' \in SUBSET Ids,
           docs' \in SUBSET Ids, bucket' \in SUBSET Ids, failed' \in SUBSET Ids,
           removed' \in SUBSET Ids, revived' \in SUBSET Ids,
           uploads' \in [Phones -> SUBSET Ids], completions' \in [Phones -> SUBSET Ids],
           cache' \in [Phones -> SUBSET Ids], deletes' \in [Phones -> SUBSET Ids],
           photoDeletes' \in [Phones -> SUBSET Ids], saved' \in [Phones -> SUBSET Ids],
           doomed' \in [Phones -> SUBSET Ids], newer' \in [Phones -> SUBSET Ids]
    PROVE  TypeOK'
<1> QED
    BY DEF TypeOK

\* A phone that queues a write: its queue is one longer.
LEMMA TypeAfterAppend ==
    ASSUME TypeOK, NEW p \in Phones, NEW w \in Write,
           pending' = [pending EXCEPT ![p] = Append(@, w)], sent' = sent
    PROVE  /\ pending' \in [Phones -> Seq(Write)]
           /\ sent' \in [Phones -> Nat] /\ \A q \in Phones : sent'[q] <= Len(pending'[q])
<1>1. pending[p] \in Seq(Write)
    BY DEF TypeOK
<1>2. Append(pending[p], w) \in Seq(Write) /\ Len(Append(pending[p], w)) = Len(pending[p]) + 1
    BY <1>1
<1>3. pending' \in [Phones -> Seq(Write)]
    BY <1>2 DEF TypeOK
<1>4. sent' \in [Phones -> Nat]
    BY DEF TypeOK
<1>5. ASSUME NEW q \in Phones PROVE sent'[q] <= Len(pending'[q])
    <2>1. sent[q] \in Nat /\ Len(pending[q]) \in Nat /\ sent[q] <= Len(pending[q])
        BY DEF TypeOK
    <2>2. CASE q = p
        BY <2>1, <2>2, <1>2 DEF TypeOK
    <2>3. CASE q # p
        BY <2>1, <2>3 DEF TypeOK
    <2> QED
        BY <2>2, <2>3
<1> QED
    BY <1>3, <1>4, <1>5

\* A phone that hands its worker a write, and one whose worker runs a task.
LEMMA TypeAfterHand ==
    ASSUME TypeOK, NEW p \in Phones, NEW w \in Write, Hands(p, w)
    PROVE  worker' \in [Phones -> Seq(Write)]
<1>1. worker[p] \in Seq(Write)
    BY DEF TypeOK
<1>2. Append(worker[p], w) \in Seq(Write)
    BY <1>1
<1> QED
    BY <1>2 DEF TypeOK, Hands

LEMMA TypeAfterRun ==
    ASSUME TypeOK, NEW p \in Phones, Runs(p)
    PROVE  worker' \in [Phones -> Seq(Write)]
<1>1. worker[p] \in Seq(Write) /\ worker[p] # <<>>
    BY DEF TypeOK, Runs
<1>2. Tail(worker[p]) \in Seq(Write)
    BY <1>1
<1> QED
    BY <1>2 DEF TypeOK, Runs

\* The feeds of the writes the server took are feeds.
LEMMA TakenAreIds == ASSUME TypeOK, NEW p \in Phones PROVE TakenIds(p) \subseteq Ids
<1>1. pending[p] \in Seq(Write) /\ sent[p] \in Nat /\ sent[p] <= Len(pending[p])
    BY DEF TypeOK
<1>2. \A i \in 1..sent[p] : pending[p][i] \in Write
    BY <1>1
<1> QED
    BY <1>2 DEF TakenIds, Write

\* No step takes a variable out of its type.
LEMMA TypeStep == TypeOK /\ [Next]_vars => TypeOK'
<1> SUFFICES ASSUME TypeOK, [Next]_vars PROVE TypeOK'
    OBVIOUS
<1> USE DEF history, connection
<1>1. ASSUME NEW p \in Phones, NEW id \in Ids, SaveData(p, id) PROVE TypeOK'
    BY <1>1, TypeStepInMemory DEF SaveData, TypeOK
<1>2. ASSUME NEW p \in Phones, NEW id \in Ids, UploadEnds(p, id) PROVE TypeOK'
    BY <1>2, TypeStepInMemory DEF UploadEnds, TypeOK
<1>3. ASSUME NEW p \in Phones, NEW id \in Ids, UploadCompletion(p, id) PROVE TypeOK'
    <2>1. worker' \in [Phones -> Seq(Write)]
        BY <1>3, Writes, TypeAfterHand DEF UploadCompletion, Hands
    <2> QED
        BY <1>3, <2>1 DEF UploadCompletion, TypeOK
<1>4. ASSUME NEW p \in Phones, NEW id \in Ids, Answer(p, id) PROVE TypeOK'
    BY <1>4, TypeStepInMemory DEF Answer, TypeOK
<1>5. ASSUME NEW p \in Phones, NEW id \in Ids, DeleteCallback(p, id) PROVE TypeOK'
    <2>1. worker' \in [Phones -> Seq(Write)]
        BY <1>5, Writes, TypeAfterHand DEF DeleteCallback, Hands
    <2> QED
        BY <1>5, <2>1 DEF DeleteCallback, TypeOK
<1>6. ASSUME NEW p \in Phones, NEW id \in Ids, PhotoDeleteEnds(p, id) PROVE TypeOK'
    BY <1>6, TypeStepInMemory DEF PhotoDeleteEnds, TypeOK
<1>7. ASSUME NEW p \in Phones, Take(p) PROVE TypeOK'
    <2> DEFINE write == pending[p][sent[p] + 1]
    <2>1. /\ pending[p] \in Seq(Write) /\ sent[p] \in Nat
          /\ sent[p] < Len(pending[p]) /\ Len(pending[p]) \in Nat
        BY <1>7 DEF Take, TypeOK
    <2>2. write \in Write
        BY <2>1
    <2>3. write.id \in Ids
        BY <2>2 DEF Write
    <2>4. /\ sent' = [sent EXCEPT ![p] = @ + 1]
          /\ newer' = [newer EXCEPT ![p] = @ \ {write.id}]
          /\ docs' = docs \cup {write.id} \/ docs' = docs \ {write.id}
          /\ revived' = revived \/ revived' = revived \cup (removed \cap {write.id})
          /\ removed' = removed \/ removed' = removed \cup (docs \cap {write.id})
        BY <1>7 DEF Take
    <2> HIDE DEF write
    <2>5. docs' \in SUBSET Ids /\ removed' \in SUBSET Ids /\ revived' \in SUBSET Ids
        BY <2>3, <2>4 DEF TypeOK
    <2>6. newer' \in [Phones -> SUBSET Ids]
        BY <2>4 DEF TypeOK
    <2>7. UNCHANGED <<bucket, uploads, completions, worker, cache, pending, deletes,
                      photoDeletes, saved, failed, lost, doomed>>
        BY <1>7 DEF Take
    <2>8. sent' \in [Phones -> Nat] /\ \A q \in Phones : sent'[q] <= Len(pending'[q])
        BY <2>1, <2>4, <2>7 DEF TypeOK
    <2> QED
        BY <2>5, <2>6, <2>7, <2>8 DEF TypeOK
<1>8. ASSUME NEW p \in Phones, Acknowledge(p) PROVE TypeOK'
    <2> DEFINE seen == Applied(Head(pending[p]), cache[p], newer[p])
    <2>1. /\ pending[p] \in Seq(Write) /\ sent[p] \in Nat /\ sent[p] > 0
          /\ sent[p] <= Len(pending[p]) /\ Len(pending[p]) \in Nat
        BY <1>8 DEF Acknowledge, TypeOK
    <2>2. pending[p] # <<>>
        BY <2>1
    <2>3. /\ Head(pending[p]) \in Write /\ Tail(pending[p]) \in Seq(Write)
          /\ Len(Tail(pending[p])) = Len(pending[p]) - 1
        BY <2>1, <2>2
    <2>4. Head(pending[p]).id \in Ids
        BY <2>3 DEF Write
    <2>5. cache[p] \in SUBSET Ids
        BY DEF TypeOK
    <2>6. seen \in SUBSET Ids
        BY <2>4, <2>5 DEF Applied
    <2>7. /\ cache' = [cache EXCEPT ![p] = seen]
          /\ pending' = [pending EXCEPT ![p] = Tail(@)]
          /\ sent' = [sent EXCEPT ![p] = @ - 1]
          /\ newer' = [newer EXCEPT ![p] = @ \cap TakenIds(p)']
          /\ UNCHANGED <<docs, bucket, uploads, completions, worker, deletes, photoDeletes,
                         history>>
        BY <1>8 DEF Acknowledge
    <2> HIDE DEF seen
    <2>8. cache' \in [Phones -> SUBSET Ids] /\ newer' \in [Phones -> SUBSET Ids]
        BY <2>6, <2>7 DEF TypeOK
    <2>9. pending' \in [Phones -> Seq(Write)]
        BY <2>3, <2>7 DEF TypeOK
    <2>10. sent' \in [Phones -> Nat]
        BY <2>1, <2>7 DEF TypeOK
    <2>11. ASSUME NEW q \in Phones PROVE sent'[q] <= Len(pending'[q])
        <3>1. CASE q = p
            BY <3>1, <2>1, <2>3, <2>7 DEF TypeOK
        <3>2. CASE q # p
            BY <3>2, <2>7 DEF TypeOK
        <3> QED
            BY <3>1, <3>2
    <2> QED
        BY <2>7, <2>8, <2>9, <2>10, <2>11 DEF TypeOK
<1>9. ASSUME NEW p \in Phones, Disconnect(p) PROVE TypeOK'
    BY <1>9 DEF Disconnect, TypeOK
<1>10. ASSUME NEW p \in Phones, Listen(p) PROVE TypeOK'
    <2>1. cache' \in [Phones -> SUBSET Ids]
        BY <1>10 DEF Listen, TypeOK
    <2>2. \E unsaid : newer' = [newer EXCEPT ![p] = TakenIds(p) \ unsaid]
        BY <1>10 DEF Listen
    <2>3. newer' \in [Phones -> SUBSET Ids]
        BY <2>2, TakenAreIds DEF TypeOK
    <2> QED
        BY <1>10, <2>1, <2>3, TypeStepInMemory DEF Listen, TypeOK
<1>11. ASSUME NEW p \in Phones, Restart(p) PROVE TypeOK'
    <2>1. worker' \in [Phones -> Seq(Write)]
        BY <1>11 DEF Restart, TypeOK
    <2>2. lost' \in SUBSET Ids
        BY <1>11 DEF Restart, Tasks, TypeOK
    <2> QED
        BY <1>11, <2>1, <2>2 DEF Restart, TypeOK
<1>12. ASSUME NEW p \in Phones, WriteLocally(p) PROVE TypeOK'
    <2> DEFINE w == Head(worker[p])
    <2>1. Runs(p) /\ w \in Write /\ Appends(p, w)
        BY <1>12, WritesHead
    <2>2. w.id \in Ids
        BY <2>1, WriteFields
    <2>3. /\ doomed' = [doomed EXCEPT ![p] = @ \cup (IF w.op = "delete" THEN {w.id} ELSE {})]
          /\ UNCHANGED <<docs, bucket, uploads, completions, cache, newer, deletes,
                         photoDeletes, saved, failed, lost, removed, revived>>
        BY <1>12 DEF WriteLocally
    <2> HIDE DEF w
    <2>4. doomed' \in [Phones -> SUBSET Ids]
        BY <2>2, <2>3 DEF TypeOK
    <2>5. worker' \in [Phones -> Seq(Write)]
        BY <2>1, TypeAfterRun
    <2>6. /\ pending' \in [Phones -> Seq(Write)]
          /\ sent' \in [Phones -> Nat] /\ \A q \in Phones : sent'[q] <= Len(pending'[q])
        BY <2>1, TypeAfterAppend DEF Appends
    <2> QED
        BY <2>3, <2>4, <2>5, <2>6 DEF TypeOK
<1>13. CASE UNCHANGED vars
    BY <1>13 DEF vars, TypeOK
<1> QED
    BY <1>1, <1>2, <1>3, <1>4, <1>5, <1>6, <1>7, <1>8, <1>9, <1>10, <1>11, <1>12, <1>13 DEF Next

\* A deletion that was called for stays so: it waits for the worker, is on disk, or died.
LEMMA AskedStays ==
    ASSUME TypeOK, [Next]_vars, NEW q \in Phones
    PROVE  AskedBy(q) \subseteq AskedBy(q)'
<1> USE DEF history
<1>1. ASSUME UNCHANGED <<worker, lost, doomed>> PROVE AskedBy(q) \subseteq AskedBy(q)'
    BY <1>1 DEF AskedBy, Tasks
<1>2. ASSUME NEW p \in Phones, NEW w \in Write, Hands(p, w), UNCHANGED <<lost, doomed>>
      PROVE  AskedBy(q) \subseteq AskedBy(q)'
    <2>1. Tasks(q, "delete") \subseteq Tasks(q, "delete")'
        BY <1>2, HandTasks
    <2> QED
        BY <1>2, <2>1 DEF AskedBy
<1>3. ASSUME NEW p \in Phones, WriteLocally(p) PROVE AskedBy(q) \subseteq AskedBy(q)'
    <2> DEFINE w == Head(worker[p])
    <2>1. Runs(p)
        BY <1>3, WritesHead
    <2>2. \A id \in Tasks(q, "delete") \ Tasks(q, "delete")' :
              q = p /\ w.op = "delete" /\ w.id = id
        BY <2>1, RunTasks
    <2>3. lost' = lost
          /\ doomed' = [doomed EXCEPT ![p] = @ \cup (IF w.op = "delete" THEN {w.id} ELSE {})]
        BY <1>3 DEF WriteLocally
    <2> HIDE DEF w
    <2>4. doomed[q] \subseteq doomed'[q]
          /\ (q = p /\ w.op = "delete" => w.id \in doomed'[q])
        BY <2>3 DEF TypeOK
    <2> QED
        BY <2>2, <2>3, <2>4 DEF AskedBy
<1>4. ASSUME NEW p \in Phones, Restart(p) PROVE AskedBy(q) \subseteq AskedBy(q)'
    <2>1. lost' = lost \cup Tasks(p, "delete") /\ doomed' = doomed
        BY <1>4 DEF Restart
    <2>2. CASE q = p
        BY <2>1, <2>2 DEF AskedBy
    <2>3. CASE q # p
        <3>1. worker'[q] = worker[q]
            BY <1>4, <2>3 DEF Restart, TypeOK
        <3> QED
            BY <2>1, <3>1 DEF AskedBy, Tasks
    <2> QED
        BY <2>2, <2>3
<1>5. ASSUME NEW p \in Phones, NEW id \in Ids, UploadCompletion(p, id) \/ DeleteCallback(p, id)
      PROVE  AskedBy(q) \subseteq AskedBy(q)'
    <2>1. PICK w \in Write : Hands(p, w)
        BY <1>5, Writes DEF UploadCompletion, DeleteCallback, Hands
    <2> QED
        BY <1>2, <1>5, <2>1 DEF UploadCompletion, DeleteCallback
<1>6. ASSUME NEW p \in Phones, NEW id \in Ids,
             SaveData(p, id) \/ UploadEnds(p, id) \/ Answer(p, id) \/ PhotoDeleteEnds(p, id)
      PROVE  UNCHANGED <<worker, lost, doomed>>
    BY <1>6 DEF SaveData, UploadEnds, Answer, PhotoDeleteEnds
<1>7. ASSUME NEW p \in Phones, Take(p) \/ Acknowledge(p) \/ Disconnect(p) \/ Listen(p)
      PROVE  UNCHANGED <<worker, lost, doomed>>
    BY <1>7 DEF Take, Acknowledge, Disconnect, Listen
<1>8. UNCHANGED vars => UNCHANGED <<worker, lost, doomed>>
    BY DEF vars
<1> QED
    BY <1>1, <1>3, <1>4, <1>5, <1>6, <1>7, <1>8 DEF Next

\* What phone p's upload has ended of, and has not been taken off its queue.
Due(p) == completions[p] \cup Tasks(p, "set") \cup Queued(p, "set")

\* Whatever leaves documents and photos alone, and lets nothing fall due and no photo
\* deletion begin, keeps the invariant.
LEMMA QuietStep ==
    ASSUME PhotoInv, TypeOK', [Next]_vars, UNCHANGED <<docs, bucket, failed>>,
           \A p \in Phones : Due(p)' \subseteq Due(p) /\ photoDeletes'[p] \subseteq photoDeletes[p]
    PROVE  PhotoInv'
<1>1. \A p \in Phones : AskedBy(p) \subseteq AskedBy(p)'
    BY AskedStays DEF PhotoInv
<1>2. Settled \subseteq Settled'
    BY <1>1 DEF Settled, Asked
<1>3. \A p \in Phones : Due(p) \subseteq Settled
    BY DEF PhotoInv, EndedBeforeWritten, Due
<1>4. EndedBeforeWritten'
    <2>1. \A p \in Phones : Due(p)' \subseteq Settled'
        BY <1>2, <1>3
    <2> QED
        BY <2>1 DEF EndedBeforeWritten, Due
<1>5. WrittenSettled' /\ PhotoDeletesAsked'
    BY <1>1, <1>2 DEF PhotoInv, WrittenSettled, PhotoDeletesAsked
<1> QED
    BY <1>4, <1>5 DEF PhotoInv

\* No step breaks the invariant.
LEMMA NextInvariant == PhotoInv /\ [Next]_vars => PhotoInv'
<1> SUFFICES ASSUME PhotoInv, [Next]_vars PROVE PhotoInv'
    OBVIOUS
<1>t. TypeOK /\ TypeOK'
    BY TypeStep DEF PhotoInv
<1>a. \A q \in Phones : AskedBy(q) \subseteq AskedBy(q)'
    BY <1>t, AskedStays
<1>b. Asked \subseteq Asked'
    BY <1>a DEF Asked
<1>q. ASSUME UNCHANGED <<worker, pending>>, NEW q \in Phones
      PROVE  Tasks(q, "set")' = Tasks(q, "set") /\ Queued(q, "set")' = Queued(q, "set")
    BY <1>q DEF Tasks, Queued
<1>1. ASSUME NEW p \in Phones, NEW id \in Ids, SaveData(p, id) \/ Answer(p, id)
      PROVE  PhotoInv'
    <2>1. UNCHANGED <<docs, bucket, failed, completions, photoDeletes, worker, pending>>
        BY <1>1 DEF SaveData, Answer, history
    <2> QED
        BY <1>t, <1>q, <2>1, QuietStep DEF Due
<1>2. ASSUME NEW p \in Phones, NEW id \in Ids, UploadEnds(p, id) PROVE PhotoInv'
    <2>1. Settled \cup {id} \subseteq Settled'
        BY <1>2, <1>b DEF UploadEnds, Settled
    <2>2. \A q \in Phones : completions'[q] \subseteq completions[q] \cup {id}
        BY <1>2, <1>t DEF UploadEnds, TypeOK
    <2>3. UNCHANGED <<worker, pending, docs, photoDeletes>>
        BY <1>2 DEF UploadEnds
    <2>4. EndedBeforeWritten'
        BY <1>q, <2>1, <2>2, <2>3 DEF PhotoInv, EndedBeforeWritten
    <2>5. WrittenSettled' /\ PhotoDeletesAsked'
        BY <1>a, <2>1, <2>3 DEF PhotoInv, WrittenSettled, PhotoDeletesAsked
    <2> QED
        BY <1>t, <2>4, <2>5 DEF PhotoInv
<1>3. ASSUME NEW p \in Phones, NEW id \in Ids, UploadCompletion(p, id) PROVE PhotoInv'
    <2>1. /\ id \in completions[p] /\ completions' = [completions EXCEPT ![p] = @ \ {id}]
          /\ Hands(p, Set(id)) /\ UNCHANGED <<docs, bucket, failed, photoDeletes, pending>>
        BY <1>3 DEF UploadCompletion, Hands, history
    <2>2. \A q \in Phones :
              Tasks(q, "set")' \subseteq Tasks(q, "set") \cup (IF q = p THEN {id} ELSE {})
        BY <1>t, <2>1, HandSet
    <2>3. \A q \in Phones : completions'[q] \subseteq completions[q]
        BY <1>t, <2>1 DEF TypeOK
    <2>4. \A q \in Phones : Queued(q, "set")' = Queued(q, "set")
        BY <2>1 DEF Queued
    <2>5. \A q \in Phones : Due(q)' \subseteq Due(q)
        BY <2>1, <2>2, <2>3, <2>4 DEF Due
    <2> QED
        BY <1>t, <2>1, <2>5, QuietStep
<1>4. ASSUME NEW p \in Phones, WriteLocally(p) PROVE PhotoInv'
    <2> DEFINE w == Head(worker[p])
    <2>1. Runs(p) /\ w \in Write /\ Appends(p, w)
        BY <1>4, <1>t, WritesHead
    <2>2. UNCHANGED <<docs, bucket, failed, completions, photoDeletes>>
        BY <1>4 DEF WriteLocally
    <2>3. ASSUME NEW q \in Phones PROVE Due(q)' \subseteq Due(q)
        <3>1. /\ Tasks(q, "set")' \subseteq Tasks(q, "set")
              /\ q = p /\ w.op = "set" => w.id \in Tasks(q, "set")
            BY <1>t, <2>1, RunTasks
        <3>2. Queued(q, "set")' =
                  Queued(q, "set") \cup (IF q = p /\ w.op = "set" THEN {w.id} ELSE {})
            BY <1>t, <2>1, AppendQueued
        <3> QED
            BY <2>2, <3>1, <3>2 DEF Due
    <2> QED
        BY <1>t, <2>2, <2>3, QuietStep
<1>5. ASSUME NEW p \in Phones, NEW id \in Ids, DeleteCallback(p, id) PROVE PhotoInv'
    <2>1. /\ Hands(p, Delete(id)) /\ photoDeletes' = [photoDeletes EXCEPT ![p] = @ \cup {id}]
          /\ UNCHANGED <<docs, bucket, failed, completions, pending>>
        BY <1>5 DEF DeleteCallback, Hands, history
    <2>2. Settled \subseteq Settled'
        BY <1>b, <2>1 DEF Settled
    <2>3. \A q \in Phones : Tasks(q, "set")' = Tasks(q, "set")
        BY <1>t, <2>1, HandDelete
    <2>4. \A q \in Phones : Queued(q, "set")' = Queued(q, "set")
        BY <2>1 DEF Queued
    <2>5. id \in AskedBy(p)'
        BY <1>t, <2>1, HandDelete DEF AskedBy
    <2>6. EndedBeforeWritten' /\ WrittenSettled'
        BY <2>1, <2>2, <2>3, <2>4 DEF PhotoInv, EndedBeforeWritten, WrittenSettled
    <2>7. PhotoDeletesAsked'
        BY <1>a, <1>t, <2>1, <2>5 DEF PhotoInv, PhotoDeletesAsked, TypeOK
    <2> QED
        BY <1>t, <2>6, <2>7 DEF PhotoInv
<1>6. ASSUME NEW p \in Phones, NEW id \in Ids, PhotoDeleteEnds(p, id) PROVE PhotoInv'
    <2>1. /\ id \in photoDeletes[p] /\ photoDeletes' = [photoDeletes EXCEPT ![p] = @ \ {id}]
          /\ bucket \ {id} \subseteq bucket'
          /\ UNCHANGED <<docs, failed, completions, worker, pending>>
        BY <1>6 DEF PhotoDeleteEnds, history
    <2>2. id \in Asked'
        BY <1>b, <2>1 DEF PhotoInv, PhotoDeletesAsked, Asked
    <2>3. Settled \subseteq Settled'
        BY <1>b, <2>1, <2>2 DEF Settled
    <2>4. EndedBeforeWritten' /\ WrittenSettled'
        BY <1>q, <2>1, <2>3 DEF PhotoInv, EndedBeforeWritten, WrittenSettled
    <2>5. \A q \in Phones : photoDeletes'[q] \subseteq photoDeletes[q]
        BY <1>t, <2>1 DEF TypeOK
    <2>6. PhotoDeletesAsked'
        BY <1>a, <2>5 DEF PhotoInv, PhotoDeletesAsked
    <2> QED
        BY <1>t, <2>4, <2>6 DEF PhotoInv
<1>7. ASSUME NEW p \in Phones, Take(p) PROVE PhotoInv'
    <2> DEFINE write == pending[p][sent[p] + 1]
    <2>1. /\ pending[p] \in Seq(Write) /\ sent[p] \in Nat
          /\ sent[p] < Len(pending[p]) /\ Len(pending[p]) \in Nat
        BY <1>7, <1>t DEF Take, TypeOK
    <2>2. write \in Range(pending[p]) /\ write \in Write
        BY <2>1 DEF Range
    <2>3. write.op = "set" => write.id \in Queued(p, "set")
        BY <2>2 DEF Queued, Write
    <2>4. docs' \subseteq docs \cup Queued(p, "set")
        BY <1>7, <2>3 DEF Take
    <2>5. UNCHANGED <<bucket, failed, completions, worker, pending, photoDeletes>>
        BY <1>7 DEF Take
    <2>6. Settled \subseteq Settled'
        BY <1>b, <2>5 DEF Settled
    <2>7. EndedBeforeWritten' /\ WrittenSettled'
        BY <1>q, <2>4, <2>5, <2>6 DEF PhotoInv, EndedBeforeWritten, WrittenSettled
    <2>8. PhotoDeletesAsked'
        BY <1>a, <2>5 DEF PhotoInv, PhotoDeletesAsked
    <2> QED
        BY <1>t, <2>7, <2>8 DEF PhotoInv
<1>8. ASSUME NEW p \in Phones, Acknowledge(p) PROVE PhotoInv'
    <2>1. pending[p] # <<>> /\ pending' = [pending EXCEPT ![p] = Tail(@)]
        BY <1>8, <1>t DEF Acknowledge, TypeOK
    <2>2. \A q \in Phones : Queued(q, "set")' \subseteq Queued(q, "set")
        BY <1>t, <2>1, DropQueued DEF Drops
    <2>3. UNCHANGED <<docs, bucket, failed, completions, worker, photoDeletes>>
        BY <1>8 DEF Acknowledge, history
    <2>4. \A q \in Phones : Due(q)' \subseteq Due(q)
        BY <2>2, <2>3 DEF Due, Tasks
    <2> QED
        BY <1>t, <2>3, <2>4, QuietStep
<1>9. ASSUME NEW p \in Phones, Disconnect(p) \/ Listen(p) PROVE PhotoInv'
    <2>1. UNCHANGED <<docs, bucket, failed, completions, photoDeletes, worker, pending>>
        BY <1>9 DEF Disconnect, Listen, history
    <2> QED
        BY <1>t, <1>q, <2>1, QuietStep DEF Due
<1>10. ASSUME NEW p \in Phones, Restart(p) PROVE PhotoInv'
    <2>1. \A q \in Phones : /\ completions'[q] \subseteq completions[q]
                             /\ photoDeletes'[q] \subseteq photoDeletes[q]
        BY <1>10, <1>t DEF Restart, TypeOK
    <2>2. \A q \in Phones : Tasks(q, "set")' \subseteq Tasks(q, "set")
        BY <1>10, <1>t, RestartTasks
    <2>3. UNCHANGED <<docs, bucket, failed, pending>>
        BY <1>10 DEF Restart
    <2>4. \A q \in Phones : Due(q)' \subseteq Due(q)
        BY <2>1, <2>2, <2>3 DEF Due, Queued
    <2> QED
        BY <1>t, <2>1, <2>3, <2>4, QuietStep
<1>11. CASE UNCHANGED vars
    <2>1. UNCHANGED <<docs, bucket, failed, completions, photoDeletes, worker, pending>>
        BY <1>11 DEF vars, history
    <2> QED
        BY <1>t, <1>q, <2>1, QuietStep DEF Due
<1> QED
    BY <1>1, <1>2, <1>3, <1>4, <1>5, <1>6, <1>7, <1>8, <1>9, <1>10, <1>11 DEF Next

-----------------------------------------------------------------------------
\* Every reachable state satisfies the inductive invariant about photos.
THEOREM PhotoInvHolds == Spec => []PhotoInv
<1> QED
    BY InitInvariant, NextInvariant, PTL DEF Spec

\* A document without its photo is one whose upload failed or that delete() was called for
\* (putData's completion is the only writer, and it runs after the upload ended).
THEOREM NoDangling == Spec => []NoDanglingFeed
<1>1. PhotoInv => NoDanglingFeed
    BY DEF PhotoInv, WrittenSettled, Settled, NoDanglingFeed
<1> QED
    BY <1>1, PhotoInvHolds, PTL

-----------------------------------------------------------------------------
(***************************************************************************)
(* Each phone's queue is a WriteQueue.                                     *)
(***************************************************************************)

\* A step that leaves a phone's queue and connection alone.
LEMMA QueueRests ==
    ASSUME NEW q \in Phones, pending'[q] = pending[q], sent'[q] = sent[q]
    PROVE  [Queue(q)!Next]_(Queue(q)!vars)
<1> QED
    BY DEF Queue!vars

\* Another phone's step, one that appends a write, and one that begins again.
LEMMA QueueGrows ==
    ASSUME TypeOK, NEW p \in Phones, NEW q \in Phones, NEW w \in Write,
           pending' = [pending EXCEPT ![p] = Append(@, w)], sent' = sent
    PROVE  [Queue(q)!Next]_(Queue(q)!vars)
<1>1. CASE q = p
    <2>1. pending'[q] = Append(pending[q], w) /\ sent'[q] = sent[q]
        BY <1>1 DEF TypeOK
    <2> QED
        BY <2>1 DEF Queue!Next, Queue!Enqueue
<1>2. CASE q # p
    <2>1. pending'[q] = pending[q] /\ sent'[q] = sent[q]
        BY <1>2 DEF TypeOK
    <2> QED
        BY <2>1, QueueRests
<1> QED
    BY <1>1, <1>2

LEMMA QueueBeginsAgain ==
    ASSUME TypeOK, NEW p \in Phones, NEW q \in Phones,
           sent' = [sent EXCEPT ![p] = 0], pending' = pending
    PROVE  [Queue(q)!Next]_(Queue(q)!vars)
<1>1. CASE q = p
    <2>1. pending'[q] = pending[q] /\ sent'[q] = 0
        BY <1>1 DEF TypeOK
    <2> QED
        BY <2>1 DEF Queue!Next, Queue!BeginAgain
<1>2. CASE q # p
    <2>1. pending'[q] = pending[q] /\ sent'[q] = sent[q]
        BY <1>2 DEF TypeOK
    <2> QED
        BY <2>1, QueueRests
<1> QED
    BY <1>1, <1>2

LEMMA QueueStep ==
    ASSUME TypeOK, [Next]_vars, NEW q \in Phones
    PROVE  [Queue(q)!Next]_(Queue(q)!vars)
<1> USE DEF history, connection
<1>1. CASE pending' = pending /\ sent' = sent
    BY <1>1, QueueRests
<1>2. ASSUME NEW p \in Phones, WriteLocally(p) PROVE [Queue(q)!Next]_(Queue(q)!vars)
    BY <1>2, WritesHead, QueueGrows DEF Appends
<1>3. ASSUME NEW p \in Phones, NEW id \in Ids, UploadCompletion(p, id) \/ DeleteCallback(p, id)
      PROVE  pending' = pending /\ sent' = sent
    BY <1>3 DEF UploadCompletion, DeleteCallback
<1>4. ASSUME NEW p \in Phones, Take(p) PROVE [Queue(q)!Next]_(Queue(q)!vars)
    <2>1. /\ sent[p] < Len(pending[p]) /\ pending' = pending
          /\ sent' = [sent EXCEPT ![p] = @ + 1]
        BY <1>4 DEF Take
    <2>2. CASE q = p
        <3>1. sent[q] < Len(pending[q]) /\ sent'[q] = sent[q] + 1 /\ pending'[q] = pending[q]
            BY <2>1, <2>2 DEF TypeOK
        <3> QED
            BY <3>1 DEF Queue!Next, Queue!Take
    <2>3. CASE q # p
        <3>1. pending'[q] = pending[q] /\ sent'[q] = sent[q]
            BY <2>1, <2>3 DEF TypeOK
        <3> QED
            BY <3>1, QueueRests
    <2> QED
        BY <2>2, <2>3
<1>5. ASSUME NEW p \in Phones, Acknowledge(p) PROVE [Queue(q)!Next]_(Queue(q)!vars)
    <2>1. /\ sent[p] > 0 /\ pending' = [pending EXCEPT ![p] = Tail(@)]
          /\ sent' = [sent EXCEPT ![p] = @ - 1]
        BY <1>5 DEF Acknowledge
    <2>2. CASE q = p
        <3>1. sent[q] > 0 /\ sent'[q] = sent[q] - 1 /\ pending'[q] = Tail(pending[q])
            BY <2>1, <2>2 DEF TypeOK
        <3> QED
            BY <3>1 DEF Queue!Next, Queue!Acknowledge
    <2>3. CASE q # p
        <3>1. pending'[q] = pending[q] /\ sent'[q] = sent[q]
            BY <2>1, <2>3 DEF TypeOK
        <3> QED
            BY <3>1, QueueRests
    <2> QED
        BY <2>2, <2>3
<1>6. ASSUME NEW p \in Phones, Disconnect(p) \/ Restart(p)
      PROVE  [Queue(q)!Next]_(Queue(q)!vars)
    BY <1>6, QueueBeginsAgain DEF Disconnect, Restart
<1>7. ASSUME NEW p \in Phones, NEW id \in Ids,
             SaveData(p, id) \/ UploadEnds(p, id) \/ Answer(p, id) \/ PhotoDeleteEnds(p, id)
      PROVE  pending' = pending /\ sent' = sent
    BY <1>7 DEF SaveData, UploadEnds, Answer, PhotoDeleteEnds
<1>8. ASSUME NEW p \in Phones, Listen(p) PROVE pending' = pending /\ sent' = sent
    BY <1>8 DEF Listen
<1>9. UNCHANGED vars => pending' = pending /\ sent' = sent
    BY DEF vars
<1> QED
    BY <1>1, <1>2, <1>3, <1>4, <1>5, <1>6, <1>7, <1>8, <1>9 DEF Next

\* Each phone's writes reach the server in order, at least once, and leave its queue only
\* when the phone has heard of it: the promise WritePipeline keeps for one client.
THEOREM QueuesImplemented == Spec => ImplementsQueues
<1>1. Init => \A p \in Phones : Queue(p)!Init
    BY DEF Init, Queue!Init
<1>2. PhotoInv /\ [Next]_vars => [\A p \in Phones : [Queue(p)!Next]_(Queue(p)!vars)]_vars
    BY QueueStep DEF PhotoInv
<1> QED
    BY <1>1, <1>2, PhotoInvHolds, PTL DEF Spec, ImplementsQueues

-----------------------------------------------------------------------------
(***************************************************************************)
(* The catalogue.  A feed is posted by its own saver only, because         *)
(* whatever a phone has of a feed comes from its own save or from the      *)
(* server (Traced).  So a save that is still under way has left no trace   *)
(* anywhere else, the write it will queue is the only one of its kind, and *)
(* it is acknowledged only when the server has it.                         *)
(***************************************************************************)

-----------------------------------------------------------------------------
(***************************************************************************)
(* Where everything comes from.                                            *)
(***************************************************************************)

LEMMA TracedAt ==
    ASSUME Traced, NEW p \in Phones
    PROVE  /\ uploads[p] \cup completions[p] \cup Tasks(p, "set") \cup Queued(p, "set")
                  \subseteq saved[p]
           /\ uploads[p] \cap completions[p] = {}
           /\ cache[p] \subseteq Known
           /\ deletes[p] \cup Tasks(p, "delete") \cup Queued(p, "delete")
                  \subseteq Known \cup Queued(p, "set")
           /\ \A i \in 1..sent[p] : pending[p][i].op = "set" => pending[p][i].id \in Known
  BY DEF Traced

\* What phone p has begun to save and not yet written to disk, and what it is to delete.
Coming(p) == uploads[p] \cup completions[p] \cup Tasks(p, "set")
Going(p) == deletes[p] \cup Tasks(p, "delete")

LEMMA TracedIs ==
    Traced <=> /\ Known \subseteq UNION {saved[p] : p \in Phones}
               /\ \A p \in Phones :
                     /\ Coming(p) \cup Queued(p, "set") \subseteq saved[p]
                     /\ uploads[p] \cap completions[p] = {}
                     /\ cache[p] \subseteq Known
                     /\ Going(p) \cup Queued(p, "delete") \subseteq Known \cup Queued(p, "set")
                     /\ \A i \in 1..sent[p] :
                            pending[p][i].op = "set" => pending[p][i].id \in Known
  BY DEF Traced, Coming, Going

LEMMA TracedIsPrimed ==
    Traced' <=> /\ Known' \subseteq UNION {saved'[p] : p \in Phones}
                /\ \A p \in Phones :
                      /\ Coming(p)' \cup Queued(p, "set")' \subseteq saved'[p]
                      /\ uploads'[p] \cap completions'[p] = {}
                      /\ cache'[p] \subseteq Known'
                      /\ Going(p)' \cup Queued(p, "delete")' \subseteq Known' \cup Queued(p, "set")'
                      /\ \A i \in 1..sent'[p] :
                             pending'[p][i].op = "set" => pending'[p][i].id \in Known'
  BY DEF Traced, Coming, Going

\* A step that takes nothing new into memory, leaves the queues alone, and takes nothing.
LEMMA TracedRests ==
    ASSUME TypeOK, TypeOK', Traced, UNCHANGED <<docs, removed, saved, pending>>,
           \A p \in Phones :
               /\ Coming(p)' \subseteq Coming(p)
               /\ uploads'[p] \cap completions'[p] = {}
               /\ cache'[p] \subseteq Known
               /\ Going(p)' \subseteq Known \cup Queued(p, "set")
               /\ sent'[p] <= sent[p]
    PROVE  Traced'
<1>1. Known' = Known /\ \A p \in Phones, op \in {"set", "delete"} : Queued(p, op)' = Queued(p, op)
  BY DEF Known, Queued
<1>2. ASSUME NEW p \in Phones
      PROVE  /\ Coming(p)' \cup Queued(p, "set")' \subseteq saved'[p]
             /\ uploads'[p] \cap completions'[p] = {}
             /\ cache'[p] \subseteq Known'
             /\ Going(p)' \cup Queued(p, "delete")' \subseteq Known' \cup Queued(p, "set")'
             /\ \A i \in 1..sent'[p] : pending'[p][i].op = "set" => pending'[p][i].id \in Known'
  <2>1. sent[p] \in Nat /\ sent'[p] \in Nat /\ sent'[p] <= sent[p]
    BY DEF TypeOK
  <2>2. \A i \in 1..sent'[p] : i \in 1..sent[p]
    BY <2>1
  <2>. QED
    BY <1>1, <2>2, TracedIs
<1>3. Known' \subseteq UNION {saved'[p] : p \in Phones}
  BY <1>1 DEF Traced
<1>. QED
  BY <1>2, <1>3, TracedIsPrimed

LEMMA TracedStep == TypeOK /\ Traced /\ [Next]_vars => Traced'
<1> SUFFICES ASSUME TypeOK, Traced, [Next]_vars PROVE Traced'
  OBVIOUS
<1>t. TypeOK'
  BY TypeStep
<1>k. \A p \in Phones : sent[p] \in Nat /\ sent[p] <= sent[p] /\ 0 <= sent[p]
  BY DEF TypeOK
<1>w. ASSUME UNCHANGED <<worker>>, NEW q \in Phones
      PROVE  Tasks(q, "set")' = Tasks(q, "set") /\ Tasks(q, "delete")' = Tasks(q, "delete")
  BY <1>w DEF Tasks
<1>1. ASSUME NEW p \in Phones, NEW id \in Ids, SaveData(p, id) PROVE Traced'
  <2>1. /\ id \notin saved[p] /\ saved' = [saved EXCEPT ![p] = @ \cup {id}]
        /\ uploads' = [uploads EXCEPT ![p] = @ \cup {id}]
        /\ UNCHANGED <<docs, removed, completions, worker, cache, pending, sent, deletes>>
    BY <1>1 DEF SaveData, connection
  <2>2. Known' = Known /\ \A q \in Phones, op \in {"set", "delete"} : Queued(q, op)' = Queued(q, op)
    BY <2>1 DEF Known, Queued
  <2>3. \A q \in Phones : saved[q] \subseteq saved'[q]
    BY <2>1 DEF TypeOK
  <2>4. ASSUME NEW q \in Phones
        PROVE  /\ Coming(q)' \cup Queued(q, "set")' \subseteq saved'[q]
               /\ uploads'[q] \cap completions'[q] = {}
    <3>1. CASE q = p
      <4>1. saved'[p] = saved[p] \cup {id} /\ uploads'[p] = uploads[p] \cup {id}
        BY <2>1 DEF TypeOK
      <4>2. Coming(p)' = Coming(p) \cup {id}
        BY <1>w, <2>1, <4>1 DEF Coming
      <4>3. id \notin completions[p] /\ uploads[p] \cap completions[p] = {}
        BY <2>1, TracedIs DEF Coming
      <4>. QED
        BY <2>1, <2>2, <3>1, <4>1, <4>2, <4>3, TracedIs
    <3>2. CASE q # p
      <4>1. saved'[q] = saved[q] /\ uploads'[q] = uploads[q]
        BY <2>1, <3>2 DEF TypeOK
      <4>2. Coming(q)' = Coming(q)
        BY <1>w, <2>1, <4>1 DEF Coming
      <4>. QED
        BY <2>1, <2>2, <4>1, <4>2, TracedIs
    <3>. QED
      BY <3>1, <3>2
  <2>5. ASSUME NEW q \in Phones
        PROVE  /\ cache'[q] \subseteq Known'
               /\ Going(q)' \cup Queued(q, "delete")' \subseteq Known' \cup Queued(q, "set")'
               /\ \A i \in 1..sent'[q] : pending'[q][i].op = "set" => pending'[q][i].id \in Known'
    <3>1. Going(q)' = Going(q)
      BY <1>w, <2>1 DEF Going
    <3>. QED
      BY <2>1, <2>2, <3>1, TracedIs
  <2>6. Known' \subseteq UNION {saved'[q] : q \in Phones}
    BY <2>2, <2>3 DEF Traced
  <2>. QED
    BY <2>4, <2>5, <2>6, TracedIsPrimed
<1>2. ASSUME NEW p \in Phones, NEW id \in Ids, UploadEnds(p, id) PROVE Traced'
  <2>1. /\ id \in uploads[p]
        /\ uploads' = [uploads EXCEPT ![p] = @ \ {id}]
        /\ completions' = [completions EXCEPT ![p] = @ \cup {id}]
        /\ UNCHANGED <<docs, removed, saved, worker, cache, pending, sent, deletes>>
    BY <1>2 DEF UploadEnds, connection
  <2>2. \A q \in Phones :
            /\ uploads'[q] \cup completions'[q] \subseteq uploads[q] \cup completions[q]
            /\ uploads'[q] \cap completions'[q] = {}
    BY <2>1, TracedAt DEF TypeOK
  <2>3. \A q \in Phones : /\ Coming(q)' \subseteq Coming(q)
                          /\ Going(q)' = Going(q)
    BY <1>w, <2>1, <2>2 DEF Coming, Going
  <2>4. \A q \in Phones : /\ cache'[q] \subseteq Known
                          /\ Going(q)' \subseteq Known \cup Queued(q, "set")
                          /\ sent'[q] <= sent[q]
    BY <1>k, <2>1, <2>3, TracedIs
  <2>. QED
    BY <1>t, <2>1, <2>2, <2>3, <2>4, TracedRests
<1>3. ASSUME NEW p \in Phones, NEW id \in Ids, UploadCompletion(p, id) PROVE Traced'
  <2>1. /\ id \in completions[p] /\ Hands(p, Set(id))
        /\ completions' = [completions EXCEPT ![p] = @ \ {id}]
        /\ UNCHANGED <<docs, removed, saved, uploads, cache, pending, sent, deletes>>
    BY <1>3 DEF UploadCompletion, Hands, connection, history
  <2>2. ASSUME NEW q \in Phones
        PROVE  /\ Coming(q)' \subseteq Coming(q) /\ Going(q)' = Going(q)
               /\ uploads'[q] \cap completions'[q] = {}
    <3>1. /\ Tasks(q, "set")' = Tasks(q, "set") \cup (IF q = p THEN {id} ELSE {})
          /\ Tasks(q, "delete")' = Tasks(q, "delete")
      BY <2>1, HandSet
    <3>2. completions'[q] \subseteq completions[q]
      BY <2>1 DEF TypeOK
    <3>3. Coming(q)' \subseteq Coming(q)
      BY <2>1, <3>1, <3>2 DEF Coming
    <3>4. Going(q)' = Going(q)
      BY <2>1, <3>1 DEF Going
    <3>. QED
      BY <2>1, <3>2, <3>3, <3>4, TracedAt
  <2>3. \A q \in Phones : /\ cache'[q] \subseteq Known
                          /\ Going(q)' \subseteq Known \cup Queued(q, "set")
                          /\ sent'[q] <= sent[q]
    BY <1>k, <2>1, <2>2, TracedIs
  <2>. QED
    BY <1>t, <2>1, <2>2, <2>3, TracedRests
<1>4. ASSUME NEW p \in Phones, NEW id \in Ids, DeleteCallback(p, id) PROVE Traced'
  <2>1. /\ id \in deletes[p] /\ Hands(p, Delete(id))
        /\ deletes' = [deletes EXCEPT ![p] = @ \ {id}]
        /\ UNCHANGED <<docs, removed, saved, uploads, completions, cache, pending, sent>>
    BY <1>4 DEF DeleteCallback, Hands, connection, history
  <2>2. ASSUME NEW q \in Phones
        PROVE  Coming(q)' = Coming(q) /\ Going(q)' \subseteq Going(q)
    <3>1. /\ Tasks(q, "delete")' = Tasks(q, "delete") \cup (IF q = p THEN {id} ELSE {})
          /\ Tasks(q, "set")' = Tasks(q, "set")
      BY <2>1, HandDelete
    <3>2. deletes'[q] \subseteq deletes[q]
      BY <2>1 DEF TypeOK
    <3>3. Coming(q)' = Coming(q)
      BY <2>1, <3>1 DEF Coming
    <3>4. Going(q)' \subseteq Going(q)
      BY <2>1, <3>1, <3>2 DEF Going
    <3>. QED
      BY <3>3, <3>4
  <2>3. \A q \in Phones : /\ uploads'[q] \cap completions'[q] = {} /\ cache'[q] \subseteq Known
                          /\ Going(q)' \subseteq Known \cup Queued(q, "set")
                          /\ sent'[q] <= sent[q]
    BY <1>k, <2>1, <2>2, TracedIs
  <2>. QED
    BY <1>t, <2>1, <2>2, <2>3, TracedRests
<1>5. ASSUME NEW p \in Phones, WriteLocally(p) PROVE Traced'
  <2>. DEFINE w == Head(worker[p])
  <2>1. Runs(p) /\ w \in Write /\ Appends(p, w)
    BY <1>5, WritesHead
  <2>2. UNCHANGED <<docs, removed, saved, uploads, completions, cache, sent, deletes>>
    BY <1>5, <2>1 DEF WriteLocally, connection
  <2>3. ASSUME NEW q \in Phones, NEW op \in {"set", "delete"}
        PROVE  /\ Tasks(q, op)' \subseteq Tasks(q, op)
               /\ q = p /\ w.op = op => w.id \in Tasks(q, op)
               /\ Queued(q, op)' = Queued(q, op) \cup (IF q = p /\ w.op = op THEN {w.id} ELSE {})
    BY <2>1, RunTasks, AppendQueued
  <2>4. Known' = Known
    BY <2>2 DEF Known
  <2>. HIDE DEF w
  <2>5. ASSUME NEW q \in Phones
        PROVE  /\ Coming(q)' \cup Queued(q, "set")' \subseteq saved'[q]
               /\ uploads'[q] \cap completions'[q] = {}
               /\ cache'[q] \subseteq Known'
               /\ Going(q)' \cup Queued(q, "delete")' \subseteq Known' \cup Queued(q, "set")'
    <3>1. Coming(q)' \cup Queued(q, "set")' \subseteq Coming(q) \cup Queued(q, "set")
      BY <2>2, <2>3 DEF Coming
    <3>2. Going(q)' \cup Queued(q, "delete")' \subseteq Going(q) \cup Queued(q, "delete")
      BY <2>2, <2>3 DEF Going
    <3>3. Queued(q, "set") \subseteq Queued(q, "set")'
      BY <2>3
    <3>4. /\ Coming(q) \cup Queued(q, "set") \subseteq saved[q]
          /\ uploads[q] \cap completions[q] = {} /\ cache[q] \subseteq Known
          /\ Going(q) \cup Queued(q, "delete") \subseteq Known \cup Queued(q, "set")
      BY TracedIs
    <3>. QED
      BY <2>2, <2>4, <3>1, <3>2, <3>3, <3>4
  <2>6. ASSUME NEW q \in Phones, NEW i \in 1..sent'[q], pending'[q][i].op = "set"
        PROVE  pending'[q][i].id \in Known'
    <3>1. pending[q] \in Seq(Write) /\ sent[q] \in Nat /\ sent[q] <= Len(pending[q])
      BY DEF TypeOK
    <3>2. i \in DOMAIN pending[q] /\ i \in 1..sent[q]
      BY <2>2, <3>1
    <3>3. pending'[q][i] = pending[q][i]
      BY <2>1, <3>2, AppendPlaces
    <3>. QED
      BY <2>4, <2>6, <3>2, <3>3, TracedAt
  <2>7. Known' \subseteq UNION {saved'[q] : q \in Phones}
    BY <2>2, <2>4 DEF Traced
  <2>. QED
    BY <2>5, <2>6, <2>7, TracedIsPrimed
<1>6. ASSUME NEW p \in Phones, NEW id \in Ids, Answer(p, id) PROVE Traced'
  <2>1. /\ id \in View(p) /\ deletes' = [deletes EXCEPT ![p] = @ \cup {id}]
        /\ UNCHANGED <<docs, removed, saved, uploads, completions, worker, cache, pending, sent>>
    BY <1>6 DEF Answer, connection, history
  <2>2. id \in Known \cup Queued(p, "set")
    BY <2>1, TracedAt DEF View
  <2>3. \A q \in Phones : deletes'[q] \subseteq Known \cup Queued(q, "set")
    BY <2>1, <2>2, TracedAt DEF TypeOK
  <2>4. \A q \in Phones : Going(q)' \subseteq Known \cup Queued(q, "set")
    BY <1>w, <2>1, <2>3, TracedAt DEF Going
  <2>5. \A q \in Phones : Coming(q)' = Coming(q)
    BY <1>w, <2>1 DEF Coming
  <2>. QED
    BY <1>k, <1>t, <2>1, <2>4, <2>5, TracedAt, TracedRests
<1>7. ASSUME NEW p \in Phones, NEW id \in Ids, PhotoDeleteEnds(p, id) PROVE Traced'
  <2>1. UNCHANGED <<docs, removed, saved, uploads, completions, worker, cache, pending, sent, deletes>>
    BY <1>7 DEF PhotoDeleteEnds, connection, history
  <2>2. \A q \in Phones : Coming(q)' = Coming(q) /\ Going(q)' = Going(q)
    BY <1>w, <2>1 DEF Coming, Going
  <2>. QED
    BY <1>k, <1>t, <2>1, <2>2, TracedIs, TracedRests
<1>8. ASSUME NEW p \in Phones, Take(p) PROVE Traced'
  <2>. DEFINE w == pending[p][sent[p] + 1]
  <2>1. pending[p] \in Seq(Write) /\ sent[p] \in Nat /\ sent[p] < Len(pending[p]) /\ Len(pending[p]) \in Nat
    BY <1>8 DEF Take, TypeOK
  <2>2. sent[p] + 1 \in DOMAIN pending[p] /\ w \in Write /\ w \in Range(pending[p])
    BY <2>1 DEF Range
  <2>3. /\ sent' = [sent EXCEPT ![p] = @ + 1]
        /\ \/ w.op = "set" /\ docs' = docs \cup {w.id} /\ removed' = removed
           \/ w.op = "delete" /\ docs' = docs \ {w.id} /\ removed' = removed \cup (docs \cap {w.id})
        /\ UNCHANGED <<saved, uploads, completions, worker, cache, pending, deletes>>
    BY <1>8 DEF Take
  <2>. HIDE DEF w
  <2>4. w.op = "set" => w.id \in Queued(p, "set")
    BY <2>2, WriteFields, Writes DEF Queued, Set
  <2>5. Known \subseteq Known' /\ (w.op = "set" => w.id \in Known')
    BY <2>3 DEF Known
  <2>6. Known' \subseteq Known \cup saved[p]
    BY <2>3, <2>4, TracedAt DEF Known
  <2>7. \A q \in Phones, op \in {"set", "delete"} : Queued(q, op)' = Queued(q, op)
    BY <2>3 DEF Queued
  <2>8. ASSUME NEW q \in Phones
        PROVE  /\ Coming(q)' \cup Queued(q, "set")' \subseteq saved'[q]
               /\ uploads'[q] \cap completions'[q] = {}
               /\ cache'[q] \subseteq Known'
               /\ Going(q)' \cup Queued(q, "delete")' \subseteq Known' \cup Queued(q, "set")'
    <3>1. /\ Coming(q) \cup Queued(q, "set") \subseteq saved[q]
          /\ uploads[q] \cap completions[q] = {} /\ cache[q] \subseteq Known
          /\ Going(q) \cup Queued(q, "delete") \subseteq Known \cup Queued(q, "set")
      BY TracedIs
    <3>m. Coming(q)' = Coming(q) /\ Going(q)' = Going(q)
      BY <1>w, <2>3 DEF Coming, Going
    <3>. QED
      BY <2>3, <2>5, <2>7, <3>1, <3>m
  <2>9. ASSUME NEW q \in Phones, NEW i \in 1..sent'[q], pending'[q][i].op = "set"
        PROVE  pending'[q][i].id \in Known'
    <3>1. CASE i \in 1..sent[q]
      BY <2>3, <2>5, <2>9, <3>1, TracedAt
    <3>2. CASE i \notin 1..sent[q]
      <4>1. q = p /\ i = sent[p] + 1
        BY <2>1, <2>3, <2>9, <3>2 DEF TypeOK
      <4>2. pending'[q][i] = w
        BY <2>3, <4>1 DEF w
      <4>. QED
        BY <2>5, <2>9, <4>2
    <3>. QED
      BY <3>1, <3>2
  <2>10. Known' \subseteq UNION {saved'[q] : q \in Phones}
    BY <2>3, <2>6 DEF Traced
  <2>. QED
    BY <2>8, <2>9, <2>10, TracedIsPrimed
<1>9. ASSUME NEW p \in Phones, Acknowledge(p) PROVE Traced'
  <2>. DEFINE w == Head(pending[p])
  <2>1. /\ pending[p] \in Seq(Write) /\ sent[p] \in Nat /\ sent[p] > 0
        /\ sent[p] <= Len(pending[p]) /\ Len(pending[p]) \in Nat
    BY <1>9 DEF Acknowledge, TypeOK
  <2>2. pending[p] # <<>>
    BY <2>1
  <2>3. /\ Drops(p) /\ sent' = [sent EXCEPT ![p] = @ - 1]
        /\ cache' = [cache EXCEPT ![p] = Applied(w, @, newer[p])]
        /\ UNCHANGED <<docs, removed, saved, uploads, completions, worker, deletes>>
    BY <1>9, <2>2 DEF Acknowledge, Drops, history
  <2>4. /\ w = pending[p][1] /\ w \in Write /\ 1 \in 1..sent[p]
        /\ \A i \in DOMAIN pending'[p] : pending'[p][i] = pending[p][i + 1]
    BY <2>1, <2>3, DropPlaces
  <2>5. w.op = "set" => w.id \in Known
    BY <2>4, TracedAt
  <2>6. Known' = Known
    BY <2>3 DEF Known
  <2>7. cache'[p] \subseteq Known /\ \A q \in Phones : q # p => cache'[q] = cache[q]
    <3>1. cache'[p] = Applied(w, cache[p], newer[p])
      BY <2>3 DEF TypeOK
    <3>2. Applied(w, cache[p], newer[p]) \subseteq Known
      BY <2>4, <2>5, WriteFields, TracedAt DEF Applied
    <3>3. \A q \in Phones : q # p => cache'[q] = cache[q]
      BY <2>3 DEF TypeOK
    <3>. QED
      BY <3>1, <3>2, <3>3
  <2>. HIDE DEF w
  <2>8. ASSUME NEW q \in Phones
        PROVE  /\ Coming(q)' \cup Queued(q, "set")' \subseteq saved'[q]
               /\ uploads'[q] \cap completions'[q] = {}
               /\ cache'[q] \subseteq Known'
               /\ Going(q)' \cup Queued(q, "delete")' \subseteq Known' \cup Queued(q, "set")'
    <3>1. /\ Coming(q) \cup Queued(q, "set") \subseteq saved[q]
          /\ uploads[q] \cap completions[q] = {} /\ cache[q] \subseteq Known
          /\ Going(q) \cup Queued(q, "delete") \subseteq Known \cup Queued(q, "set")
      BY TracedIs
    <3>m. Coming(q)' = Coming(q) /\ Going(q)' = Going(q)
      BY <1>w, <2>3 DEF Coming, Going
    <3>2. Queued(q, "set")' \subseteq Queued(q, "set") /\ Queued(q, "delete")' \subseteq Queued(q, "delete")
      BY <2>3, DropQueued
    <3>3. \A id \in Queued(q, "set") \ Queued(q, "set")' : w.op = "set" /\ w.id = id
      BY <2>3, DropQueued DEF w
    <3>. QED
      BY <2>3, <2>5, <2>6, <2>7, <3>1, <3>m, <3>2, <3>3
  <2>9. ASSUME NEW q \in Phones, NEW i \in 1..sent'[q], pending'[q][i].op = "set"
        PROVE  pending'[q][i].id \in Known'
    <3>1. CASE q = p
      <4>1. sent'[p] = sent[p] - 1 /\ i + 1 \in 1..sent[p]
        BY <2>1, <2>3, <2>9, <3>1 DEF TypeOK
      <4>2. i \in DOMAIN pending'[p]
        <5>1. pending'[p] = Tail(pending[p])
          BY <2>3 DEF Drops, TypeOK
        <5>2. DOMAIN pending'[p] = 1..(Len(pending[p]) - 1)
          BY <2>1, <2>2, <5>1, Popped
        <5>. QED
          BY <2>1, <4>1, <5>2
      <4>. QED
        BY <2>4, <2>6, <2>9, <3>1, <4>1, <4>2, TracedAt
    <3>2. CASE q # p
      <4>1. sent'[q] = sent[q] /\ pending'[q] = pending[q]
        BY <2>3, <3>2 DEF Drops, TypeOK
      <4>. QED
        BY <2>6, <2>9, <4>1, TracedAt
    <3>. QED
      BY <3>1, <3>2
  <2>10. Known' \subseteq UNION {saved'[q] : q \in Phones}
    BY <2>3, <2>6 DEF Traced
  <2>. QED
    BY <2>8, <2>9, <2>10, TracedIsPrimed
<1>10. ASSUME NEW p \in Phones, Disconnect(p) PROVE Traced'
  <2>1. /\ sent' = [sent EXCEPT ![p] = 0]
        /\ UNCHANGED <<docs, removed, saved, uploads, completions, worker, cache, pending, deletes>>
    BY <1>10 DEF Disconnect, history
  <2>2. \A q \in Phones : sent'[q] <= sent[q]
    BY <1>k, <2>1 DEF TypeOK
  <2>3. \A q \in Phones : Coming(q)' = Coming(q) /\ Going(q)' = Going(q)
    BY <1>w, <2>1 DEF Coming, Going
  <2>. QED
    BY <1>t, <2>1, <2>2, <2>3, TracedIs, TracedRests
<1>11. ASSUME NEW p \in Phones, Listen(p) PROVE Traced'
  <2>1. /\ cache' = [cache EXCEPT ![p] = docs]
        /\ UNCHANGED <<docs, removed, saved, uploads, completions, worker, pending, sent, deletes>>
    BY <1>11 DEF Listen, history
  <2>2. \A q \in Phones : cache'[q] \subseteq Known
    BY <2>1, TracedAt DEF TypeOK, Known
  <2>3. \A q \in Phones : Coming(q)' = Coming(q) /\ Going(q)' = Going(q)
    BY <1>w, <2>1 DEF Coming, Going
  <2>. QED
    BY <1>k, <1>t, <2>1, <2>2, <2>3, TracedIs, TracedRests
<1>12. ASSUME NEW p \in Phones, Restart(p) PROVE Traced'
  <2>1. /\ sent' = [sent EXCEPT ![p] = 0] /\ uploads' = [uploads EXCEPT ![p] = {}]
        /\ completions' = [completions EXCEPT ![p] = {}] /\ deletes' = [deletes EXCEPT ![p] = {}]
        /\ UNCHANGED <<docs, removed, saved, cache, pending>>
    BY <1>12 DEF Restart, history
  <2>2. \A q \in Phones : /\ sent'[q] <= sent[q]
                          /\ uploads'[q] \subseteq uploads[q] /\ completions'[q] \subseteq completions[q]
                          /\ deletes'[q] \subseteq deletes[q]
    BY <1>k, <2>1 DEF TypeOK
  <2>3. \A q \in Phones : Coming(q)' \subseteq Coming(q) /\ Going(q)' \subseteq Going(q)
    <3>1. \A q \in Phones : /\ Tasks(q, "set")' \subseteq Tasks(q, "set")
                            /\ Tasks(q, "delete")' \subseteq Tasks(q, "delete")
      BY <1>12, RestartTasks
    <3>. QED
      BY <2>2, <3>1 DEF Coming, Going
  <2>4. \A q \in Phones :
            /\ uploads'[q] \cap completions'[q] = {}
            /\ cache'[q] \subseteq Known
            /\ Going(q)' \subseteq Known \cup Queued(q, "set")
    BY <2>1, <2>2, <2>3, TracedIs
  <2>. QED
    BY <1>t, <2>1, <2>2, <2>3, <2>4, TracedRests
<1>13. CASE UNCHANGED vars
  <2>1. UNCHANGED <<docs, removed, saved, uploads, completions, worker, cache, pending, sent, deletes>>
    BY <1>13 DEF vars, connection, history
  <2>2. \A q \in Phones : Coming(q)' = Coming(q) /\ Going(q)' = Going(q)
    BY <1>w, <2>1 DEF Coming, Going
  <2>. QED
    BY <1>k, <1>t, <2>1, <2>2, TracedIs, TracedRests
<1>. QED
  BY <1>1, <1>2, <1>3, <1>4, <1>5, <1>6, <1>7, <1>8, <1>9, <1>10, <1>11, <1>12, <1>13 DEF Next

-----------------------------------------------------------------------------
(***************************************************************************)
(* A save is in one place.                                                 *)
(***************************************************************************)

\* What SavedOnce says beyond Traced, of feed id on phone p.
OnceAt(p, id) ==
    /\ id \in uploads[p] \cup completions[p] => Turns(p, Set(id)) = {}
    /\ \A i, j \in Turns(p, Set(id)) : i = j
    /\ id \in Coming(p) => Places(p, Set(id)) = {} /\ id \notin Known
    /\ \A i, j \in Places(p, Set(id)) : i = j
    /\ \A i \in Places(p, Set(id)), j \in Places(p, Delete(id)) : i < j

\* An id of two phones is shared, and stays so.
LEMMA SharedBy ==
    ASSUME NEW p \in Phones, NEW q \in Phones, NEW id \in Ids, id \notin Shared,
           id \in saved[p], id \in saved[q]
    PROVE  p = q
  BY DEF Shared

LEMMA SharedStays ==
    ASSUME \A p \in Phones : saved[p] \subseteq saved'[p]
    PROVE  Shared \subseteq Shared'
  BY DEF Shared

EachOnce == \A p \in Phones, id \in Ids \ Shared : OnceAt(p, id)

LEMMA OnceGives == TypeOK /\ Traced /\ EachOnce => SavedOnce
<1> SUFFICES ASSUME TypeOK, Traced, EachOnce PROVE SavedOnce
  OBVIOUS
<1>1. ASSUME NEW p \in Phones, NEW id \in Ids \ Shared
      PROVE  /\ uploads[p] \cap completions[p] = {}
             /\ id \in uploads[p] \cup completions[p] => Turns(p, Set(id)) = {}
             /\ \A i, j \in Turns(p, Set(id)) : i = j
             /\ id \in uploads[p] \cup completions[p] \cup Tasks(p, "set") =>
                   id \in saved[p] /\ Places(p, Set(id)) = {} /\ id \notin docs \cup removed
             /\ \A i, j \in Places(p, Set(id)) : i = j
             /\ \A i \in Places(p, Set(id)), j \in Places(p, Delete(id)) : i < j
    BY <1>1, TracedAt DEF EachOnce, OnceAt, Known, Coming
<1>2. ASSUME NEW p \in Phones, NEW id \in Ids, Places(p, Set(id)) # {} PROVE id \in saved[p]
  BY <1>2, QueuedByPlace, TracedAt
<1>3. ASSUME NEW p \in Phones, NEW id \in Ids, NEW i \in Places(p, Set(id)), i <= sent[p]
      PROVE  id \in docs \cup removed
  <2>1. pending[p] \in Seq(Write) /\ sent[p] \in Nat
    BY DEF TypeOK
  <2>2. i \in 1..sent[p] /\ pending[p][i] = Set(id)
    BY <1>3, <2>1 DEF Places
  <2>. QED
    BY <2>2, Writes, TracedAt DEF Known
<1>4. \A q \in Phones, id \in Ids : id \notin docs \cup removed => id \notin cache[q]
  BY TracedAt DEF Known
<1>. QED
  BY <1>1, <1>2, <1>3, <1>4 DEF SavedOnce

LEMMA OnceFollows ==
    ASSUME SavedOnce, NEW p \in Phones, NEW id \in Ids \ Shared
    PROVE  OnceAt(p, id)
<1>1. Places(p, Set(id)) # {} =>
          /\ \A i, j \in Places(p, Set(id)) : i = j
          /\ \A i \in Places(p, Set(id)), j \in Places(p, Delete(id)) : i < j
  BY DEF SavedOnce
<1>2. /\ id \in uploads[p] \cup completions[p] => Turns(p, Set(id)) = {}
      /\ \A i, j \in Turns(p, Set(id)) : i = j
      /\ id \in Coming(p) => Places(p, Set(id)) = {} /\ id \notin Known
  BY DEF SavedOnce, Known, Coming
<1>. QED
  BY <1>1, <1>2 DEF OnceAt

\* Nothing happens to the queues or to what is known, and no save begins.
LEMMA OnceRests ==
    ASSUME NEW p, NEW id \in Ids, OnceAt(p, id), UNCHANGED <<pending, docs, removed>>,
           Turns(p, Set(id))' \subseteq Turns(p, Set(id)),
           id \in uploads'[p] \cup completions'[p] => id \in uploads[p] \cup completions[p]
    PROVE  OnceAt(p, id)'
<1>1. Places(p, Set(id))' = Places(p, Set(id)) /\ Places(p, Delete(id))' = Places(p, Delete(id))
  BY DEF Places
<1>2. Known' = Known
  BY DEF Known
<1>3. id \in Coming(p)' => id \in Coming(p)
  <2>1. id \in Tasks(p, "set")' => Turns(p, Set(id))' # {}
    BY DEF Tasks, Range, Turns, Set
  <2>2. Turns(p, Set(id)) # {} => id \in Tasks(p, "set")
    BY TasksByTurn
  <2>. QED
    BY <2>1, <2>2 DEF Coming
<1>. QED
  BY <1>1, <1>2, <1>3 DEF OnceAt

LEMMA OnceStep ==
    ASSUME TypeOK, Traced, SavedOnce, [Next]_vars, NEW q \in Phones, NEW d \in Ids \ Shared'
    PROVE  OnceAt(q, d)'
<1>s. ASSUME \A p \in Phones : saved[p] \subseteq saved'[p] PROVE d \notin Shared /\ OnceAt(q, d)
  BY <1>s, SharedStays, OnceFollows
<1>w. ASSUME UNCHANGED worker PROVE \A v : Turns(q, v)' = Turns(q, v)
  BY <1>w DEF Turns
<1>1. ASSUME NEW p \in Phones, NEW id \in Ids, SaveData(p, id) PROVE OnceAt(q, d)'
  <2>1. /\ id \notin saved[p] /\ saved' = [saved EXCEPT ![p] = @ \cup {id}]
        /\ uploads' = [uploads EXCEPT ![p] = @ \cup {id}]
        /\ UNCHANGED <<docs, removed, completions, worker, pending>>
    BY <1>1 DEF SaveData
  <2>2. \A r \in Phones : saved[r] \subseteq saved'[r]
    BY <2>1 DEF TypeOK
  <2>3. OnceAt(q, d)
    BY <2>2, <1>s
  <2>4. CASE q = p /\ d = id
    <3>1. Places(p, Set(d)) = {} /\ Turns(p, Set(d)) = {}
      BY <2>1, <2>4, QueuedByPlace, TasksByTurn, TracedAt
    <3>2. d \notin Known
      <4>1. ASSUME NEW r \in Phones, d \in saved[r] PROVE FALSE
        <5>1. r # p
          BY <2>1, <2>4, <4>1
        <5>2. d \in saved'[p] /\ d \in saved'[r]
          BY <2>1, <2>2, <2>4, <4>1 DEF TypeOK
        <5>. QED
          BY <5>1, <5>2 DEF Shared
      <4>. QED
        BY <4>1 DEF Traced
    <3>3. Places(p, Set(d))' = {} /\ Known' = Known
      BY <2>1, <3>1 DEF Places, Known
    <3>4. Turns(p, Set(d))' = {}
      BY <1>w, <2>1, <2>4, <3>1
    <3>. QED
      BY <2>4, <3>2, <3>3, <3>4 DEF OnceAt
  <2>5. CASE ~(q = p /\ d = id)
    <3>1. d \in uploads'[q] \cup completions'[q] => d \in uploads[q] \cup completions[q]
      BY <2>1, <2>5 DEF TypeOK
    <3>. QED
      BY <1>w, <2>1, <2>3, <3>1, OnceRests
  <2>. QED
    BY <2>4, <2>5
<1>2. ASSUME NEW p \in Phones, NEW id \in Ids, UploadEnds(p, id) PROVE OnceAt(q, d)'
  <2>1. /\ id \in uploads[p]
        /\ uploads' = [uploads EXCEPT ![p] = @ \ {id}]
        /\ completions' = [completions EXCEPT ![p] = @ \cup {id}]
        /\ UNCHANGED <<docs, removed, saved, worker, pending>>
    BY <1>2 DEF UploadEnds
  <2>2. d \in uploads'[q] \cup completions'[q] => d \in uploads[q] \cup completions[q]
    BY <2>1 DEF TypeOK
  <2>3. OnceAt(q, d)
    BY <1>s, <2>1
  <2>. QED
    BY <1>w, <2>1, <2>2, <2>3, OnceRests
<1>3. ASSUME NEW p \in Phones, NEW id \in Ids, UploadCompletion(p, id) PROVE OnceAt(q, d)'
  <2>1. /\ id \in completions[p] /\ Hands(p, Set(id))
        /\ completions' = [completions EXCEPT ![p] = @ \ {id}]
        /\ UNCHANGED <<docs, removed, saved, uploads, pending>>
    BY <1>3 DEF UploadCompletion, Hands, connection, history
  <2>2. OnceAt(q, d) /\ d \notin Shared
    BY <1>s, <2>1
  <2>3. Set(id) \in Write /\ (Set(d) = Set(id) <=> d = id)
    BY Writes
  <2>4. CASE q = p /\ d = id
    <3>1. Turns(p, Set(d)) = {} /\ Places(p, Set(d)) = {} /\ d \notin Known
      BY <2>1, <2>2, <2>4 DEF OnceAt, Coming
    <3>2. d \notin uploads'[p] \cup completions'[p]
      BY <2>1, <2>4, TracedAt DEF TypeOK
    <3>3. Turns(p, Set(d))' = {Len(worker[p]) + 1}
      BY <2>1, <2>3, <2>4, <3>1, HandTurns
    <3>4. Places(p, Set(d))' = {} /\ Known' = Known
      BY <2>1, <3>1 DEF Places, Known
    <3>. QED
      BY <2>4, <3>1, <3>2, <3>3, <3>4 DEF OnceAt
  <2>5. CASE ~(q = p /\ d = id)
    <3>1. Turns(q, Set(d))' = Turns(q, Set(d))
      BY <2>1, <2>3, <2>5, HandTurns
    <3>2. d \in uploads'[q] \cup completions'[q] => d \in uploads[q] \cup completions[q]
      BY <2>1 DEF TypeOK
    <3>. QED
      BY <2>1, <2>2, <3>1, <3>2, OnceRests
  <2>. QED
    BY <2>4, <2>5
<1>4. ASSUME NEW p \in Phones, NEW id \in Ids, DeleteCallback(p, id) PROVE OnceAt(q, d)'
  <2>1. /\ Hands(p, Delete(id))
        /\ UNCHANGED <<docs, removed, saved, uploads, completions, pending>>
    BY <1>4 DEF DeleteCallback, Hands, connection, history
  <2>2. OnceAt(q, d)
    BY <1>s, <2>1
  <2>3. Delete(id) \in Write /\ Set(d) # Delete(id)
    BY Writes
  <2>4. Turns(q, Set(d))' = Turns(q, Set(d))
    BY <2>1, <2>3, HandTurns
  <2>. QED
    BY <2>1, <2>2, <2>4, OnceRests
<1>5. ASSUME NEW p \in Phones, NEW id \in Ids, Answer(p, id) \/ PhotoDeleteEnds(p, id)
      PROVE  OnceAt(q, d)'
  <2>1. UNCHANGED <<docs, removed, saved, uploads, completions, worker, pending>>
    BY <1>5 DEF Answer, PhotoDeleteEnds, history
  <2>. QED
    BY <1>s, <1>w, <2>1, OnceRests
<1>6. ASSUME NEW p \in Phones, WriteLocally(p) PROVE OnceAt(q, d)'
  <2>. DEFINE w == Head(worker[p])
  <2>1. Runs(p) /\ w \in Write /\ Appends(p, w)
    BY <1>6, WritesHead
  <2>2. UNCHANGED <<docs, removed, saved, uploads, completions>>
    BY <1>6 DEF WriteLocally
  <2>3. OnceAt(q, d) /\ d \notin Shared
    BY <1>s, <2>2
  <2>4. Known' = Known
    BY <2>2 DEF Known
  <2>5. Set(d) # Delete(d)
    BY Writes
  <2>6. /\ q = p => Turns(q, Set(d))' = {i - 1 : i \in Turns(q, Set(d)) \ {1}}
        /\ q # p => Turns(q, Set(d))' = Turns(q, Set(d))
        /\ q = p => Turns(q, Set(d)) \subseteq Nat /\ (1 \in Turns(q, Set(d)) <=> w = Set(d))
    BY <2>1, RunTurns
  <2>. HIDE DEF w
  <2>7. \A i, j \in Turns(q, Set(d))' : i = j
    BY <2>3, <2>6 DEF OnceAt
  <2>8. Turns(q, Set(d)) = {} => Turns(q, Set(d))' = {}
    BY <2>6
  <2>9. d \in uploads'[q] \cup completions'[q] => Turns(q, Set(d))' = {}
    BY <2>2, <2>3, <2>8 DEF OnceAt
  <2>10. CASE q = p /\ w = Set(d)
    <3>1. d \in Coming(p) /\ Turns(p, Set(d)) = {1}
      <4>1. Turns(p, Set(d)) = {1}
        BY <2>3, <2>6, <2>10 DEF OnceAt
      <4>. QED
        BY <4>1, TasksByTurn DEF Coming
    <3>2. Places(p, Set(d)) = {} /\ d \notin Known
      BY <2>3, <2>10, <3>1 DEF OnceAt
    <3>3. Turns(p, Set(d))' = {}
      BY <2>6, <2>10, <3>1
    <3>4. d \notin Coming(p)'
      <4>1. d \notin Tasks(p, "set")'
        BY <3>3 DEF Tasks, Range, Turns, Set
      <4>2. d \notin uploads[p] \cup completions[p]
        BY <2>3, <2>10, <3>1 DEF OnceAt
      <4>. QED
        BY <2>2, <4>1, <4>2 DEF Coming
    <3>5. Places(p, Delete(d)) = {}
      <4>1. d \notin Queued(p, "set")
        BY <3>2, QueuedByPlace
      <4>2. d \notin Queued(p, "delete")
        BY <3>2, <4>1, TracedAt
      <4>. QED
        BY <4>2, QueuedByPlace
    <3>6. Places(p, Set(d))' = {Len(pending[p]) + 1}
      BY <2>1, <2>10, <3>2, AppendPlaces
    <3>7. Places(p, Delete(d))' = {}
      BY <2>1, <2>5, <2>10, <3>5, AppendPlaces
    <3>. QED
      BY <2>7, <2>9, <2>10, <3>4, <3>6, <3>7 DEF OnceAt
  <2>11. CASE ~(q = p /\ w = Set(d))
    <3>1. Places(q, Set(d))' = Places(q, Set(d))
      BY <2>1, <2>11, AppendPlaces
    <3>2. d \in Coming(q)' => d \in Coming(q)
      <4>1. d \in Tasks(q, "set")' => d \in Tasks(q, "set")
        BY <2>1, RunTasks
      <4>. QED
        BY <2>2, <4>1 DEF Coming
    <3>3. ASSUME NEW i \in Places(q, Set(d)), NEW j \in Places(q, Delete(d))' PROVE i < j
      <4>1. CASE j \in Places(q, Delete(d))
        BY <2>3, <3>3, <4>1 DEF OnceAt
      <4>2. CASE j \notin Places(q, Delete(d))
        <5>1. q = p /\ j = Len(pending[p]) + 1
          BY <2>1, <3>3, <4>2, AppendPlaces
        <5>2. i \in 1..Len(pending[p]) /\ Len(pending[p]) \in Nat
          BY <2>1, <3>3, <5>1, AppendPlaces DEF Places
        <5>. QED
          BY <5>1, <5>2
      <4>. QED
        BY <4>1, <4>2
    <3>. QED
      BY <2>3, <2>4, <2>7, <2>9, <3>1, <3>2, <3>3 DEF OnceAt
  <2>. QED
    BY <2>10, <2>11
<1>7. ASSUME NEW p \in Phones, Take(p) PROVE OnceAt(q, d)'
  <2>. DEFINE w == pending[p][sent[p] + 1]
  <2>1. pending[p] \in Seq(Write) /\ sent[p] \in Nat /\ sent[p] < Len(pending[p]) /\ Len(pending[p]) \in Nat
    BY <1>7 DEF Take, TypeOK
  <2>2. sent[p] + 1 \in DOMAIN pending[p] /\ w \in Write
    BY <2>1
  <2>3. /\ \/ w.op = "set" /\ docs' = docs \cup {w.id} /\ removed' = removed
           \/ w.op = "delete" /\ docs' = docs \ {w.id} /\ removed' = removed \cup (docs \cap {w.id})
        /\ UNCHANGED <<saved, uploads, completions, worker, pending>>
    BY <1>7 DEF Take
  <2>4. OnceAt(q, d) /\ d \notin Shared
    BY <1>s, <2>3
  <2>5. w.op = "set" /\ w.id = d => sent[p] + 1 \in Places(p, Set(d))
    BY <2>2, Writes DEF Places
  <2>. HIDE DEF w
  <2>6. \A v : Places(q, v)' = Places(q, v) /\ Turns(q, v)' = Turns(q, v)
    BY <2>3 DEF Places, Turns
  <2>7. ASSUME d \in Coming(q) PROVE d \notin Known'
    <3>1. d \notin Known /\ Places(q, Set(d)) = {} /\ d \in saved[q]
      BY <2>4, <2>7, TracedIs DEF OnceAt
    <3>2. ASSUME w.op = "set", w.id = d PROVE FALSE
      <4>1. Places(p, Set(d)) # {}
        BY <2>5, <3>2
      <4>2. d \in saved[p]
        BY <4>1, QueuedByPlace, TracedAt
      <4>3. p = q
        BY <2>4, <3>1, <4>2, SharedBy
      <4>. QED
        BY <3>1, <4>1, <4>3
    <3>. QED
      BY <2>3, <3>1, <3>2 DEF Known
  <2>8. Coming(q)' = Coming(q)
    BY <2>3 DEF Coming, Tasks
  <2>. QED
    BY <2>3, <2>4, <2>6, <2>7, <2>8 DEF OnceAt
<1>8. ASSUME NEW p \in Phones, Acknowledge(p) PROVE OnceAt(q, d)'
  <2>1. pending[p] # <<>>
    BY <1>8 DEF Acknowledge, TypeOK
  <2>2. Drops(p) /\ UNCHANGED <<docs, removed, saved, uploads, completions, worker>>
    BY <1>8, <2>1 DEF Acknowledge, Drops, history
  <2>3. OnceAt(q, d)
    BY <1>s, <2>2
  <2>4. Known' = Known /\ Coming(q)' = Coming(q) /\ \A v : Turns(q, v)' = Turns(q, v)
    BY <2>2 DEF Known, Coming, Tasks, Turns
  <2>5. CASE q = p
    <3>1. /\ Places(q, Set(d))' = {i - 1 : i \in Places(q, Set(d)) \ {1}}
          /\ Places(q, Delete(d))' = {i - 1 : i \in Places(q, Delete(d)) \ {1}}
          /\ Places(q, Set(d)) \subseteq Nat \ {0} /\ Places(q, Delete(d)) \subseteq Nat \ {0}
      BY <2>2, <2>5, DropPlaces
    <3>2. d \in Coming(q) => Places(q, Set(d))' = {} /\ d \notin Known
      BY <2>3, <3>1 DEF OnceAt
    <3>3. \A i, j \in Places(q, Set(d))' : i = j
      BY <2>3, <3>1 DEF OnceAt
    <3>4. \A i \in Places(q, Set(d))', j \in Places(q, Delete(d))' : i < j
      BY <2>3, <3>1 DEF OnceAt
    <3>5. /\ d \in uploads'[q] \cup completions'[q] => Turns(q, Set(d))' = {}
          /\ \A i, j \in Turns(q, Set(d))' : i = j
      BY <2>2, <2>3, <2>4 DEF OnceAt
    <3>6. d \in Coming(q)' => Places(q, Set(d))' = {} /\ d \notin Known'
      BY <2>4, <3>2
    <3>. QED
      BY <3>3, <3>4, <3>5, <3>6 DEF OnceAt
  <2>6. CASE q # p
    <3>1. \A v : Places(q, v)' = Places(q, v)
      BY <2>2, <2>6, DropPlaces
    <3>. QED
      BY <2>2, <2>3, <2>4, <3>1 DEF OnceAt
  <2>. QED
    BY <2>5, <2>6
<1>9. ASSUME NEW p \in Phones, Disconnect(p) \/ Listen(p) \/ Restart(p) PROVE OnceAt(q, d)'
  <2>1. UNCHANGED <<docs, removed, saved, pending>>
    BY <1>9 DEF Disconnect, Listen, Restart, history
  <2>2. \A r \in Phones : uploads'[r] \subseteq uploads[r] /\ completions'[r] \subseteq completions[r]
    BY <1>9 DEF Disconnect, Listen, Restart, TypeOK
  <2>3. Turns(q, Set(d))' \subseteq Turns(q, Set(d))
    <3>1. CASE Restart(p)
      BY <3>1, RestartTasks
    <3>2. CASE ~Restart(p)
      BY <1>9, <1>w, <3>2 DEF Disconnect, Listen
    <3>. QED
      BY <3>1, <3>2
  <2>. QED
    BY <1>s, <2>1, <2>2, <2>3, OnceRests
<1>10. CASE UNCHANGED vars
  <2>1. UNCHANGED <<docs, removed, saved, uploads, completions, worker, pending>>
    BY <1>10 DEF vars, history
  <2>. QED
    BY <1>s, <1>w, <2>1, OnceRests
<1>. QED
  BY <1>1, <1>2, <1>3, <1>4, <1>5, <1>6, <1>7, <1>8, <1>9, <1>10 DEF Next

LEMMA InitSaveInv == Init => SaveInv
<1> SUFFICES ASSUME Init PROVE SaveInv
  OBVIOUS
<1>1. PhotoInv
  BY InitInvariant
<1>2. \A p \in Phones :
          /\ uploads[p] = {} /\ completions[p] = {} /\ cache[p] = {} /\ deletes[p] = {}
          /\ pending[p] = <<>> /\ worker[p] = <<>> /\ sent[p] = 0 /\ Known = {}
          /\ Queued(p, "set") = {} /\ Queued(p, "delete") = {}
          /\ Tasks(p, "set") = {} /\ Tasks(p, "delete") = {}
  BY DEF Init, NoId, Known, Queued, Tasks, Range
<1>3. Known = {}
  BY DEF Init, Known
<1>4. Traced
  BY <1>2, <1>3 DEF Traced
<1>5. \A p \in Phones, id \in Ids :
          Places(p, Set(id)) = {} /\ Places(p, Delete(id)) = {} /\ Turns(p, Set(id)) = {}
  BY <1>2 DEF Places, Turns
<1>6. EachOnce
  BY <1>2, <1>5 DEF EachOnce, OnceAt
<1>7. SavedOnce
  BY <1>1, <1>4, <1>6, OnceGives DEF PhotoInv
<1>. QED
  BY <1>1, <1>4, <1>7 DEF SaveInv

LEMMA NextSaveInv == SaveInv /\ [Next]_vars => SaveInv'
<1> SUFFICES ASSUME SaveInv, [Next]_vars PROVE SaveInv'
  OBVIOUS
<1>1. PhotoInv' /\ TypeOK /\ TypeOK' /\ Traced /\ SavedOnce
  BY NextInvariant, TypeStep DEF SaveInv, PhotoInv
<1>2. Traced'
  BY <1>1, TracedStep
<1>3. EachOnce'
  BY <1>1, OnceStep DEF EachOnce
<1>4. SavedOnce'
  BY <1>1, <1>2, <1>3, OnceGives, PTL
<1>. QED
  BY <1>1, <1>2, <1>4 DEF SaveInv

\* What saves leave in the queues, in memory and on the server.
THEOREM SaveInvHolds == Spec => []SaveInv
<1>. QED
  BY InitSaveInv, NextSaveInv, PTL DEF Spec

\* saveData: a save is in one place, unless two phones saved in the same second.
THEOREM SavesStayOne == Spec => []SavedOnce
<1>1. SaveInv => SavedOnce
  BY DEF SaveInv
<1>. QED
  BY <1>1, SaveInvHolds, PTL

-----------------------------------------------------------------------------
(***************************************************************************)
(* The phones implement the catalogue.                                     *)
(***************************************************************************)

Mapped == <<Status, Unconfirmed>>

\* What the catalogue says of a feed.
LEMMA StatusOf ==
    ASSUME NEW id \in Ids
    PROVE  /\ id \in Shared => Status[id] = "shared"
           /\ id \notin Shared /\ id \in docs => Status[id] = "posted"
           /\ id \notin Shared /\ id \notin docs /\ id \in removed => Status[id] = "removed"
           /\ id \notin Shared /\ id \notin docs /\ id \notin removed => Status[id] = "absent"
  BY DEF Status

\* The catalogue sees no more than this.
LEMMA SameCatalogue ==
    ASSUME Shared' = Shared, \A id \in Ids \ Shared : id \in docs' <=> id \in docs,
           \A id \in Ids \ (Shared \cup docs) : id \in removed' <=> id \in removed
    PROVE  Status' = Status
  BY DEF Status

LEMMA SameUnconfirmed ==
    ASSUME Shared' = Shared, \A q \in Phones : Queued(q, "set")' \ Shared = Queued(q, "set") \ Shared
    PROVE  Unconfirmed' = Unconfirmed
  BY DEF Unconfirmed

LEMMA SameShared == ASSUME saved' = saved PROVE Shared' = Shared
  BY DEF Shared

LEMMA CatalogueInit == Init => Catalogue!Init
<1> SUFFICES ASSUME Init PROVE Catalogue!Init
  OBVIOUS
<1>1. Shared = {} /\ docs = {} /\ removed = {}
  BY DEF Init, NoId, Shared
<1>2. \A p \in Phones : Queued(p, "set") = {}
  BY DEF Init, Queued, Range
<1>3. Status = [id \in Ids |-> "absent"]
  BY <1>1 DEF Status
<1>4. Unconfirmed = {}
  BY <1>2 DEF Unconfirmed
<1>. QED
  BY <1>3, <1>4 DEF Catalogue!Init

\* A phone takes an id: it becomes shared, or nothing is to be seen.
LEMMA SaveIsShare ==
    ASSUME TypeOK, NEW p \in Phones, NEW id \in Ids, SaveData(p, id)
    PROVE  [Catalogue!Next]_Mapped
<1>1. /\ saved' = [saved EXCEPT ![p] = @ \cup {id}] /\ UNCHANGED <<docs, removed, pending>>
  BY DEF SaveData
<1>2. \A q \in Phones : saved[q] \subseteq saved'[q] /\ saved'[q] \subseteq saved[q] \cup {id}
  BY <1>1 DEF TypeOK
<1>3. Shared \subseteq Shared' /\ Shared' \subseteq Shared \cup {id}
  BY <1>2 DEF Shared
<1>4. \A q \in Phones : Queued(q, "set")' = Queued(q, "set")
  BY <1>1 DEF Queued
<1>5. CASE id \in Shared'
  <2>1. Unconfirmed' = Unconfirmed \ {id}
    BY <1>3, <1>4, <1>5 DEF Unconfirmed
  <2>2. \A d \in Ids : d # id => (d \in Shared' <=> d \in Shared)
    BY <1>3
  <2>3. Status' = [Status EXCEPT ![id] = "shared"]
    BY <1>1, <1>5, <2>2 DEF Status
  <2>. QED
    BY <2>1, <2>3 DEF Catalogue!Next, Catalogue!Share
<1>6. CASE id \notin Shared'
  <2>1. Shared' = Shared
    BY <1>3, <1>6
  <2>. QED
    BY <1>1, <1>4, <2>1, SameCatalogue, SameUnconfirmed DEF Mapped
<1>. QED
  BY <1>5, <1>6

\* The worker writes a save to disk: the feed is announced.  A deletion is not seen yet.
LEMMA WriteIsAnnounce ==
    ASSUME SaveInv, NEW p \in Phones, WriteLocally(p)
    PROVE  [Catalogue!Next]_Mapped
<1>. DEFINE w == Head(worker[p])
<1>1. TypeOK /\ Traced /\ SavedOnce
  BY DEF SaveInv, PhotoInv
<1>2. Runs(p) /\ w \in Write /\ Appends(p, w)
  BY <1>1, WritesHead
<1>3. UNCHANGED <<docs, removed, saved>>
  BY DEF WriteLocally
<1>4. w.op = "set" => w.id \in Tasks(p, "set")
  BY <1>1, <1>2, RunTasks
<1>. HIDE DEF w
<1>5. PICK id \in Ids : id = w.id
  BY <1>2, WriteFields
<1>6. Shared' = Shared
  BY <1>3, SameShared
<1>7. Status' = Status
  BY <1>3, <1>6, SameCatalogue
<1>8. \A q \in Phones : Queued(q, "set")' =
          Queued(q, "set") \cup (IF q = p /\ w.op = "set" THEN {id} ELSE {})
  BY <1>1, <1>2, <1>5, AppendQueued
<1>9. CASE w.op # "set" \/ id \in Shared
  <2>1. Unconfirmed' = Unconfirmed
    BY <1>6, <1>8, <1>9, SameUnconfirmed
  <2>. QED
    BY <1>7, <2>1 DEF Mapped
<1>10. CASE w.op = "set" /\ id \notin Shared
  <2>1. Unconfirmed' = Unconfirmed \cup {id}
    BY <1>6, <1>8, <1>10 DEF Unconfirmed
  <2>2. id \in Coming(p) /\ id \in saved[p]
    BY <1>1, <1>4, <1>5, <1>10, TracedAt DEF Coming
  <2>3. id \notin Known /\ Places(p, Set(id)) = {}
    BY <1>1, <1>10, <2>2, OnceFollows DEF OnceAt
  <2>4. ASSUME NEW q \in Phones, id \in Queued(q, "set") PROVE FALSE
    <3>1. q = p
      BY <1>1, <1>10, <2>2, <2>4, TracedAt, SharedBy
    <3>. QED
      BY <2>3, <2>4, <3>1, QueuedByPlace
  <2>5. Status[id] = "absent" /\ id \notin Unconfirmed
    BY <1>10, <2>3, <2>4, StatusOf DEF Known, Unconfirmed
  <2>. QED
    BY <1>7, <2>1, <2>5 DEF Catalogue!Next, Catalogue!Announce
<1>. QED
  BY <1>9, <1>10

\* The server takes a write: a feed is posted, or removed, or nothing is to be seen.
LEMMA TakeIsPostOrRemove ==
    ASSUME SaveInv, NEW p \in Phones, Take(p)
    PROVE  [Catalogue!Next]_Mapped
<1>. DEFINE w == pending[p][sent[p] + 1]
            id == w.id
<1>1. TypeOK /\ Traced
  BY DEF SaveInv, PhotoInv
<1>2. pending[p] \in Seq(Write) /\ sent[p] \in Nat /\ sent[p] < Len(pending[p]) /\ Len(pending[p]) \in Nat
  BY <1>1 DEF Take, TypeOK
<1>3. sent[p] + 1 \in DOMAIN pending[p] /\ w \in Write /\ w \in Range(pending[p])
  BY <1>2 DEF Range
<1>4. id \in Ids
  BY <1>3, WriteFields
<1>5. /\ \/ w.op = "set" /\ docs' = docs \cup {id} /\ removed' = removed
         \/ w.op = "delete" /\ docs' = docs \ {id} /\ removed' = removed \cup (docs \cap {id})
      /\ UNCHANGED <<saved, pending>>
  BY DEF Take
<1>6. w.op = "set" => id \in Queued(p, "set")
  BY <1>3, <1>4 DEF Queued, Write
<1>. HIDE DEF w, id
<1>7. Shared' = Shared /\ \A q \in Phones : Queued(q, "set")' = Queued(q, "set")
  BY <1>5, SameShared DEF Queued
<1>8. Unconfirmed' = Unconfirmed
  BY <1>7, SameUnconfirmed
<1>9. CASE id \in Shared
  <2>1. Status' = Status
    BY <1>5, <1>7, <1>9, SameCatalogue
  <2>. QED
    BY <1>8, <2>1 DEF Mapped
<1>10. CASE id \notin Shared /\ w.op = "set" /\ id \in docs
  <2>1. Status' = Status
    BY <1>5, <1>7, <1>10, SameCatalogue
  <2>. QED
    BY <1>8, <2>1 DEF Mapped
<1>11. CASE id \notin Shared /\ w.op = "set" /\ id \notin docs
  <2>1. Status' = [Status EXCEPT ![id] = "posted"]
    BY <1>4, <1>5, <1>7, <1>11 DEF Status
  <2>2. id \in Unconfirmed
    BY <1>6, <1>11 DEF Unconfirmed
  <2>3. Status[id] \in {"absent", "removed"}
    BY <1>4, <1>11, StatusOf
  <2>. QED
    BY <1>4, <1>8, <2>1, <2>2, <2>3 DEF Catalogue!Next, Catalogue!Post
<1>12. CASE id \notin Shared /\ w.op = "delete" /\ id \in docs
  <2>1. Status' = [Status EXCEPT ![id] = "removed"]
    BY <1>4, <1>5, <1>7, <1>12 DEF Status
  <2>2. Status[id] = "posted"
    BY <1>4, <1>12, StatusOf
  <2>. QED
    BY <1>4, <1>8, <2>1, <2>2 DEF Catalogue!Next, Catalogue!Remove
<1>13. CASE w.op = "delete" /\ id \notin docs
  <2>1. docs' = docs /\ removed' = removed
    BY <1>5, <1>13
  <2>2. Status' = Status
    BY <1>7, <2>1, SameCatalogue
  <2>. QED
    BY <1>8, <2>2 DEF Mapped
<1>. QED
  BY <1>5, <1>9, <1>10, <1>11, <1>12, <1>13

\* The phone hears of its save: the feed is confirmed.
LEMMA AcknowledgeIsConfirm ==
    ASSUME SaveInv, NEW p \in Phones, Acknowledge(p)
    PROVE  [Catalogue!Next]_Mapped
<1>. DEFINE w == Head(pending[p])
<1>1. TypeOK /\ Traced /\ SavedOnce
  BY DEF SaveInv, PhotoInv
<1>2. /\ pending[p] \in Seq(Write) /\ sent[p] \in Nat /\ sent[p] > 0
      /\ sent[p] <= Len(pending[p]) /\ Len(pending[p]) \in Nat
  BY <1>1 DEF Acknowledge, TypeOK
<1>3. Drops(p) /\ UNCHANGED <<docs, removed, saved>>
  <2>1. pending[p] # <<>>
    BY <1>2
  <2>. QED
    BY <2>1 DEF Acknowledge, Drops, history
<1>4. w = pending[p][1] /\ w \in Write /\ 1 \in 1..sent[p]
  BY <1>1, <1>2, <1>3, DropPlaces
<1>. HIDE DEF w
<1>5. PICK id \in Ids : id = w.id
  BY <1>4, WriteFields
<1>6. w.op = "set" => w = Set(id) /\ id \in Known
  BY <1>1, <1>4, <1>5, Writes, TracedAt
<1>7. Shared' = Shared
  BY <1>3, SameShared
<1>8. Status' = Status
  BY <1>3, <1>7, SameCatalogue
<1>9. \A q \in Phones : /\ Queued(q, "set")' \subseteq Queued(q, "set")
                       /\ \A d \in Queued(q, "set") \ Queued(q, "set")' :
                              q = p /\ w.op = "set" /\ id = d
  BY <1>1, <1>3, <1>5, DropQueued DEF w
<1>10. CASE w.op = "set" /\ id \notin Shared
  <2>1. 1 \in Places(p, Set(id))
    BY <1>1, <1>3, <1>6, <1>10, DropPlaces DEF w
  <2>2. Places(p, Set(id))' = {}
    <3>1. Places(p, Set(id))' = {i - 1 : i \in Places(p, Set(id)) \ {1}}
      BY <1>1, <1>3, DropPlaces
    <3>2. Places(p, Set(id)) \ {1} = {}
      BY <1>1, <1>5, <1>10, <2>1, OnceFollows DEF OnceAt
    <3>. QED
      BY <3>1, <3>2
  <2>3. id \notin Queued(p, "set")' /\ id \in Queued(p, "set")
    <3>1. id \notin Queued(p, "set")'
      BY <1>5, <2>2 DEF Queued, Range, Places, Set
    <3>. QED
      BY <1>5, <2>1, <3>1, QueuedByPlace
  <2>4. \A q \in Phones : q # p => id \notin Queued(q, "set")
    BY <1>1, <1>5, <1>10, <2>3, TracedAt, SharedBy
  <2>5. Unconfirmed' = Unconfirmed \ {id}
    BY <1>7, <1>9, <2>3, <2>4 DEF Unconfirmed
  <2>6. id \in Unconfirmed /\ Status[id] # "absent"
    BY <1>5, <1>6, <1>10, <2>3, StatusOf DEF Unconfirmed, Known
  <2>. QED
    BY <1>5, <1>8, <2>5, <2>6 DEF Catalogue!Next, Catalogue!Confirm
<1>11. CASE w.op # "set" \/ id \in Shared
  <2>1. Unconfirmed' = Unconfirmed
    BY <1>7, <1>9, <1>11, SameUnconfirmed
  <2>. QED
    BY <1>8, <2>1 DEF Mapped
<1>. QED
  BY <1>10, <1>11

\* Everything else happens on one phone, unseen.
LEMMA CatalogueStep == SaveInv /\ [Next]_vars => [Catalogue!Next]_Mapped
<1> SUFFICES ASSUME SaveInv, [Next]_vars PROVE [Catalogue!Next]_Mapped
  OBVIOUS
<1>1. TypeOK
  BY DEF SaveInv, PhotoInv
<1>2. ASSUME UNCHANGED <<docs, removed, saved, pending>> PROVE Mapped' = Mapped
  <2>1. Shared' = Shared /\ \A q \in Phones : Queued(q, "set")' = Queued(q, "set")
    BY <1>2, SameShared DEF Queued
  <2>. QED
    BY <1>2, <2>1, SameCatalogue, SameUnconfirmed DEF Mapped
<1>3. ASSUME NEW p \in Phones, NEW id \in Ids,
             \/ UploadEnds(p, id) \/ UploadCompletion(p, id) \/ Answer(p, id)
             \/ DeleteCallback(p, id) \/ PhotoDeleteEnds(p, id)
      PROVE  Mapped' = Mapped
  BY <1>2, <1>3 DEF UploadEnds, UploadCompletion, Answer, DeleteCallback, PhotoDeleteEnds, history
<1>4. ASSUME NEW p \in Phones, Disconnect(p) \/ Listen(p) \/ Restart(p) PROVE Mapped' = Mapped
  BY <1>2, <1>4 DEF Disconnect, Listen, Restart, history
<1>5. UNCHANGED vars => Mapped' = Mapped
  BY <1>2 DEF vars, history
<1>. QED
  BY <1>1, <1>3, <1>4, <1>5, SaveIsShare, WriteIsAnnounce, TakeIsPostOrRemove,
     AcknowledgeIsConfirm DEF Next

\* Several phones saving and deleting are one list: a feed is posted by its own saver, goes
\* by a deletion, and returns only while its saver has not heard of it.
THEOREM CatalogueImplemented == Spec => ImplementsCatalogue
<1>1. SaveInv /\ [Next]_vars => [Catalogue!Next]_(Catalogue!vars)
  BY CatalogueStep DEF Mapped, Catalogue!vars
<1>. QED
  BY <1>1, CatalogueInit, SaveInvHolds, PTL DEF Spec, ImplementsCatalogue, Catalogue!Spec

=============================================================================
