--------------------------- MODULE RowImagesProofs ---------------------------
(***************************************************************************)
(* A row's photo is in its place (PhotoInPlace), for any number of cells,  *)
(* photos and downloads.                                                   *)
(*                                                                         *)
(* The only danger is an older download of the cell that lands after its   *)
(* own.  It cannot: the storage queue is serial, so the older one has been *)
(* stopped or has called its handlers before the newer one begins          *)
(* (GivenUpIsCancelled and WorkInOrder give OneAtATime), and the main queue *)
(* keeps what the older one has posted in front (MainInOrder gives          *)
(* OlderLandsFirst).                                                       *)
(***************************************************************************)
EXTENDS RowImages, TLAPS

-----------------------------------------------------------------------------
(***************************************************************************)
(* Sequences and tasks as values.                                          *)
(***************************************************************************)

LEMMA Grown ==
    ASSUME NEW S, NEW s \in Seq(S), NEW x \in S, NEW t, t = Append(s, x)
    PROVE  /\ t \in Seq(S) /\ Len(t) = Len(s) + 1
           /\ DOMAIN t = DOMAIN s \cup {Len(s) + 1} /\ DOMAIN s = 1..Len(s) /\ Len(s) \in Nat
           /\ t[Len(s) + 1] = x /\ \A i \in DOMAIN s : t[i] = s[i]
  OBVIOUS

LEMMA Popped ==
    ASSUME NEW S, NEW s \in Seq(S), s # <<>>, NEW t, t = Tail(s)
    PROVE  /\ t \in Seq(S) /\ Head(s) = s[1] /\ 1 \in DOMAIN s /\ Head(s) \in S
           /\ DOMAIN s = 1..Len(s) /\ DOMAIN t = 1..(Len(s) - 1) /\ Len(s) \in Nat
           /\ Len(t) = Len(s) - 1
           /\ \A i \in DOMAIN t : i + 1 \in DOMAIN s /\ t[i] = s[i + 1]
           /\ \A i \in DOMAIN s : i # 1 => i - 1 \in DOMAIN t /\ t[i - 1] = s[i]
  OBVIOUS

LEMMA Replaced ==
    ASSUME NEW S, NEW s \in Seq(S), NEW v \in DOMAIN s, NEW x \in S,
           NEW t, t = [s EXCEPT ![v] = x]
    PROVE  /\ t \in Seq(S) /\ Len(t) = Len(s) /\ DOMAIN t = DOMAIN s
           /\ t[v] = x /\ \A w \in DOMAIN s : w # v => t[w] = s[w]
  OBVIOUS

LEMMA Fields ==
    ASSUME NEW x \in Task
    PROVE  x.cell \in Cells /\ x.photo \in Photos /\ x.state \in State
  BY DEF Task

LEMMA OrderFields ==
    ASSUME NEW x \in Order PROVE x.op \in {"enqueue", "cancel"} /\ x.task \in Ids
  BY DEF Order

LEMMA Moved ==
    ASSUME NEW x \in Task, NEW s \in State, NEW y, y = [x EXCEPT !.state = s]
    PROVE  y \in Task /\ y.cell = x.cell /\ y.photo = x.photo /\ y.state = s
  BY DEF Task

\* What a step does that moves task t to state s.
Changed(t, s) ==
    /\ tasks' \in Seq(Task) /\ Len(tasks') = Len(tasks) /\ DOMAIN tasks' = DOMAIN tasks
    /\ tasks'[t].state = s
    /\ \A u \in DOMAIN tasks : tasks'[u].cell = tasks[u].cell /\ tasks'[u].photo = tasks[u].photo
    /\ \A u \in DOMAIN tasks : u # t => tasks'[u].state = tasks[u].state

LEMMA AtChanges ==
    ASSUME tasks \in Seq(Task), NEW t \in DOMAIN tasks, NEW s \in State, At(t, s)
    PROVE  Changed(t, s)
<1> DEFINE y == [tasks[t] EXCEPT !.state = s]
<1>1. tasks[t] \in Task
  OBVIOUS
<1>2. tasks' = [tasks EXCEPT ![t] = y]
  BY DEF At
<1>3. y \in Task /\ y.cell = tasks[t].cell /\ y.photo = tasks[t].photo /\ y.state = s
  BY <1>1, Moved
<1> HIDE DEF y
<1>4. /\ tasks' \in Seq(Task) /\ Len(tasks') = Len(tasks) /\ DOMAIN tasks' = DOMAIN tasks
      /\ tasks'[t] = y /\ \A w \in DOMAIN tasks : w # t => tasks'[w] = tasks[w]
  BY <1>2, <1>3, Replaced
<1>. QED
  BY <1>3, <1>4 DEF Changed

LEMMA Typed ==
    ASSUME IInv
    PROVE  /\ tasks \in Seq(Task) /\ work \in Seq(Order) /\ main \in Seq(Ids)
           /\ DOMAIN tasks = 1..Len(tasks) /\ Len(tasks) \in Nat
           /\ Len(tasks) <= MaxDownloads
  BY DEF IInv, TypeOK

\* A task that is not the newest of its cell was given up.
LEMMA OlderIsGivenUp ==
    ASSUME IInv, NEW t \in DOMAIN tasks, NEW u \in DOMAIN tasks,
           t < u, tasks[t].cell = tasks[u].cell
    PROVE  current[tasks[t].cell] # t
<1>1. tasks \in Seq(Task) /\ t \in Nat /\ u \in Nat /\ t # 0 /\ DOMAIN tasks = 1..Len(tasks)
  BY Typed
<1>2. tasks[t].cell \in Cells
  BY <1>1, Fields
<1>3. current[tasks[t].cell] \in 0..Len(tasks)
  BY <1>2 DEF IInv, TypeOK
<1>4. current[tasks[u].cell] # 0 => u <= current[tasks[u].cell]
  BY DEF IInv, CurrentIsNewest
<1>. QED
  BY <1>1, <1>3, <1>4

\* Two blocks of the storage queue for one cell.
LEMMA BlocksInOrder ==
    ASSUME IInv, NEW i \in DOMAIN work, NEW j \in DOMAIN work, i < j,
           tasks[work[i].task].cell = tasks[work[j].task].cell
    PROVE  \/ work[i].task < work[j].task
           \/ /\ work[i].task = work[j].task
              /\ work[i].op = "enqueue" /\ work[j].op = "cancel"
  BY DEF IInv, WorkInOrder

-----------------------------------------------------------------------------
(***************************************************************************)
(* The steps.                                                              *)
(***************************************************************************)

LEMMA InitIInv == Init => IInv
<1> SUFFICES ASSUME Init PROVE IInv
  OBVIOUS
<1>1. tasks = <<>> /\ work = <<>> /\ main = <<>>
  BY DEF Init
<1>2. /\ DOMAIN tasks = {} /\ DOMAIN work = {} /\ DOMAIN main = {} /\ Len(tasks) = 0
      /\ tasks \in Seq(Task) /\ work \in Seq(Order) /\ main \in Seq(Ids)
  BY <1>1
<1>3. /\ row \in [Cells -> Slot] /\ shows \in [Cells -> Slot]
      /\ current \in [Cells -> 0..Len(tasks)] /\ cache \in SUBSET Photos
      /\ \A c \in Cells : current[c] = 0 /\ row[c] = shows[c]
  BY <1>2 DEF Init, Slot
<1>4. TypeOK
  BY <1>2, <1>3, BoundAssumption DEF TypeOK
<1>5. CurrentIsNewest /\ NewIsEnqueued /\ GivenUpIsCancelled /\ WorkInOrder /\ OneAtATime
  BY <1>2, <1>3
     DEF CurrentIsNewest, NewIsEnqueued, GivenUpIsCancelled, WorkInOrder, OneAtATime
<1>6. MainInOrder /\ OlderLandsFirst /\ PhotoInPlace
  BY <1>2, <1>3 DEF MainInOrder, OlderLandsFirst, PhotoInPlace
<1>. QED
  BY <1>4, <1>5, <1>6 DEF IInv

\* Only tasks move: a step that moves task t to state s keeps cells and rows apart.
LEMMA CurrentKept ==
    ASSUME IInv, NEW t \in DOMAIN tasks, NEW s, Changed(t, s), UNCHANGED <<row, current>>
    PROVE  CurrentIsNewest'
<1>1. /\ DOMAIN tasks' = DOMAIN tasks /\ DOMAIN tasks = 1..Len(tasks)
      /\ \A u \in DOMAIN tasks : tasks'[u].cell = tasks[u].cell /\ tasks'[u].photo = tasks[u].photo
  BY Typed DEF Changed
<1>2. ASSUME NEW c \in Cells, current[c] # 0
      PROVE  tasks'[current[c]].cell = c /\ tasks'[current[c]].photo = row[c]
  <2>1. current[c] \in DOMAIN tasks
    BY <1>1, <1>2, Typed DEF IInv, TypeOK
  <2>. QED
    BY <1>1, <1>2, <2>1 DEF IInv, CurrentIsNewest
<1>3. ASSUME NEW u \in DOMAIN tasks
      PROVE  /\ row[tasks'[u].cell] # None
             /\ current[tasks'[u].cell] # 0 => u <= current[tasks'[u].cell]
  BY <1>1 DEF IInv, CurrentIsNewest
<1>. QED
  BY <1>1, <1>2, <1>3 DEF CurrentIsNewest

Over == {"stopped", "failed", "landing", "landed"}

LEMMA OneAtATimeKept ==
    ASSUME IInv, NEW t \in DOMAIN tasks, NEW s, Changed(t, s),
           tasks[t].state \in Over => s \in Over,
           tasks[t].state # "new" \/ s = "new"
              \/ \A u \in DOMAIN tasks : u < t /\ tasks[u].cell = tasks[t].cell
                                             => tasks[u].state \in Over
    PROVE  OneAtATime'
<1>. SUFFICES ASSUME NEW u \in DOMAIN tasks, NEW v \in DOMAIN tasks,
                     u < v, tasks[u].cell = tasks[v].cell, tasks'[v].state # "new"
              PROVE  tasks'[u].state \in Over
  BY DEF OneAtATime, Over, Changed
<1>1. tasks[u].state \in Over
  <2>1. CASE tasks[v].state # "new"
    BY <2>1 DEF IInv, OneAtATime, Over
  <2>2. CASE tasks[v].state = "new"
    <3>1. v = t /\ s # "new"
      BY <2>2 DEF Changed
    <3>. QED
      BY <2>2, <3>1
  <2>. QED
    BY <2>1, <2>2
<1>. QED
  BY <1>1 DEF Changed

\* No landing, no new picture.
LEMMA PlaceKept ==
    ASSUME IInv, NEW t, NEW s, Changed(t, s), UNCHANGED <<row, shows, current>>,
           \A u \in DOMAIN tasks : tasks'[u].state = "landed" <=> tasks[u].state = "landed"
    PROVE  PhotoInPlace'
<1>. SUFFICES ASSUME NEW c \in Cells
              PROVE  \/ shows[c] = row[c]
                     \/ shows[c] = None /\ current[c] # 0 /\ tasks'[current[c]].state # "landed"
                     \/ /\ current[c] # 0 => tasks'[current[c]].state # "landed"
                        /\ \E u \in DOMAIN tasks :
                               /\ u # current[c] /\ tasks'[u].cell = c
                               /\ tasks'[u].photo = shows[c] /\ tasks'[u].state = "landed"
  BY DEF PhotoInPlace, Changed
<1>1. current[c] # 0 => current[c] \in DOMAIN tasks
  BY Typed DEF IInv, TypeOK
<1>2. \A u \in DOMAIN tasks : tasks'[u].cell = tasks[u].cell /\ tasks'[u].photo = tasks[u].photo
  BY DEF Changed
<1>. QED
  BY <1>1, <1>2 DEF IInv, PhotoInPlace

\* The step of the storage queue: its first block moves task t to state s.
Moves(t, s) ==
    /\ Changed(t, s)
    /\ \/ /\ work[1].op = "enqueue" /\ tasks[t].state = "new"
          /\ s = "fetching" \/ (s = "stopped" /\ current[tasks[t].cell] # t)
       \/ /\ work[1].op = "cancel" /\ tasks[t].state \in {"fetching", "fetched"}
          /\ s = "stopped"
       \/ /\ work[1].op = "cancel" /\ tasks[t].state \notin {"new", "fetching", "fetched"}
          /\ s = tasks[t].state

LEMMA WorkMoves ==
    ASSUME IInv, Work
    PROVE  /\ work[1].task \in DOMAIN tasks /\ 1 \in DOMAIN work
           /\ Moves(work[1].task, tasks'[work[1].task].state)
<1>. DEFINE t == work[1].task
            c == tasks[t].cell
<1>1. tasks \in Seq(Task) /\ work \in Seq(Order) /\ DOMAIN tasks = 1..Len(tasks) /\ Len(tasks) \in Nat
  BY Typed
<1>2. work # <<>>
  BY DEF Work
<1>3. /\ Head(work) = work[1] /\ 1 \in DOMAIN work /\ work[1] \in Order
      /\ DOMAIN work = 1..Len(work) /\ Len(work) \in Nat
  BY <1>1, <1>2, Popped
<1>4. t \in DOMAIN tasks
  BY <1>3 DEF IInv, WorkInOrder
<1>5. CASE work[1].op = "enqueue"
  <2>1. tasks[t].state = "new"
    BY <1>3, <1>4, <1>5 DEF IInv, NewIsEnqueued, Ordered
  <2>2. CASE At(t, "fetching")
    <3>1. Changed(t, "fetching")
      BY <1>1, <1>4, <2>2, AtChanges DEF State
    <3>2. tasks'[t].state = "fetching"
      BY <3>1 DEF Changed
    <3>. QED
      BY <1>3, <1>4, <1>5, <2>1, <3>1, <3>2 DEF Moves
  <2>3. CASE At(t, "stopped") /\ current[c] # t
    <3>1. Changed(t, "stopped")
      BY <1>1, <1>4, <2>3, AtChanges DEF State
    <3>2. tasks'[t].state = "stopped"
      BY <3>1 DEF Changed
    <3>. QED
      BY <1>3, <1>4, <1>5, <2>1, <2>3, <3>1, <3>2 DEF Moves
  <2>. QED
    BY <1>3, <1>5, <2>2, <2>3 DEF Work, Enqueue
<1>6. CASE work[1].op = "cancel"
  <2>1. tasks[t].state # "new"
    <3>1. ASSUME NEW i \in DOMAIN work, work[i].op = "enqueue", work[i].task = t PROVE FALSE
      <4>1. i # 1 /\ 1 < i
        BY <1>3, <1>6, <3>1
      <4>2. work[1].task < work[i].task \/ work[1].op = "enqueue"
        BY <1>3, <1>4, <3>1, <4>1 DEF IInv, WorkInOrder
      <4>. QED
        BY <1>1, <1>3, <1>4, <1>6, <3>1, <4>2
    <3>. QED
      BY <1>4, <3>1 DEF IInv, NewIsEnqueued, Ordered
  <2>2. CASE tasks[t].state \in {"fetching", "fetched"} /\ At(t, "stopped")
    <3>1. Changed(t, "stopped")
      BY <1>1, <1>4, <2>2, AtChanges DEF State
    <3>2. tasks'[t].state = "stopped"
      BY <3>1 DEF Changed
    <3>. QED
      BY <1>3, <1>4, <1>6, <2>2, <3>1, <3>2 DEF Moves
  <2>3. CASE tasks[t].state \notin {"fetching", "fetched"} /\ UNCHANGED tasks
    <3>1. Changed(t, tasks[t].state) /\ tasks'[t].state = tasks[t].state
      BY <1>1, <2>3 DEF Changed
    <3>. QED
      BY <1>3, <1>4, <1>6, <2>1, <2>3, <3>1 DEF Moves
  <2>. QED
    BY <1>3, <1>6, <2>2, <2>3 DEF Work, Cancel
<1>. QED
  BY <1>3, <1>5, <1>6, OrderFields

\* A new download begins when the older ones of its cell are over.
LEMMA WorkKeeps == IInv /\ Work => IInv'
<1> SUFFICES ASSUME IInv, Work PROVE IInv'
  OBVIOUS
<1>. DEFINE t == work[1].task
            s == tasks'[t].state
<1>1. work # <<>> /\ work' = Tail(work) /\ UNCHANGED <<row, shows, current, main, cache>>
  BY DEF Work
<1>2. tasks \in Seq(Task) /\ work \in Seq(Order) /\ DOMAIN tasks = 1..Len(tasks) /\ Len(tasks) \in Nat
  BY Typed
<1>3. /\ work' \in Seq(Order) /\ 1 \in DOMAIN work
      /\ DOMAIN work = 1..Len(work) /\ DOMAIN work' = 1..(Len(work) - 1) /\ Len(work) \in Nat
      /\ \A i \in DOMAIN work' : i + 1 \in DOMAIN work /\ work'[i] = work[i + 1]
      /\ \A i \in DOMAIN work : i # 1 => i - 1 \in DOMAIN work' /\ work'[i - 1] = work[i]
  BY <1>1, <1>2, Popped
<1>4. t \in DOMAIN tasks /\ Moves(t, s)
  BY WorkMoves
<1>. HIDE DEF t, s
<1>5. Changed(t, s)
  BY <1>4 DEF Moves
<1>6. /\ tasks' \in Seq(Task) /\ Len(tasks') = Len(tasks) /\ DOMAIN tasks' = DOMAIN tasks
      /\ tasks'[t].state = s
      /\ \A u \in DOMAIN tasks : tasks'[u].cell = tasks[u].cell /\ tasks'[u].photo = tasks[u].photo
      /\ \A u \in DOMAIN tasks : u # t => tasks'[u].state = tasks[u].state
  BY <1>5 DEF Changed
<1>7. /\ s # "new" /\ s # "fetched"
      /\ s = "landed" <=> tasks[t].state = "landed"
      /\ s = "landing" <=> tasks[t].state = "landing"
      /\ tasks[t].state \in Over => s = tasks[t].state
      /\ tasks[t].state \in {"fetched", "stopped", "landing"} => s \in {"stopped", "landing"}
  BY <1>4 DEF Moves, Over
<1>8. work[1].task = t
  BY DEF t
<1>9. TypeOK'
  BY <1>1, <1>3, <1>6 DEF IInv, TypeOK
<1>10. CurrentIsNewest'
  BY <1>1, <1>4, <1>5, CurrentKept
<1>11. ASSUME NEW i \in DOMAIN work, i # 1, work[i].task = t
       PROVE  work[1].op = "enqueue" /\ work[i].op = "cancel"
  <2>1. 1 < i
    BY <1>3, <1>11
  <2>2. work[1].task = t /\ tasks[work[1].task].cell = tasks[work[i].task].cell
    BY <1>8, <1>11
  <2>3. \/ work[1].task < work[i].task
        \/ work[1].op = "enqueue" /\ work[i].op = "cancel"
    BY <1>3, <2>1, <2>2, BlocksInOrder
  <2>. QED
    BY <1>2, <1>4, <1>11, <2>2, <2>3
<1>12. NewIsEnqueued'
  <2>. SUFFICES ASSUME NEW u \in DOMAIN tasks
                PROVE  tasks'[u].state = "new" <=> Ordered("enqueue", u)'
    BY <1>6 DEF NewIsEnqueued
  <2>1. CASE u = t
    <3>1. ~Ordered("enqueue", u)'
      BY <1>3, <1>11, <2>1 DEF Ordered
    <3>. QED
      BY <1>6, <1>7, <2>1, <3>1
  <2>2. CASE u # t
    <3>1. Ordered("enqueue", u)' <=> Ordered("enqueue", u)
      BY <1>3, <1>8, <2>2 DEF Ordered
    <3>. QED
      BY <1>6, <2>2, <3>1 DEF IInv, NewIsEnqueued
  <2>. QED
    BY <2>1, <2>2
<1>13. GivenUpIsCancelled'
  <2>1. ASSUME NEW i \in DOMAIN work', work'[i].op = "cancel"
        PROVE  current'[tasks'[work'[i].task].cell] # work'[i].task
    <3>1. i + 1 \in DOMAIN work /\ work'[i] = work[i + 1]
      BY <1>3
    <3>2. work[i + 1].task \in DOMAIN tasks
      BY <3>1 DEF IInv, WorkInOrder
    <3>. QED
      BY <1>1, <1>6, <2>1, <3>1, <3>2 DEF IInv, GivenUpIsCancelled
  <2>2. ASSUME NEW u \in DOMAIN tasks, tasks'[u].state \in {"new", "fetching", "fetched"},
               current[tasks[u].cell] # u
        PROVE  Ordered("cancel", u)'
    <3>1. tasks[u].state \in {"new", "fetching", "fetched"} /\ (u = t => work[1].op = "enqueue")
      BY <1>4, <1>6, <2>2 DEF Moves
    <3>2. PICK i \in DOMAIN work : work[i].op = "cancel" /\ work[i].task = u
      BY <2>2, <3>1 DEF IInv, GivenUpIsCancelled, Ordered
    <3>3. i # 1
      BY <1>8, <3>1, <3>2
    <3>. QED
      BY <1>3, <3>2, <3>3 DEF Ordered
  <2>. QED
    BY <1>1, <1>6, <2>1, <2>2 DEF GivenUpIsCancelled
<1>14. WorkInOrder'
  <2>1. \A i \in DOMAIN work' : work'[i].task \in DOMAIN tasks
    BY <1>3 DEF IInv, WorkInOrder
  <2>2. ASSUME NEW i \in DOMAIN work', NEW j \in DOMAIN work', i < j,
               tasks[work'[i].task].cell = tasks[work'[j].task].cell
        PROVE  \/ work'[i].task < work'[j].task
               \/ work'[i].task = work'[j].task /\ work'[i].op = "enqueue" /\ work'[j].op = "cancel"
    <3>1. i + 1 < j + 1 /\ i + 1 \in DOMAIN work /\ j + 1 \in DOMAIN work
      BY <1>3, <2>2
    <3>2. work'[i] = work[i + 1] /\ work'[j] = work[j + 1]
      BY <1>3
    <3>3. tasks[work[i + 1].task].cell = tasks[work[j + 1].task].cell
      BY <2>2, <3>2
    <3>4. \/ work[i + 1].task < work[j + 1].task
          \/ /\ work[i + 1].task = work[j + 1].task
             /\ work[i + 1].op = "enqueue" /\ work[j + 1].op = "cancel"
      BY <3>1, <3>3, BlocksInOrder
    <3>. QED
      BY <3>2, <3>4
  <2>. QED
    BY <1>6, <2>1, <2>2 DEF WorkInOrder
<1>15. OneAtATime'
  <2>1. ASSUME tasks[t].state = "new", NEW u \in DOMAIN tasks, u < t,
               tasks[u].cell = tasks[t].cell, tasks[u].state \notin Over
        PROVE  FALSE
    <3>1. tasks[u].state \in {"new", "fetching", "fetched"}
      BY <1>2, <2>1, Fields DEF State, Over
    <3>2. current[tasks[u].cell] # u
      BY <1>4, <2>1, OlderIsGivenUp
    <3>3. PICK i \in DOMAIN work : work[i].op = "cancel" /\ work[i].task = u
      BY <3>1, <3>2 DEF IInv, GivenUpIsCancelled, Ordered
    <3>4. i # 1 /\ 1 < i
      BY <1>2, <1>3, <1>4, <1>8, <2>1, <3>3
    <3>5. t < u \/ t = u
      BY <1>3, <1>8, <2>1, <3>3, <3>4 DEF IInv, WorkInOrder
    <3>. QED
      BY <1>2, <1>4, <2>1, <3>5
  <2>2. tasks[t].state # "new" \/ \A u \in DOMAIN tasks :
            u < t /\ tasks[u].cell = tasks[t].cell => tasks[u].state \in Over
    BY <2>1
  <2>. QED
    BY <1>4, <1>5, <1>7, <2>2, OneAtATimeKept
<1>16. MainInOrder'
  <2>1. \A i \in DOMAIN main : /\ main[i] \in DOMAIN tasks
                               /\ tasks'[main[i]].state \in {"fetched", "stopped", "landing"}
    BY <1>6, <1>7 DEF IInv, MainInOrder
  <2>2. \A u \in DOMAIN tasks : tasks'[u].state = "landing" => tasks[u].state = "landing"
    BY <1>6, <1>7
  <2>. QED
    BY <1>1, <1>6, <2>1, <2>2 DEF IInv, MainInOrder
<1>17. \A u \in DOMAIN tasks : /\ tasks'[u].state = "landed" <=> tasks[u].state = "landed"
                               /\ tasks'[u].state = "landing" <=> tasks[u].state = "landing"
  BY <1>6, <1>7
<1>18. OlderLandsFirst'
  BY <1>6, <1>17 DEF IInv, OlderLandsFirst
<1>19. PhotoInPlace'
  BY <1>1, <1>5, <1>17, PlaceKept
<1>. QED
  BY <1>9, <1>10, <1>12, <1>13, <1>14, <1>15, <1>16, <1>18, <1>19 DEF IInv

\* What only moves a download that has begun, without its storage blocks.
LEMMA BlocksKept ==
    ASSUME IInv, NEW t \in DOMAIN tasks, NEW s, Changed(t, s), UNCHANGED <<row, current, work>>,
           tasks[t].state # "new", s # "new",
           s \in {"fetching", "fetched"} => tasks[t].state \in {"fetching", "fetched"}
    PROVE  CurrentIsNewest' /\ NewIsEnqueued' /\ GivenUpIsCancelled' /\ WorkInOrder'
<1>1. /\ DOMAIN tasks' = DOMAIN tasks /\ tasks'[t].state = s
      /\ \A u \in DOMAIN tasks : tasks'[u].cell = tasks[u].cell
      /\ \A u \in DOMAIN tasks : u # t => tasks'[u].state = tasks[u].state
  BY DEF Changed
<1>2. CurrentIsNewest'
  BY CurrentKept
<1>3. \A i \in DOMAIN work : work[i].task \in DOMAIN tasks
  BY DEF IInv, WorkInOrder
<1>4. NewIsEnqueued'
  BY <1>1 DEF IInv, NewIsEnqueued, Ordered
<1>5. GivenUpIsCancelled'
  <2>1. ASSUME NEW u \in DOMAIN tasks, tasks'[u].state \in {"new", "fetching", "fetched"}
        PROVE  tasks[u].state \in {"new", "fetching", "fetched"}
    BY <1>1, <2>1
  <2>. QED
    BY <1>1, <1>3, <2>1 DEF IInv, GivenUpIsCancelled, Ordered
<1>6. WorkInOrder'
  BY <1>1, <1>3 DEF IInv, WorkInOrder
<1>. QED
  BY <1>2, <1>4, <1>5, <1>6

\* The head of the main queue leaves it, and is not on its way any more.
LEMMA MainPopped ==
    ASSUME IInv, main # <<>>, NEW t, t = Head(main), NEW s, Changed(t, s),
           main' = Tail(main), s # "landing"
    PROVE  MainInOrder' /\ main' \in Seq(Ids)
<1>1. main \in Seq(Ids)
  BY Typed
<1>2. /\ main' \in Seq(Ids) /\ t = main[1] /\ 1 \in DOMAIN main
      /\ DOMAIN main = 1..Len(main) /\ DOMAIN main' = 1..(Len(main) - 1) /\ Len(main) \in Nat
      /\ \A i \in DOMAIN main' : i + 1 \in DOMAIN main /\ main'[i] = main[i + 1]
      /\ \A i \in DOMAIN main : i # 1 => i - 1 \in DOMAIN main' /\ main'[i - 1] = main[i]
  BY <1>1, Popped
<1>3. /\ DOMAIN tasks' = DOMAIN tasks /\ tasks'[t].state = s
      /\ \A u \in DOMAIN tasks : tasks'[u].cell = tasks[u].cell
      /\ \A u \in DOMAIN tasks : u # t => tasks'[u].state = tasks[u].state
  BY DEF Changed
<1>4. ASSUME NEW i \in DOMAIN main'
      PROVE  /\ main'[i] \in DOMAIN tasks
             /\ tasks'[main'[i]].state \in {"fetched", "stopped", "landing"}
  <2>1. i + 1 \in DOMAIN main /\ main'[i] = main[i + 1] /\ 1 < i + 1
    BY <1>2
  <2>2. main[i + 1] # t
    BY <1>2, <2>1 DEF IInv, MainInOrder
  <2>3. /\ main[i + 1] \in DOMAIN tasks
        /\ tasks[main[i + 1]].state \in {"fetched", "stopped", "landing"}
    BY <2>1 DEF IInv, MainInOrder
  <2>. QED
    BY <1>3, <2>1, <2>2, <2>3
<1>5. ASSUME NEW u \in DOMAIN tasks, tasks'[u].state = "landing"
      PROVE  \E i \in DOMAIN main' : main'[i] = u
  <2>1. u # t /\ tasks[u].state = "landing"
    BY <1>3, <1>5
  <2>2. PICK i \in DOMAIN main : main[i] = u
    BY <2>1 DEF IInv, MainInOrder
  <2>. QED
    BY <1>2, <2>1, <2>2
<1>6. ASSUME NEW i \in DOMAIN main', NEW j \in DOMAIN main', i < j
      PROVE  /\ main'[i] # main'[j]
             /\ tasks'[main'[i]].cell = tasks'[main'[j]].cell => main'[i] < main'[j]
  <2>1. /\ i + 1 \in DOMAIN main /\ j + 1 \in DOMAIN main /\ i + 1 < j + 1
        /\ main'[i] = main[i + 1] /\ main'[j] = main[j + 1]
    BY <1>2, <1>6
  <2>2. /\ main[i + 1] # main[j + 1]
        /\ tasks[main[i + 1]].cell = tasks[main[j + 1]].cell => main[i + 1] < main[j + 1]
    BY <2>1 DEF IInv, MainInOrder
  <2>. QED
    BY <1>3, <1>4, <2>1, <2>2
<1>. QED
  BY <1>2, <1>3, <1>4, <1>5, <1>6 DEF MainInOrder

\* A download joins the end of the main queue: no other of its cell is in it.
LEMMA MainGrown ==
    ASSUME IInv, NEW q \in Seq(Ids), NEW t \in DOMAIN tasks, NEW s, Changed(t, s),
           s \in {"fetched", "landing"}, tasks[t].state \in {"fetching", "fetched"},
           main' = Append(q, t),
           \A i \in DOMAIN q : /\ q[i] \in DOMAIN tasks /\ q[i] # t
                               /\ tasks[q[i]].state \in {"fetched", "stopped", "landing"}
                               /\ tasks[q[i]].cell = tasks[t].cell => q[i] < t,
           \A u \in DOMAIN tasks : tasks[u].state = "landing" => \E i \in DOMAIN q : q[i] = u,
           \A i, j \in DOMAIN q :
               i < j => /\ q[i] # q[j]
                        /\ tasks[q[i]].cell = tasks[q[j]].cell => q[i] < q[j]
    PROVE  MainInOrder' /\ main' \in Seq(Ids)
<1>1. t \in Ids
  <2>1. DOMAIN tasks = 1..Len(tasks) /\ Len(tasks) \in Nat /\ Len(tasks) <= MaxDownloads
    BY Typed
  <2>2. t \in 1..MaxDownloads
    BY <2>1, BoundAssumption
  <2>. QED
    BY <2>2 DEF Ids
<1>2. /\ main' \in Seq(Ids) /\ DOMAIN main' = DOMAIN q \cup {Len(q) + 1}
      /\ DOMAIN q = 1..Len(q) /\ Len(q) \in Nat
      /\ main'[Len(q) + 1] = t /\ \A i \in DOMAIN q : main'[i] = q[i]
  BY <1>1, Grown
<1>3. /\ DOMAIN tasks' = DOMAIN tasks /\ tasks'[t].state = s
      /\ \A u \in DOMAIN tasks : tasks'[u].cell = tasks[u].cell
      /\ \A u \in DOMAIN tasks : u # t => tasks'[u].state = tasks[u].state
  BY DEF Changed
<1>4. ASSUME NEW i \in DOMAIN main'
      PROVE  /\ main'[i] \in DOMAIN tasks
             /\ tasks'[main'[i]].state \in {"fetched", "stopped", "landing"}
  <2>1. CASE i \in DOMAIN q
    BY <1>2, <1>3, <2>1
  <2>2. CASE i = Len(q) + 1
    BY <1>2, <1>3, <2>2
  <2>. QED
    BY <1>2, <2>1, <2>2
<1>5. ASSUME NEW u \in DOMAIN tasks, tasks'[u].state = "landing"
      PROVE  \E i \in DOMAIN main' : main'[i] = u
  <2>1. CASE u = t
    BY <1>2, <2>1
  <2>2. CASE u # t
    <3>1. tasks[u].state = "landing"
      BY <1>3, <1>5, <2>2
    <3>2. PICK i \in DOMAIN q : q[i] = u
      BY <3>1
    <3>. QED
      BY <1>2, <3>2
  <2>. QED
    BY <2>1, <2>2
<1>6. ASSUME NEW i \in DOMAIN main', NEW j \in DOMAIN main', i < j
      PROVE  /\ main'[i] # main'[j]
             /\ tasks'[main'[i]].cell = tasks'[main'[j]].cell => main'[i] < main'[j]
  <2>1. i \in DOMAIN q
    BY <1>2, <1>6
  <2>2. main'[i] = q[i] /\ q[i] \in DOMAIN tasks /\ tasks'[q[i]].cell = tasks[q[i]].cell
    BY <1>2, <1>3, <2>1
  <2>3. CASE j = Len(q) + 1
    <3>1. main'[j] = t /\ tasks'[t].cell = tasks[t].cell
      BY <1>2, <1>3, <2>3
    <3>2. q[i] # t /\ (tasks[q[i]].cell = tasks[t].cell => q[i] < t)
      BY <2>1
    <3>. QED
      BY <2>2, <3>1, <3>2
  <2>4. CASE j \in DOMAIN q
    <3>1. main'[j] = q[j] /\ q[j] \in DOMAIN tasks /\ tasks'[q[j]].cell = tasks[q[j]].cell
      BY <1>2, <1>3, <2>4
    <3>. QED
      BY <1>6, <2>1, <2>2, <2>4, <3>1
  <2>. QED
    BY <1>2, <2>3, <2>4
<1>. QED
  BY <1>2, <1>3, <1>4, <1>5, <1>6 DEF MainInOrder

LEMMA FetchEndsKeeps ==
    ASSUME IInv, NEW t \in DOMAIN tasks, FetchEnds(t) PROVE IInv'
<1>1. tasks[t].state = "fetching" /\ UNCHANGED <<row, shows, current, work, cache>>
  BY DEF FetchEnds
<1>2. tasks \in Seq(Task) /\ main \in Seq(Ids)
  BY Typed
<1>3. PICK s \in {"fetched", "failed"} :
          /\ At(t, s)
          /\ s = "fetched" => main' = Append(main, t)
          /\ s = "failed" => main' = main
  BY DEF FetchEnds
<1>4. Changed(t, s)
  BY <1>2, <1>3, AtChanges DEF State
<1>5. /\ tasks' \in Seq(Task) /\ Len(tasks') = Len(tasks) /\ DOMAIN tasks' = DOMAIN tasks
      /\ tasks'[t].state = s
      /\ \A u \in DOMAIN tasks : tasks'[u].cell = tasks[u].cell
      /\ \A u \in DOMAIN tasks : u # t => tasks'[u].state = tasks[u].state
  BY <1>4 DEF Changed
<1>6. CurrentIsNewest' /\ NewIsEnqueued' /\ GivenUpIsCancelled' /\ WorkInOrder'
  BY <1>1, <1>3, <1>4, BlocksKept
<1>7. OneAtATime'
  <2>1. tasks[t].state # "new" /\ tasks[t].state \notin Over
    BY <1>1 DEF Over
  <2>. QED
    BY <1>4, <2>1, OneAtATimeKept
<1>8. MainInOrder' /\ main' \in Seq(Ids)
  <2>1. CASE s = "fetched"
    <3>1. ASSUME NEW i \in DOMAIN main
          PROVE  /\ main[i] \in DOMAIN tasks /\ main[i] # t
                 /\ tasks[main[i]].state \in {"fetched", "stopped", "landing"}
                 /\ tasks[main[i]].cell = tasks[t].cell => main[i] < t
      <4>1. main[i] \in DOMAIN tasks /\ tasks[main[i]].state \in {"fetched", "stopped", "landing"}
        BY DEF IInv, MainInOrder
      <4>2. main[i] # t
        BY <1>1, <4>1
      <4>3. tasks[main[i]].cell = tasks[t].cell => ~(t < main[i])
        BY <1>1, <4>1 DEF IInv, OneAtATime
      <4>. QED
        BY <4>1, <4>2, <4>3, Typed
    <3>2. /\ \A u \in DOMAIN tasks :
                 tasks[u].state = "landing" => \E i \in DOMAIN main : main[i] = u
          /\ \A i, j \in DOMAIN main :
                 i < j => /\ main[i] # main[j]
                          /\ tasks[main[i]].cell = tasks[main[j]].cell => main[i] < main[j]
      BY DEF IInv, MainInOrder
    <3>. QED
      BY <1>1, <1>2, <1>3, <1>4, <2>1, <3>1, <3>2, MainGrown
  <2>2. CASE s = "failed"
    <3>1. main' = main
      BY <1>3, <2>2
    <3>2. ASSUME NEW i \in DOMAIN main
          PROVE  /\ main[i] \in DOMAIN tasks /\ main[i] # t
                 /\ tasks[main[i]].state \in {"fetched", "stopped", "landing"}
      BY <1>1 DEF IInv, MainInOrder
    <3>3. \A u \in DOMAIN tasks : tasks'[u].state = "landing" => tasks[u].state = "landing"
      BY <1>5, <2>2
    <3>. QED
      BY <1>2, <1>5, <3>1, <3>2, <3>3 DEF IInv, MainInOrder
  <2>. QED
    BY <2>1, <2>2
<1>9. \A u \in DOMAIN tasks : /\ tasks'[u].state = "landed" <=> tasks[u].state = "landed"
                              /\ tasks'[u].state = "landing" <=> tasks[u].state = "landing"
  BY <1>1, <1>5
<1>10. OlderLandsFirst'
  BY <1>5, <1>9 DEF IInv, OlderLandsFirst
<1>11. PhotoInPlace'
  BY <1>1, <1>4, <1>9, PlaceKept
<1>12. TypeOK'
  BY <1>1, <1>5, <1>8 DEF IInv, TypeOK
<1>. QED
  BY <1>6, <1>7, <1>8, <1>10, <1>11, <1>12 DEF IInv

\* The success handler of the head is posted, behind what is on its way; or the head was
\* stopped, and nothing is posted.
LEMMA CallbackKeeps == IInv /\ Callback => IInv'
<1> SUFFICES ASSUME IInv, Callback PROVE IInv'
  OBVIOUS
<1>. DEFINE t == Head(main)
            q == Tail(main)
<1>1. main # <<>> /\ UNCHANGED <<row, shows, current, work, cache>>
  BY DEF Callback
<1>2. tasks \in Seq(Task) /\ main \in Seq(Ids)
  BY Typed
<1>3. /\ q \in Seq(Ids) /\ t = main[1] /\ 1 \in DOMAIN main
      /\ DOMAIN main = 1..Len(main) /\ DOMAIN q = 1..(Len(main) - 1) /\ Len(main) \in Nat
      /\ \A i \in DOMAIN q : i + 1 \in DOMAIN main /\ q[i] = main[i + 1]
      /\ \A i \in DOMAIN main : i # 1 => i - 1 \in DOMAIN q /\ q[i - 1] = main[i]
  BY <1>1, <1>2, Popped
<1>4. t \in DOMAIN tasks
  BY <1>3 DEF IInv, MainInOrder
<1>5. PICK s \in {"landing", "stopped"} :
          /\ Changed(t, s)
          /\ s = "landing" => tasks[t].state = "fetched" /\ main' = Append(q, t)
          /\ s = "stopped" => tasks[t].state = "stopped" /\ main' = q
  <2>1. CASE tasks[t].state = "fetched" /\ At(t, "landing") /\ main' = Append(q, t)
    BY <1>2, <1>4, <2>1, AtChanges DEF State
  <2>2. CASE tasks[t].state = "stopped" /\ main' = q /\ UNCHANGED tasks
    BY <1>2, <2>2 DEF Changed
  <2>. QED
    BY <2>1, <2>2 DEF Callback
<1>. HIDE DEF t, q
<1>6. /\ tasks' \in Seq(Task) /\ Len(tasks') = Len(tasks) /\ DOMAIN tasks' = DOMAIN tasks
      /\ tasks'[t].state = s
      /\ \A u \in DOMAIN tasks : tasks'[u].cell = tasks[u].cell
      /\ \A u \in DOMAIN tasks : u # t => tasks'[u].state = tasks[u].state
  BY <1>5 DEF Changed
<1>7. tasks[t].state \in {"fetched", "stopped"}
  BY <1>5
<1>8. CurrentIsNewest' /\ NewIsEnqueued' /\ GivenUpIsCancelled' /\ WorkInOrder'
  BY <1>1, <1>4, <1>5, <1>7, BlocksKept
<1>9. OneAtATime'
  <2>1. tasks[t].state # "new" /\ s \in Over
    BY <1>7 DEF Over
  <2>. QED
    BY <1>4, <1>5, <2>1, OneAtATimeKept
<1>10. MainInOrder' /\ main' \in Seq(Ids)
  <2>1. CASE s = "landing"
    <3>1. ASSUME NEW i \in DOMAIN q
          PROVE  /\ q[i] \in DOMAIN tasks /\ q[i] # t
                 /\ tasks[q[i]].state \in {"fetched", "stopped", "landing"}
                 /\ tasks[q[i]].cell = tasks[t].cell => q[i] < t
      <4>1. i + 1 \in DOMAIN main /\ q[i] = main[i + 1] /\ 1 < i + 1
        BY <1>3
      <4>2. /\ q[i] \in DOMAIN tasks
            /\ tasks[q[i]].state \in {"fetched", "stopped", "landing"}
        BY <4>1 DEF IInv, MainInOrder
      <4>3. main[1] # main[i + 1] /\ (tasks[main[1]].cell = tasks[main[i + 1]].cell => main[1] < main[i + 1])
        BY <1>3, <4>1 DEF IInv, MainInOrder
      <4>4. q[i] # t /\ (tasks[q[i]].cell = tasks[t].cell => t < q[i])
        BY <1>3, <4>1, <4>3
      <4>5. t < q[i] /\ tasks[t].cell = tasks[q[i]].cell => tasks[t].state # "fetched"
        BY <1>4, <4>2 DEF IInv, OneAtATime
      <4>. QED
        BY <1>5, <2>1, <4>2, <4>4, <4>5
    <3>2. ASSUME NEW u \in DOMAIN tasks, tasks[u].state = "landing"
          PROVE  \E i \in DOMAIN q : q[i] = u
      <4>1. PICK i \in DOMAIN main : main[i] = u
        BY <3>2 DEF IInv, MainInOrder
      <4>2. i # 1
        BY <1>3, <1>7, <3>2, <4>1
      <4>. QED
        BY <1>3, <4>1, <4>2
    <3>3. ASSUME NEW i \in DOMAIN q, NEW j \in DOMAIN q, i < j
          PROVE  q[i] # q[j] /\ (tasks[q[i]].cell = tasks[q[j]].cell => q[i] < q[j])
      <4>1. /\ i + 1 \in DOMAIN main /\ j + 1 \in DOMAIN main /\ i + 1 < j + 1
            /\ q[i] = main[i + 1] /\ q[j] = main[j + 1]
        BY <1>3, <3>3
      <4>2. /\ main[i + 1] # main[j + 1]
            /\ tasks[main[i + 1]].cell = tasks[main[j + 1]].cell => main[i + 1] < main[j + 1]
        BY <4>1 DEF IInv, MainInOrder
      <4>. QED
        BY <4>1, <4>2
    <3>. QED
      BY <1>3, <1>4, <1>5, <1>7, <2>1, <3>1, <3>2, <3>3, MainGrown
  <2>2. CASE s = "stopped"
    BY <1>1, <1>5, <2>2, MainPopped DEF t, q
  <2>. QED
    BY <2>1, <2>2
<1>11. \A u \in DOMAIN tasks : tasks'[u].state = "landed" <=> tasks[u].state = "landed"
  BY <1>6, <1>7
<1>12. OlderLandsFirst'
  <2>1. \A u \in DOMAIN tasks : tasks'[u].state = "landing" => tasks[u].state = "landing" \/ u = t
    BY <1>6
  <2>2. \A v \in DOMAIN tasks :
            t < v /\ tasks[t].cell = tasks[v].cell /\ tasks[v].state = "landed" => tasks[t].state # "fetched"
    BY <1>4 DEF IInv, OneAtATime
  <2>3. s = "landing" => tasks[t].state = "fetched"
    BY <1>5
  <2>. QED
    BY <1>4, <1>6, <1>11, <2>1, <2>2, <2>3 DEF IInv, OlderLandsFirst
<1>13. PhotoInPlace'
  BY <1>1, <1>5, <1>11, PlaceKept
<1>14. TypeOK'
  BY <1>1, <1>6, <1>10 DEF IInv, TypeOK
<1>. QED
  BY <1>8, <1>9, <1>10, <1>12, <1>13, <1>14 DEF IInv

\* What lands is the newest of its cell to do so, or covers a photo until the next one.
LEMMA LandKeeps == IInv /\ Land => IInv'
<1> SUFFICES ASSUME IInv, Land PROVE IInv'
  OBVIOUS
<1>. DEFINE t == Head(main)
            k == tasks[t].cell
            p == tasks[t].photo
<1>1. /\ main # <<>> /\ UNCHANGED <<row, current, work>> /\ main' = Tail(main)
      /\ tasks[t].state = "landing" /\ At(t, "landed")
      /\ shows' = [shows EXCEPT ![k] = p] /\ cache' = cache \cup {p}
  BY DEF Land
<1>2. tasks \in Seq(Task) /\ main \in Seq(Ids)
  BY Typed
<1>3. /\ t = main[1] /\ 1 \in DOMAIN main
      /\ DOMAIN main = 1..Len(main) /\ Len(main) \in Nat
  BY <1>1, <1>2, Popped
<1>4. t \in DOMAIN tasks
  BY <1>3 DEF IInv, MainInOrder
<1>. HIDE DEF t
<1>5. Changed(t, "landed")
  BY <1>1, <1>2, <1>4, AtChanges DEF State
<1>6. /\ tasks' \in Seq(Task) /\ Len(tasks') = Len(tasks) /\ DOMAIN tasks' = DOMAIN tasks
      /\ tasks'[t].state = "landed"
      /\ \A u \in DOMAIN tasks : tasks'[u].cell = tasks[u].cell /\ tasks'[u].photo = tasks[u].photo
      /\ \A u \in DOMAIN tasks : u # t => tasks'[u].state = tasks[u].state
  BY <1>5 DEF Changed
<1>7. k \in Cells /\ p \in Photos
  BY <1>2, <1>4, Fields
<1>8. CurrentIsNewest' /\ NewIsEnqueued' /\ GivenUpIsCancelled' /\ WorkInOrder'
  BY <1>1, <1>4, <1>5, BlocksKept
<1>9. OneAtATime'
  <2>1. tasks[t].state # "new" /\ "landed" \in Over
    BY <1>1 DEF Over
  <2>. QED
    BY <1>4, <1>5, <2>1, OneAtATimeKept
<1>10. MainInOrder' /\ main' \in Seq(Ids)
  BY <1>1, <1>5, MainPopped DEF t
<1>11. OlderLandsFirst'
  <2>1. ASSUME NEW v \in DOMAIN tasks, v < t, tasks[v].cell = k, tasks[v].state = "landing"
        PROVE  FALSE
    <3>1. PICK i \in DOMAIN main : main[i] = v
      BY <2>1 DEF IInv, MainInOrder
    <3>2. 1 < i
      BY <1>2, <1>3, <1>4, <2>1, <3>1, Typed
    <3>3. tasks[main[1]].cell = tasks[main[i]].cell => main[1] < main[i]
      BY <1>3, <3>1, <3>2 DEF IInv, MainInOrder
    <3>4. t < v
      BY <1>3, <2>1, <3>1, <3>3
    <3>. QED
      BY <1>4, <2>1, <3>4, Typed
  <2>2. SUFFICES ASSUME NEW v \in DOMAIN tasks, NEW u \in DOMAIN tasks, v < u,
                        tasks[v].cell = tasks[u].cell, tasks'[u].state = "landed",
                        tasks'[v].state = "landing"
                 PROVE  FALSE
    BY <1>6 DEF OlderLandsFirst
  <2>3. v # t /\ tasks[v].state = "landing"
    BY <1>6, <2>2
  <2>4. u # t
    BY <2>1, <2>2, <2>3
  <2>. QED
    BY <1>6, <2>2, <2>3, <2>4 DEF IInv, OlderLandsFirst
<1>12. shows' \in [Cells -> Slot] /\ shows'[k] = p /\ \A c \in Cells : c # k => shows'[c] = shows[c]
  BY <1>1, <1>7 DEF IInv, TypeOK, Slot
<1>13. \A c \in Cells : current[c] # 0 => current[c] \in DOMAIN tasks /\ tasks[current[c]].cell = c
  <2>1. \A c \in Cells : current[c] \in 0..Len(tasks)
    BY DEF IInv, TypeOK
  <2>. QED
    BY <2>1, Typed DEF IInv, CurrentIsNewest
<1>. HIDE DEF k, p
<1>14. tasks[t].cell = k /\ tasks[t].photo = p
  BY DEF k, p
<1>15. ASSUME NEW c \in Cells
       PROVE  \/ shows'[c] = row[c]
              \/ shows'[c] = None /\ current[c] # 0 /\ tasks'[current[c]].state # "landed"
              \/ /\ current[c] # 0 => tasks'[current[c]].state # "landed"
                 /\ \E u \in DOMAIN tasks :
                        /\ u # current[c] /\ tasks'[u].cell = c
                        /\ tasks'[u].photo = shows'[c] /\ tasks'[u].state = "landed"
  <2>1. CASE c = k /\ current[c] = t
    <3>1. t # 0
      BY <1>4, Typed
    <3>2. tasks[t].photo = row[c]
      BY <2>1, <3>1 DEF IInv, CurrentIsNewest
    <3>. QED
      BY <1>12, <1>14, <2>1, <3>2
  <2>2. CASE c = k /\ current[c] # t
    <3>1. ASSUME current[c] # 0 PROVE tasks'[current[c]].state # "landed"
      <4>1. current[c] \in DOMAIN tasks /\ tasks[current[c]].cell = c
        BY <1>13, <3>1
      <4>2. t <= current[c]
        BY <1>4, <1>14, <2>2, <3>1 DEF IInv, CurrentIsNewest
      <4>3. t < current[c]
        BY <1>4, <2>2, <4>1, <4>2, Typed
      <4>4. tasks[current[c]].state # "landed"
        BY <1>1, <1>4, <1>14, <2>2, <4>1, <4>3 DEF IInv, OlderLandsFirst
      <4>. QED
        BY <1>6, <2>2, <4>1, <4>4
    <3>2. /\ t # current[c] /\ tasks'[t].cell = c
          /\ tasks'[t].photo = shows'[c] /\ tasks'[t].state = "landed"
      BY <1>4, <1>6, <1>12, <1>14, <2>2
    <3>. QED
      BY <1>4, <3>1, <3>2
  <2>3. CASE c # k
    <3>1. shows'[c] = shows[c]
      BY <1>12, <2>3
    <3>2. current[c] # 0 => tasks'[current[c]].state = tasks[current[c]].state
      BY <1>6, <1>13, <1>14, <2>3
    <3>3. CASE shows[c] = row[c]
      BY <3>1, <3>3
    <3>4. CASE shows[c] = None /\ current[c] # 0 /\ tasks[current[c]].state # "landed"
      BY <3>1, <3>2, <3>4
    <3>5. CASE /\ current[c] # 0 => tasks[current[c]].state # "landed"
               /\ \E u \in DOMAIN tasks :
                      /\ u # current[c] /\ tasks[u].cell = c
                      /\ tasks[u].photo = shows[c] /\ tasks[u].state = "landed"
      <4>1. PICK u \in DOMAIN tasks : /\ u # current[c] /\ tasks[u].cell = c
                                      /\ tasks[u].photo = shows[c] /\ tasks[u].state = "landed"
        BY <3>5
      <4>2. /\ u # current[c] /\ tasks'[u].cell = c
            /\ tasks'[u].photo = shows'[c] /\ tasks'[u].state = "landed"
        BY <1>6, <3>1, <4>1
      <4>3. current[c] # 0 => tasks'[current[c]].state # "landed"
        BY <3>2, <3>5
      <4>. QED
        BY <4>2, <4>3
    <3>. QED
      BY <3>3, <3>4, <3>5 DEF IInv, PhotoInPlace
  <2>. QED
    BY <2>1, <2>2, <2>3
<1>16. PhotoInPlace'
  BY <1>1, <1>6, <1>15 DEF PhotoInPlace
<1>17. TypeOK'
  <2>1. cache' \in SUBSET Photos
    BY <1>1, <1>7 DEF IInv, TypeOK, p
  <2>. QED
    BY <1>1, <1>6, <1>10, <1>12, <2>1 DEF IInv, TypeOK
<1>. QED
  BY <1>8, <1>9, <1>10, <1>11, <1>16, <1>17 DEF IInv

\* The cache alone.
LEMMA CacheKeeps ==
    ASSUME IInv, UNCHANGED <<row, shows, current, tasks, work, main>>, cache' \in SUBSET Photos
    PROVE  IInv'
<1>1. TypeOK' /\ CurrentIsNewest' /\ NewIsEnqueued'
  BY DEF IInv, TypeOK, CurrentIsNewest, NewIsEnqueued, Ordered
<1>2. GivenUpIsCancelled' /\ WorkInOrder' /\ OneAtATime'
  BY DEF IInv, GivenUpIsCancelled, Ordered, WorkInOrder, OneAtATime
<1>3. MainInOrder' /\ OlderLandsFirst' /\ PhotoInPlace'
  BY DEF IInv, MainInOrder, OlderLandsFirst, PhotoInPlace
<1>. QED
  BY <1>1, <1>2, <1>3 DEF IInv

\* The storage queue once the download of cell c is to be cancelled.
Has(w, op, t) == \E i \in DOMAIN w : w[i].op = op /\ w[i].task = t

InOrder(w) ==
    \A i, j \in DOMAIN w :
        /\ i < j
        /\ tasks[w[i].task].cell = tasks[w[j].task].cell
        => \/ w[i].task < w[j].task
           \/ w[i].task = w[j].task /\ w[i].op = "enqueue" /\ w[j].op = "cancel"

GivesUp(w, c) ==
    /\ w \in Seq(Order) /\ \A i \in DOMAIN w : w[i].task \in DOMAIN tasks
    /\ \A u \in DOMAIN tasks : Has(w, "enqueue", u) <=> Ordered("enqueue", u)
    /\ \A i \in DOMAIN w : w[i].op = "cancel" =>
           \/ tasks[w[i].task].cell = c
           \/ current[tasks[w[i].task].cell] # w[i].task
    /\ \A u \in DOMAIN tasks : Ordered("cancel", u) => Has(w, "cancel", u)
    /\ \A u \in DOMAIN tasks :
           tasks[u].cell = c /\ current[c] = u => Has(w, "cancel", u)
    /\ InOrder(w)

LEMMA CancellingGivesUp ==
    ASSUME IInv, NEW c \in Cells, NEW w, w = Cancelling(c) PROVE GivesUp(w, c)
<1>1. tasks \in Seq(Task) /\ work \in Seq(Order) /\ DOMAIN tasks = 1..Len(tasks) /\ Len(tasks) \in Nat
  BY Typed
<1>2. /\ \A i \in DOMAIN work : work[i].task \in DOMAIN tasks
      /\ \A i \in DOMAIN work :
             work[i].op = "cancel" => current[tasks[work[i].task].cell] # work[i].task
  BY DEF IInv, WorkInOrder, GivenUpIsCancelled
<1>3. CASE current[c] = 0
  <2>1. w = work
    BY <1>3 DEF Cancelling
  <2>2. InOrder(w)
    BY <2>1, BlocksInOrder DEF InOrder
  <2>. QED
    BY <1>1, <1>2, <1>3, <2>1, <2>2 DEF GivesUp, Has, Ordered
<1>4. CASE current[c] # 0
  <2>. DEFINE m == current[c]
              x == [op |-> "cancel", task |-> m]
  <2>1. m \in DOMAIN tasks
    BY <1>1, <1>4 DEF IInv, TypeOK
  <2>2. tasks[m].cell = c
    BY <1>4 DEF IInv, CurrentIsNewest
  <2>3. x \in Order /\ x.op = "cancel" /\ x.task = m
    <3>1. m \in Ids
      BY <2>1, Typed, BoundAssumption DEF Ids
    <3>. QED
      BY <3>1 DEF Order
  <2>4. w = Append(work, x)
    BY <1>4 DEF Cancelling
  <2>. HIDE DEF x
  <2>5. /\ w \in Seq(Order) /\ DOMAIN w = DOMAIN work \cup {Len(work) + 1}
        /\ DOMAIN work = 1..Len(work) /\ Len(work) \in Nat
        /\ w[Len(work) + 1] = x /\ \A i \in DOMAIN work : w[i] = work[i]
    BY <1>1, <2>3, <2>4, Grown
  <2>6. \A i \in DOMAIN w : w[i].task \in DOMAIN tasks
    BY <1>2, <2>1, <2>3, <2>5
  <2>7. \A u \in DOMAIN tasks : Has(w, "enqueue", u) <=> Ordered("enqueue", u)
    BY <2>3, <2>5 DEF Has, Ordered
  <2>8. \A i \in DOMAIN w : w[i].op = "cancel" =>
            \/ tasks[w[i].task].cell = c
            \/ current[tasks[w[i].task].cell] # w[i].task
    BY <1>2, <2>2, <2>3, <2>5
  <2>9. \A u \in DOMAIN tasks : Ordered("cancel", u) => Has(w, "cancel", u)
    BY <2>5 DEF Has, Ordered
  <2>10. Has(w, "cancel", m)
    BY <2>3, <2>5 DEF Has
  <2>11. ASSUME NEW i \in DOMAIN w, NEW j \in DOMAIN w, i < j,
                tasks[w[i].task].cell = tasks[w[j].task].cell
         PROVE  \/ w[i].task < w[j].task
                \/ w[i].task = w[j].task /\ w[i].op = "enqueue" /\ w[j].op = "cancel"
    <3>1. i \in DOMAIN work /\ w[i] = work[i]
      BY <2>5, <2>11
    <3>2. CASE j \in DOMAIN work
      <4>1. w[j] = work[j]
        BY <2>5, <3>2
      <4>2. tasks[work[i].task].cell = tasks[work[j].task].cell
        BY <2>11, <3>1, <4>1
      <4>. QED
        BY <2>11, <3>1, <3>2, <4>1, <4>2, BlocksInOrder
    <3>3. CASE j = Len(work) + 1
      <4>1. w[j].task = m /\ w[j].op = "cancel"
        BY <2>3, <2>5, <3>3
      <4>2. tasks[w[i].task].cell = c /\ w[i].task \in DOMAIN tasks
        BY <2>2, <2>6, <2>11, <4>1
      <4>3. w[i].task <= m
        BY <1>4, <4>2 DEF IInv, CurrentIsNewest
      <4>4. w[i].task = m => w[i].op # "cancel"
        BY <1>2, <3>1, <4>2
      <4>5. w[i].op \in {"enqueue", "cancel"}
        BY <1>1, <3>1, OrderFields
      <4>6. w[i].task < m \/ w[i].task = m
        BY <1>1, <2>1, <4>2, <4>3
      <4>. QED
        BY <4>1, <4>4, <4>5, <4>6
    <3>. QED
      BY <2>5, <3>2, <3>3
  <2>. QED
    BY <2>5, <2>6, <2>7, <2>8, <2>9, <2>10, <2>11 DEF GivesUp, InOrder
<1>. QED
  BY <1>3, <1>4

\* A cell is bound to a row whose photo the cache has.
LEMMA HitKeeps ==
    ASSUME IInv, NEW c \in Cells, NEW photo \in Photos,
           row' = [row EXCEPT ![c] = photo], shows' = [shows EXCEPT ![c] = photo],
           current' = [current EXCEPT ![c] = 0], work' = Cancelling(c),
           UNCHANGED <<tasks, main, cache>>
    PROVE  IInv'
<1>1. tasks \in Seq(Task) /\ DOMAIN tasks = 1..Len(tasks) /\ Len(tasks) \in Nat
  BY Typed
<1>2. GivesUp(work', c)
  BY CancellingGivesUp
<1>3. /\ row' \in [Cells -> Slot] /\ shows' \in [Cells -> Slot]
      /\ row'[c] = photo /\ shows'[c] = photo /\ current'[c] = 0
      /\ \A d \in Cells : d # c => row'[d] = row[d] /\ shows'[d] = shows[d] /\ current'[d] = current[d]
  BY DEF IInv, TypeOK, Slot
<1>4. current' \in [Cells -> 0..Len(tasks)]
  BY <1>1 DEF IInv, TypeOK
<1>5. \A u \in DOMAIN tasks : tasks[u].cell \in Cells
  BY <1>1, Fields
<1>6. TypeOK'
  BY <1>2, <1>3, <1>4 DEF IInv, TypeOK, GivesUp
<1>7. CurrentIsNewest'
  <2>1. ASSUME NEW d \in Cells, current'[d] # 0
        PROVE  tasks[current'[d]].cell = d /\ tasks[current'[d]].photo = row'[d]
    <3>1. d # c
      BY <1>3, <2>1
    <3>. QED
      BY <1>3, <2>1, <3>1 DEF IInv, CurrentIsNewest
  <2>2. ASSUME NEW u \in DOMAIN tasks
        PROVE  /\ row'[tasks[u].cell] # None
               /\ current'[tasks[u].cell] # 0 => u <= current'[tasks[u].cell]
    <3>1. CASE tasks[u].cell = c
      BY <1>3, <3>1, PhotosAssumption
    <3>2. CASE tasks[u].cell # c
      BY <1>3, <1>5, <3>2 DEF IInv, CurrentIsNewest
    <3>. QED
      BY <3>1, <3>2
  <2>. QED
    BY <2>1, <2>2 DEF CurrentIsNewest
<1>8. NewIsEnqueued'
  <2>1. \A u \in DOMAIN tasks : Ordered("enqueue", u)' <=> Ordered("enqueue", u)
    BY <1>2 DEF GivesUp, Has, Ordered
  <2>. QED
    BY <2>1 DEF IInv, NewIsEnqueued
<1>9. GivenUpIsCancelled'
  <2>1. ASSUME NEW i \in DOMAIN work', work'[i].op = "cancel"
        PROVE  current'[tasks[work'[i].task].cell] # work'[i].task
    <3>1. /\ work'[i].task \in DOMAIN tasks
          /\ \/ tasks[work'[i].task].cell = c
             \/ current[tasks[work'[i].task].cell] # work'[i].task
      BY <1>2, <2>1 DEF GivesUp
    <3>2. work'[i].task # 0 /\ tasks[work'[i].task].cell \in Cells
      BY <1>1, <1>5, <3>1
    <3>. QED
      BY <1>3, <3>1, <3>2
  <2>2. ASSUME NEW u \in DOMAIN tasks, tasks[u].state \in {"new", "fetching", "fetched"},
               current'[tasks[u].cell] # u
        PROVE  Ordered("cancel", u)'
    <3>1. CASE tasks[u].cell = c /\ current[c] = u
      BY <1>2, <3>1 DEF GivesUp, Has, Ordered
    <3>2. CASE tasks[u].cell # c \/ current[c] # u
      <4>1. current[tasks[u].cell] # u
        BY <1>3, <1>5, <2>2, <3>2
      <4>2. Ordered("cancel", u)
        BY <2>2, <4>1 DEF IInv, GivenUpIsCancelled
      <4>. QED
        BY <1>2, <4>2 DEF GivesUp, Has, Ordered
    <3>. QED
      BY <3>1, <3>2
  <2>. QED
    BY <2>1, <2>2 DEF GivenUpIsCancelled
<1>10. WorkInOrder'
  BY <1>2 DEF GivesUp, InOrder, WorkInOrder
<1>11. OneAtATime' /\ MainInOrder' /\ OlderLandsFirst'
  BY DEF IInv, OneAtATime, MainInOrder, OlderLandsFirst
<1>12. PhotoInPlace'
  BY <1>3 DEF IInv, PhotoInPlace
<1>. QED
  BY <1>6, <1>7, <1>8, <1>9, <1>10, <1>11, <1>12 DEF IInv

\* A cell is bound to a row whose photo is to be downloaded.
Miss(c, photo) ==
    /\ Len(tasks) < MaxDownloads
    /\ row' = [row EXCEPT ![c] = photo] /\ shows' = [shows EXCEPT ![c] = None]
    /\ tasks' = Append(tasks, [cell |-> c, photo |-> photo, state |-> "new"])
    /\ current' = [current EXCEPT ![c] = Len(tasks')]
    /\ work' = Append(Cancelling(c), [op |-> "enqueue", task |-> Len(tasks')])
    /\ UNCHANGED <<main, cache>>

LEMMA MissKeeps ==
    ASSUME IInv, NEW c \in Cells, NEW photo \in Photos, Miss(c, photo)
    PROVE  IInv'
<1>. DEFINE n == Len(tasks')
            x == [cell |-> c, photo |-> photo, state |-> "new"]
            y == [op |-> "enqueue", task |-> n]
            w == Cancelling(c)
<1>1. /\ tasks \in Seq(Task) /\ DOMAIN tasks = 1..Len(tasks)
      /\ Len(tasks) \in Nat /\ work \in Seq(Order)
  BY Typed
<1>2. x \in Task /\ x.cell = c /\ x.photo = photo /\ x.state = "new"
  BY DEF Task, State
<1>3. tasks' = Append(tasks, x)
  BY DEF Miss
<1>. HIDE DEF x
<1>4. /\ tasks' \in Seq(Task) /\ n = Len(tasks) + 1
      /\ DOMAIN tasks' = DOMAIN tasks \cup {n} /\ tasks'[n] = x
      /\ \A u \in DOMAIN tasks : tasks'[u] = tasks[u]
  BY <1>1, <1>2, <1>3, Grown
<1>5. /\ n \in Nat /\ n # 0 /\ n \notin DOMAIN tasks /\ n <= MaxDownloads
      /\ \A u \in DOMAIN tasks : u < n /\ u # n /\ u \in Nat
  <2>1. Len(tasks) < MaxDownloads
    BY DEF Miss
  <2>. HIDE DEF n
  <2>. QED
    BY <1>1, <1>4, <2>1, BoundAssumption
<1>6. /\ current' = [current EXCEPT ![c] = n] /\ work' = Append(w, y)
      /\ UNCHANGED <<main, cache>>
  BY DEF Miss
<1>7. y \in Order /\ y.op = "enqueue" /\ y.task = n
  <2>1. n \in Ids
    BY <1>5, BoundAssumption DEF Ids
  <2>. QED
    BY <2>1 DEF Order
<1>8. GivesUp(w, c)
  BY CancellingGivesUp
<1>. HIDE DEF n, y, w
<1>9. w \in Seq(Order)
  BY <1>8 DEF GivesUp
<1>10. /\ work' \in Seq(Order) /\ DOMAIN work' = DOMAIN w \cup {Len(w) + 1}
       /\ DOMAIN w = 1..Len(w) /\ Len(w) \in Nat
       /\ work'[Len(w) + 1] = y /\ \A i \in DOMAIN w : work'[i] = w[i]
  BY <1>6, <1>7, <1>9, Grown
<1>11. /\ row' \in [Cells -> Slot] /\ shows' \in [Cells -> Slot]
       /\ row'[c] = photo /\ shows'[c] = None
       /\ \A d \in Cells : d # c => row'[d] = row[d] /\ shows'[d] = shows[d]
  BY DEF Miss, IInv, TypeOK, Slot
<1>12. \A d \in Cells : current[d] \in 0..Len(tasks)
  BY DEF IInv, TypeOK
<1>13. current'[c] = n /\ \A d \in Cells : d # c => current'[d] = current[d]
  BY <1>6 DEF IInv, TypeOK
<1>14. current' \in [Cells -> 0..Len(tasks')]
  <2>1. \A d \in Cells : current'[d] \in 0..n
    BY <1>1, <1>4, <1>5, <1>12, <1>13
  <2>. QED
    BY <1>6, <2>1 DEF IInv, TypeOK, n
<1>15. \A u \in DOMAIN tasks : tasks[u].cell \in Cells
  BY <1>1, Fields
<1>16. \A d \in Cells : current[d] # 0 => current[d] \in DOMAIN tasks
  BY <1>1, <1>12
<1>17. TypeOK'
  BY <1>4, <1>5, <1>6, <1>10, <1>11, <1>14 DEF IInv, TypeOK, n
<1>18. CurrentIsNewest'
  <2>1. ASSUME NEW d \in Cells, current'[d] # 0
        PROVE  tasks'[current'[d]].cell = d /\ tasks'[current'[d]].photo = row'[d]
    <3>1. CASE d = c
      BY <1>2, <1>4, <1>11, <1>13, <3>1
    <3>2. CASE d # c
      <4>1. tasks[current[d]].cell = d /\ tasks[current[d]].photo = row[d]
        BY <1>13, <2>1, <3>2 DEF IInv, CurrentIsNewest
      <4>. QED
        BY <1>4, <1>11, <1>13, <1>16, <2>1, <3>2, <4>1
    <3>. QED
      BY <3>1, <3>2
  <2>2. ASSUME NEW u \in DOMAIN tasks'
        PROVE  /\ row'[tasks'[u].cell] # None
               /\ current'[tasks'[u].cell] # 0 => u <= current'[tasks'[u].cell]
    <3>1. CASE tasks'[u].cell = c
      <4>1. u <= n
        BY <1>4, <1>5
      <4>. QED
        BY <1>11, <1>13, <3>1, <4>1, PhotosAssumption
    <3>2. CASE tasks'[u].cell # c
      <4>1. u \in DOMAIN tasks /\ tasks'[u] = tasks[u] /\ tasks[u].cell \in Cells
        BY <1>2, <1>4, <1>15, <3>2
      <4>2. /\ row[tasks[u].cell] # None
            /\ current[tasks[u].cell] # 0 => u <= current[tasks[u].cell]
        BY <4>1 DEF IInv, CurrentIsNewest
      <4>. QED
        BY <1>11, <1>13, <3>2, <4>1, <4>2
    <3>. QED
      BY <3>1, <3>2
  <2>. QED
    BY <2>1, <2>2 DEF CurrentIsNewest
<1>19. NewIsEnqueued'
  <2>1. ASSUME NEW u \in DOMAIN tasks PROVE tasks'[u].state = "new" <=> Ordered("enqueue", u)'
    <3>1. Ordered("enqueue", u)' <=> Has(w, "enqueue", u)
      BY <1>5, <1>7, <1>10 DEF Has, Ordered
    <3>2. Has(w, "enqueue", u) <=> Ordered("enqueue", u)
      BY <1>8 DEF GivesUp
    <3>. QED
      BY <1>4, <3>1, <3>2 DEF IInv, NewIsEnqueued
  <2>2. ASSUME NEW u \in DOMAIN tasks', u = n
        PROVE  tasks'[u].state = "new" /\ Ordered("enqueue", u)'
    BY <1>2, <1>4, <1>7, <1>10, <2>2 DEF Ordered
  <2>. QED
    BY <1>4, <2>1, <2>2 DEF NewIsEnqueued
<1>20. GivenUpIsCancelled'
  <2>1. ASSUME NEW i \in DOMAIN work', work'[i].op = "cancel"
        PROVE  current'[tasks'[work'[i].task].cell] # work'[i].task
    <3>1. i \in DOMAIN w /\ work'[i] = w[i]
      BY <1>7, <1>10, <2>1
    <3>2. /\ w[i].task \in DOMAIN tasks
          /\ tasks[w[i].task].cell = c \/ current[tasks[w[i].task].cell] # w[i].task
      BY <1>8, <2>1, <3>1 DEF GivesUp
    <3>3. /\ tasks'[w[i].task] = tasks[w[i].task] /\ tasks[w[i].task].cell \in Cells
          /\ w[i].task # n
      BY <1>4, <1>5, <1>15, <3>2
    <3>. QED
      BY <1>13, <3>1, <3>2, <3>3
  <2>2. ASSUME NEW u \in DOMAIN tasks', tasks'[u].state \in {"new", "fetching", "fetched"},
               current'[tasks'[u].cell] # u
        PROVE  Ordered("cancel", u)'
    <3>1. u # n
      BY <1>2, <1>4, <1>13, <2>2
    <3>2. u \in DOMAIN tasks /\ tasks'[u] = tasks[u] /\ tasks[u].cell \in Cells
      BY <1>4, <1>15, <3>1
    <3>3. Has(w, "cancel", u)
      <4>1. CASE tasks[u].cell = c /\ current[c] = u
        BY <1>8, <3>2, <4>1 DEF GivesUp
      <4>2. CASE tasks[u].cell # c \/ current[c] # u
        <5>1. current[tasks[u].cell] # u
          BY <1>13, <2>2, <3>2, <4>2
        <5>2. Ordered("cancel", u)
          BY <2>2, <3>2, <5>1 DEF IInv, GivenUpIsCancelled
        <5>. QED
          BY <1>8, <3>2, <5>2 DEF GivesUp
      <4>. QED
        BY <4>1, <4>2
    <3>. QED
      BY <1>10, <3>3 DEF Has, Ordered
  <2>. QED
    BY <2>1, <2>2 DEF GivenUpIsCancelled
<1>21. WorkInOrder'
  <2>1. \A i \in DOMAIN w : w[i].task \in DOMAIN tasks
    BY <1>8 DEF GivesUp
  <2>2. \A i \in DOMAIN work' : work'[i].task \in DOMAIN tasks'
    BY <1>4, <1>7, <1>10, <2>1
  <2>3. ASSUME NEW i \in DOMAIN work', NEW j \in DOMAIN work', i < j,
               tasks'[work'[i].task].cell = tasks'[work'[j].task].cell
        PROVE  \/ work'[i].task < work'[j].task
               \/ /\ work'[i].task = work'[j].task
                  /\ work'[i].op = "enqueue" /\ work'[j].op = "cancel"
    <3>1. i \in DOMAIN w /\ work'[i] = w[i] /\ w[i].task \in DOMAIN tasks
      BY <1>10, <2>1, <2>3
    <3>2. CASE j = Len(w) + 1
      BY <1>5, <1>7, <1>10, <3>1, <3>2
    <3>3. CASE j \in DOMAIN w
      <4>1. work'[j] = w[j] /\ w[j].task \in DOMAIN tasks
        BY <1>10, <2>1, <3>3
      <4>2. tasks[w[i].task].cell = tasks[w[j].task].cell
        BY <1>4, <2>3, <3>1, <4>1
      <4>3. \/ w[i].task < w[j].task
            \/ w[i].task = w[j].task /\ w[i].op = "enqueue" /\ w[j].op = "cancel"
        BY <1>8, <2>3, <3>1, <3>3, <4>2 DEF GivesUp, InOrder
      <4>. QED
        BY <3>1, <4>1, <4>3
    <3>. QED
      BY <1>10, <3>2, <3>3
  <2>. QED
    BY <2>2, <2>3 DEF WorkInOrder
<1>22. OneAtATime'
  <2>1. ASSUME NEW u \in DOMAIN tasks', NEW v \in DOMAIN tasks', u < v,
               tasks'[u].cell = tasks'[v].cell, tasks'[v].state # "new"
        PROVE  tasks'[u].state \in Over
    <3>1. v \in DOMAIN tasks /\ tasks'[v] = tasks[v]
      BY <1>2, <1>4, <2>1
    <3>2. u \in DOMAIN tasks /\ tasks'[u] = tasks[u]
      BY <1>4, <1>5, <2>1, <3>1
    <3>. QED
      BY <2>1, <3>1, <3>2 DEF IInv, OneAtATime, Over
  <2>. QED
    BY <2>1 DEF OneAtATime, Over
<1>23. MainInOrder'
  <2>1. \A i \in DOMAIN main : main[i] \in DOMAIN tasks
    BY DEF IInv, MainInOrder
  <2>2. \A u \in DOMAIN tasks' : tasks'[u].state = "landing" =>
            u \in DOMAIN tasks /\ tasks[u].state = "landing"
    BY <1>2, <1>4
  <2>. QED
    BY <1>4, <1>6, <2>1, <2>2 DEF IInv, MainInOrder
<1>24. OlderLandsFirst'
  <2>1. \A u \in DOMAIN tasks' : tasks'[u].state \in {"landing", "landed"} =>
            u \in DOMAIN tasks /\ tasks'[u] = tasks[u]
    BY <1>2, <1>4
  <2>. QED
    BY <2>1 DEF IInv, OlderLandsFirst
<1>25. PhotoInPlace'
  <2>1. ASSUME NEW d \in Cells, d # c
        PROVE  \/ shows[d] = row[d]
               \/ shows[d] = None /\ current[d] # 0 /\ tasks'[current[d]].state # "landed"
               \/ /\ current[d] # 0 => tasks'[current[d]].state # "landed"
                  /\ \E u \in DOMAIN tasks' :
                         /\ u # current[d] /\ tasks'[u].cell = d
                         /\ tasks'[u].photo = shows[d] /\ tasks'[u].state = "landed"
    BY <1>4, <1>16 DEF IInv, PhotoInPlace
  <2>2. shows'[c] = None /\ current'[c] # 0 /\ tasks'[current'[c]].state # "landed"
    BY <1>2, <1>4, <1>5, <1>11, <1>13
  <2>. QED
    BY <1>11, <1>13, <2>1, <2>2 DEF PhotoInPlace
<1>. QED
  BY <1>17, <1>18, <1>19, <1>20, <1>21, <1>22, <1>23, <1>24, <1>25 DEF IInv

LEMMA NextKeeps == IInv /\ [Next]_vars => IInv'
<1> SUFFICES ASSUME IInv, [Next]_vars PROVE IInv'
  OBVIOUS
<1>1. ASSUME NEW c \in Cells, NEW photo \in Photos, Bind(c, photo) PROVE IInv'
  <2>1. CASE photo \in cache
    BY <1>1, <2>1, HitKeeps DEF Bind
  <2>2. CASE photo \notin cache
    BY <1>1, <2>2, MissKeeps DEF Bind, Miss
  <2>. QED
    BY <2>1, <2>2
<1>2. ASSUME NEW photo \in Photos, Evict(photo) \/ Save(photo) PROVE IInv'
  <2>1. cache' \in SUBSET Photos
    BY <1>2 DEF Evict, Save, IInv, TypeOK
  <2>. QED
    BY <1>2, <2>1, CacheKeeps DEF Evict, Save
<1>3. CASE UNCHANGED vars
  <2>1. cache' \in SUBSET Photos
    BY <1>3 DEF vars, IInv, TypeOK
  <2>. QED
    BY <1>3, <2>1, CacheKeeps DEF vars
<1>. QED
  BY <1>1, <1>2, <1>3, WorkKeeps, CallbackKeeps, LandKeeps, FetchEndsKeeps DEF Next

-----------------------------------------------------------------------------
(***************************************************************************)
(* The theorems.                                                           *)
(***************************************************************************)

\* The whole invariant: cells, downloads, the storage queue and the main queue fit together.
THEOREM InvariantHolds == Spec => []IInv
<1>. QED
  BY InitIInv, NextKeeps, PTL DEF Spec

\* sd_setImage on a reused cell: it shows its row's photo, or nothing until the download
\* has landed, or the photo of an earlier row that was past stopping.
THEOREM PhotosInPlace == Spec => []PhotoInPlace
<1>1. IInv => PhotoInPlace
  BY DEF IInv
<1>. QED
  BY <1>1, InvariantHolds, PTL

=============================================================================
