-------------------------- MODULE GetDocumentsProofs --------------------------
(***************************************************************************)
(* The invariant of GetDocuments, and that it implements Reads, for any    *)
(* number of calls, writes, news and faults.                               *)
(*                                                                         *)
(* The two halves of the invariant are proved apart.  The stream's: what   *)
(* the client knows of the connection (StreamGood).  The calls': where     *)
(* each call is, and in what order (CallsFit), which the stream touches    *)
(* only by telling listeners something (Told, Extended).  Reads then needs *)
(* of a step only that: new events stand behind the old ones, for open     *)
(* calls without a gap, so they answer the oldest that wait (PostAnswers). *)
(***************************************************************************)
EXTENDS GetDocuments, WellFoundedInduction, FiniteSetTheorems, SequenceTheorems, TLAPS

(***************************************************************************)
(* Numbers and sequences.                                                  *)
(***************************************************************************)

\* The order of the numbers, as the library wants it.
Below == {pair \in Nat \X Nat : pair[1] < pair[2]}

\* The order is that of the library.
LEMMA NatOrder == OpToRel(<, Nat) = Below
  BY Zenon DEF OpToRel, Below

\* A set of numbers has a least one: what stands in for induction below.
LEMMA Least ==
    ASSUME NEW S \in SUBSET Nat, S # {}
    PROVE  \E x \in S : \A y \in S : x <= y
<1>1. IsWellFoundedOn(Below, Nat)
  BY NatLessThanWellFounded, NatOrder, Zenon
<1>2. PICK x \in S : \A y \in S : <<y, x>> \notin Below
  BY <1>1, WFMin
<1>3. \A y \in S : y < x => <<y, x>> \in Below
  BY DEF Below
<1>4. \A y \in S : ~(y < x)
  BY <1>2, <1>3
<1>5. \A y \in S : x <= y
  BY <1>4
<1>. QED
  BY <1>5

\* What Among computes on its way, up to the m-th member of q.
Building(g, q, S, m) ==
    g = [n \in 0..m |->
            IF n = 0 THEN <<>>
            ELSE IF q[n] \in S THEN Append(g[n - 1], q[n]) ELSE g[n - 1]]

\* Among is the last of that.
LEMMA AmongBuilt ==
    ASSUME NEW q, NEW S
    PROVE  Among(q, S) = (CHOOSE g : Building(g, q, S, Len(q)))[Len(q)]
  BY Zenon DEF Among, Building

\* There is such a computation.
LEMMA Built ==
    ASSUME NEW q, NEW S, NEW m \in Nat
    PROVE  \E g : Building(g, q, S, m)
<1>. DEFINE Bad == {n \in Nat : ~\E g : Building(g, q, S, n)}
<1>1. SUFFICES ASSUME Bad # {} PROVE FALSE
  OBVIOUS
<1>2. PICK n \in Bad : \A k \in Bad : n <= k
  BY <1>1, Least
<1>3. CASE n = 0
  <2>. DEFINE g == [k \in 0..0 |-> <<>>]
  <2>1. Building(g, q, S, 0)
    BY DEF Building
  <2>. QED
    BY <1>2, <1>3, <2>1
<1>4. CASE n # 0
  <2>1. n - 1 \in Nat /\ n - 1 \notin Bad
    BY <1>2, <1>4
  <2>2. PICK h : Building(h, q, S, n - 1)
    BY <2>1
  <2>. DEFINE last == IF q[n] \in S THEN Append(h[n - 1], q[n]) ELSE h[n - 1]
              g == [k \in 0..n |-> IF k = n THEN last ELSE h[k]]
  <2>3. h = [k \in 0..(n-1) |->
            IF k = 0 THEN <<>>
            ELSE IF q[k] \in S THEN Append(h[k - 1], q[k]) ELSE h[k - 1]]
    BY <2>2 DEF Building
  <2>4. \A k \in 0..(n-1) : h[k] = IF k = 0 THEN <<>>
            ELSE IF q[k] \in S THEN Append(h[k - 1], q[k]) ELSE h[k - 1]
    BY <2>3
  <2>5. \A k \in 0..n : k # n => g[k] = h[k]
    BY <2>1
  <2>6. g[n] = last
    BY <2>1
  <2>. HIDE DEF g
  <2>7. \A k \in 0..n : g[k] = IF k = 0 THEN <<>>
            ELSE IF q[k] \in S THEN Append(g[k - 1], q[k]) ELSE g[k - 1]
    BY <1>2, <1>4, <2>1, <2>4, <2>5, <2>6
  <2>8. g = [k \in 0..n |-> g[k]]
    BY DEF g
  <2>9. Building(g, q, S, n)
    BY <2>7, <2>8 DEF Building
  <2>. QED
    BY <1>2, <2>9
<1>. QED
  BY <1>3, <1>4

\* The members of q come in order.
Rising(q) == \A i, j \in DOMAIN q : i < j => q[i] < q[j]

\* One more member.
LEMMA AppendNumber ==
    ASSUME NEW T, NEW s \in Seq(T), NEW x \in T
    PROVE  /\ Append(s, x) \in Seq(T)
           /\ Len(Append(s, x)) = Len(s) + 1
           /\ \A i \in 1..Len(s) : Append(s, x)[i] = s[i]
           /\ Append(s, x)[Len(s) + 1] = x
           /\ Range(Append(s, x)) = Range(s) \cup {x}
<1>1. /\ Append(s, x) \in Seq(T)
      /\ Len(Append(s, x)) = Len(s) + 1
      /\ \A i \in 1..Len(s) : Append(s, x)[i] = s[i]
      /\ Append(s, x)[Len(s) + 1] = x
      /\ DOMAIN s = 1..Len(s) /\ Len(s) \in Nat
      /\ DOMAIN Append(s, x) = 1..(Len(s) + 1)
  OBVIOUS
<1>2. Range(Append(s, x)) \subseteq Range(s) \cup {x}
  BY <1>1 DEF Range
<1>3. Range(s) \subseteq Range(Append(s, x)) /\ x \in Range(Append(s, x))
  BY <1>1 DEF Range
<1>. QED
  BY <1>1, <1>2, <1>3

\* What Among makes of the first n members of q.
Chosen(s, q, S, n) ==
    /\ s \in Seq(Nat)
    /\ Range(s) = {q[i] : i \in 1..n} \cap S
    /\ Rising(q) => Rising(s)

\* Among keeps the members that are in S, and their order.
LEMMA AmongChosen ==
    ASSUME NEW q \in Seq(Nat), NEW S
    PROVE  Chosen(Among(q, S), q, S, Len(q))
<1>. DEFINE N == Len(q)
<1>1. N \in Nat /\ DOMAIN q = 1..N /\ \A i \in 1..N : q[i] \in Nat
  OBVIOUS
<1>. DEFINE g == CHOOSE h : Building(h, q, S, N)
<1>2. Building(g, q, S, N)
  BY <1>1, Built
<1>3. Among(q, S) = g[N]
  BY AmongBuilt
<1>. HIDE DEF g, N
<1>4. \A n \in 0..N : g[n] = IF n = 0 THEN <<>>
            ELSE IF q[n] \in S THEN Append(g[n - 1], q[n]) ELSE g[n - 1]
  BY <1>2 DEF Building
<1>. DEFINE Bad == {n \in 0..N : ~Chosen(g[n], q, S, n)}
<1>5. Bad = {}
  <2>1. SUFFICES ASSUME Bad # {} PROVE FALSE
    OBVIOUS
  <2>2. Bad \in SUBSET Nat
    BY <1>1
  <2>3. PICK n \in Bad : \A k \in Bad : n <= k
    BY <2>1, <2>2, Least
  <2>4. n \in 0..N /\ ~Chosen(g[n], q, S, n)
    BY <2>3
  <2>5. n # 0
    <3>1. SUFFICES ASSUME n = 0 PROVE FALSE
      OBVIOUS
    <3>2. g[n] = <<>> /\ {q[i] : i \in 1..n} = {}
      BY <1>4, <2>4, <3>1
    <3>3. <<>> \in Seq(Nat) /\ DOMAIN (<<>>) = {} /\ Range(<<>>) = {} /\ Rising(<<>>)
      BY DEF Range, Rising
    <3>4. Chosen(<<>>, q, S, n)
      BY <3>2, <3>3 DEF Chosen
    <3>. QED
      BY <2>4, <3>2, <3>4
  <2>6. n - 1 \in 0..N /\ n - 1 \notin Bad /\ n \in 1..N
    BY <1>1, <2>2, <2>3, <2>4, <2>5
  <2>7. Chosen(g[n - 1], q, S, n - 1)
    BY <2>6
  <2>. DEFINE s == g[n - 1]  x == q[n]
  <2>8. s \in Seq(Nat) /\ x \in Nat
    BY <1>1, <2>6, <2>7 DEF Chosen
  <2>9. {q[i] : i \in 1..n} = {q[i] : i \in 1..(n - 1)} \cup {x}
    BY <1>1, <2>6
  <2>10. CASE x \in S
    <3>1. g[n] = Append(s, x)
      BY <1>4, <2>4, <2>5, <2>10
    <3>0. Range(Append(s, x)) = Range(s) \cup {x}
      BY <2>8, AppendNumber
    <3>2. Range(Append(s, x)) = {q[i] : i \in 1..n} \cap S
      BY <2>7, <2>9, <2>10, <3>0 DEF Chosen
    <3>3. ASSUME Rising(q) PROVE Rising(Append(s, x))
      <4>1. \A i \in 1..Len(s) : s[i] < x
        <5>1. TAKE i \in 1..Len(s)
        <5>2. s[i] \in Range(s)
          BY <2>8 DEF Range
        <5>3. PICK j \in 1..(n - 1) : s[i] = q[j]
          BY <2>7, <5>2 DEF Chosen
        <5>4. j \in DOMAIN q /\ n \in DOMAIN q /\ j < n
          BY <1>1, <2>6
        <5>. QED
          BY <3>3, <5>3, <5>4 DEF Rising
      <4>2. Rising(s)
        BY <2>7, <3>3 DEF Chosen
      <4>. HIDE DEF s, x
      <4>3. Len(s) \in Nat /\ DOMAIN s = 1..Len(s) /\ DOMAIN Append(s, x) = 1..(Len(s) + 1)
        BY <2>8
      <4>4. /\ \A i \in 1..Len(s) : Append(s, x)[i] = s[i]
            /\ Append(s, x)[Len(s) + 1] = x
        BY <2>8, AppendNumber
      <4>. QED
        BY <4>1, <4>2, <4>3, <4>4 DEF Rising
    <3>4. Append(s, x) \in Seq(Nat)
      BY <2>8
    <3>5. Chosen(Append(s, x), q, S, n)
      BY <3>2, <3>3, <3>4 DEF Chosen
    <3>. QED
      BY <2>4, <3>1, <3>5
  <2>11. CASE x \notin S
    <3>1. g[n] = s
      BY <1>4, <2>4, <2>5, <2>11
    <3>2. Range(s) = {q[i] : i \in 1..n} \cap S
      BY <2>7, <2>9, <2>11 DEF Chosen
    <3>3. Chosen(s, q, S, n)
      BY <2>7, <3>2 DEF Chosen
    <3>. QED
      BY <2>4, <3>1, <3>3
  <2>. QED
    BY <2>10, <2>11
<1>6. Chosen(g[N], q, S, N)
  BY <1>1, <1>5
<1>. QED
  BY <1>3, <1>6 DEF N

\* A sequence whose members are in T is one of members of T.
LEMMA SeqOfMembers ==
    ASSUME NEW s \in Seq(Nat), NEW T, Range(s) \subseteq T
    PROVE  s \in Seq(T)
<1>1. DOMAIN s = 1..Len(s) /\ Len(s) \in Nat /\ s \in [1..Len(s) -> Nat]
  BY LenProperties
<1>2. \A i \in 1..Len(s) : s[i] \in T
  BY <1>1 DEF Range
<1>3. s \in [1..Len(s) -> T]
  BY <1>1, <1>2
<1>. QED
  BY <1>1, <1>3, SeqDef

\* The same, for the calls.
LEMMA AmongFacts ==
    ASSUME NEW q \in Seq(Calls), NEW S
    PROVE  /\ Among(q, S) \in Seq(Calls)
           /\ Range(Among(q, S)) = Range(q) \cap S
           /\ Rising(q) => Rising(Among(q, S))
<1>1. Calls \subseteq Nat /\ q \in Seq(Nat)
  BY BoundsAssumption DEF Calls
<1>2. Chosen(Among(q, S), q, S, Len(q))
  BY <1>1, AmongChosen
<1>3. {q[i] : i \in 1..Len(q)} = Range(q) /\ Range(q) \subseteq Calls
  BY DEF Range
<1>4. Range(Among(q, S)) = Range(q) \cap S
  BY <1>2, <1>3 DEF Chosen
<1>5. Among(q, S) \in Seq(Nat) /\ Range(Among(q, S)) \subseteq Calls
  BY <1>2, <1>3, <1>4 DEF Chosen
<1>6. Among(q, S) \in Seq(Calls)
  BY <1>5, SeqOfMembers
<1>. QED
  BY <1>2, <1>4, <1>6 DEF Chosen

\* A set of numbers with a bound has a greatest one.
LEMMA Greatest ==
    ASSUME NEW N \in Nat, NEW S \in SUBSET (0..N), S # {}
    PROVE  \E x \in S : \A y \in S : y <= x
<1>. DEFINE M == {n \in Nat : N - n \in S}
<1>1. PICK z \in S : TRUE
  OBVIOUS
<1>2. N - z \in Nat /\ N - (N - z) = z
  BY <1>1
<1>3. N - z \in M
  BY <1>1, <1>2
<1>4. M \in SUBSET Nat /\ M # {}
  BY <1>3
<1>5. PICK m \in M : \A k \in M : m <= k
  BY <1>4, Least
<1>6. \A y \in S : N - y \in Nat /\ N - (N - y) = y
  OBVIOUS
<1>7. \A y \in S : N - y \in M
  BY <1>6
<1>8. \A y \in S : m <= N - y
  BY <1>5, <1>7
<1>9. N - m \in S /\ m \in Nat
  BY <1>5
<1>10. \A y \in S : y <= N - m
  BY <1>8, <1>9
<1>. QED
  BY <1>9, <1>10

-----------------------------------------------------------------------------
(***************************************************************************)
(* The invariant of the calls, of the values a step computes with: tq is   *)
(* the worker queue, k what was known, L the listeners and S the set of    *)
(* them, R those raised, E the events, and O, J and A the open, the joined *)
(* and the answered calls.                                                 *)
(***************************************************************************)

\* Joined and Answered.
JoinedOf(n, tq) == {c \in 1..n : ListenTask(c) \notin Range(tq)}
AnsweredOf(E) == {E[i].call : i \in DOMAIN E}

\* TasksInOrder: no task is queued twice, and each has what it relies on before it.
Before(tq, task, i) == \E j \in DOMAIN tq : j < i /\ tq[j] = task
Once(tq) == \A i, j \in DOMAIN tq : tq[i] = tq[j] => i = j

RemoveFits(task, mu) == task.op = "remove" => task.number \in mu
WriteFits(tq, i, st, w) ==
    tq[i].op = "write" =>
        /\ tq[i].number \in (st + 1)..w
        /\ \A n \in (st + 1)..(tq[i].number - 1) : Before(tq, WriteTask(n), i)
ListenFits(tq, i, st, k, O, J) ==
    tq[i].op = "listen" =>
        /\ tq[i].number \in O
        /\ \A n \in (st + 1)..k[tq[i].number] : Before(tq, WriteTask(n), i)
        /\ \A c \in O \ J : c < tq[i].number => Before(tq, ListenTask(c), i)
        /\ \A c \in J : c < tq[i].number

TasksFit(tq, mu, st, w, k, O, J) ==
    /\ Once(tq)
    /\ \A i \in DOMAIN tq :
           RemoveFits(tq[i], mu) /\ WriteFits(tq, i, st, w) /\ ListenFits(tq, i, st, k, O, J)
    /\ st <= w
    /\ \A n \in (st + 1)..w : WriteTask(n) \in Range(tq)
    /\ \A c \in J : k[c] <= st

\* ListenersInOrder.
ListenersFit(S, R, O, J, A) ==
    /\ R \subseteq S /\ S \subseteq J
    /\ S \ R \subseteq O \ A
    /\ O \cap J \subseteq (S \ R) \cup A

\* EventsInOrder.
FirstsInOrder(E, O) ==
    \A j \in DOMAIN E : \A c \in O :
        c < E[j].call => \E i \in DOMAIN E : i < j /\ E[i].call = c
ErrorsLast(E, S) ==
    \A i \in DOMAIN E :
        E[i].type = "error" =>
            /\ E[i].call \notin S
            /\ \A j \in DOMAIN E : E[j].call = E[i].call => j <= i
Shown(E, st) == \A j \in DOMAIN E : E[j].shows <= st
EventsFit(E, S, O, J, st) ==
    AnsweredOf(E) \subseteq J /\ FirstsInOrder(E, O) /\ ErrorsLast(E, S) /\ Shown(E, st)

\* CompletedInOrder.
DoneFit(d, n, mu, S, J, A) ==
    /\ d <= n /\ 1..d \subseteq J
    /\ mu \subseteq 1..d
    /\ \A c \in (1..d) \ mu : c \notin A \cup S

\* CallsInOrder.
CallsFit ==
    /\ TasksFit(tasks, muted, stored, written, known, Open, Joined)
    /\ Rising(manager.listeners)
    /\ ListenersFit(Listening, manager.raised, Open, Joined, Answered)
    /\ EventsFit(manager.events, Listening, Open, Joined, stored)
    /\ DoneFit(Len(completed), calls, muted, Listening, Joined, Answered)
    /\ \A i \in DOMAIN completed : completed[i] = i

\* The invariant, in these words.
LEMMA InTheseWords == CallsInOrder <=> CallsFit
<1>1. /\ Joined = JoinedOf(calls, tasks)
      /\ Answered = AnsweredOf(manager.events)
  BY DEF Joined, Answered, JoinedOf, AnsweredOf
<1>2. TasksInOrder <=> TasksFit(tasks, muted, stored, written, known, Open, Joined)
  <2>1. \A task, i : Queued(task, i) <=> Before(tasks, task, i)
    BY DEF Queued, Before
  <2>. QED
    BY <2>1 DEF TasksInOrder, TasksFit, Once, RemoveFits, WriteFits, ListenFits
<1>3. ListenersInOrder <=>
          /\ Rising(manager.listeners)
          /\ ListenersFit(Listening, manager.raised, Open, Joined, Answered)
  BY DEF ListenersInOrder, Rising, ListenersFit, Waiting
<1>4. EventsInOrder <=> EventsFit(manager.events, Listening, Open, Joined, stored)
  BY <1>1 DEF EventsInOrder, EventsFit, FirstsInOrder, ErrorsLast, Shown
<1>5. CompletedInOrder <=>
          /\ DoneFit(Len(completed), calls, muted, Listening, Joined, Answered)
          /\ \A i \in DOMAIN completed : completed[i] = i
  BY DEF CompletedInOrder, DoneFit
<1>. QED
  BY <1>2, <1>3, <1>4, <1>5 DEF CallsInOrder, CallsFit

\* Tasks with different numbers, or for different ends, differ.
LEMMA TaskNames ==
    /\ \A c, d : ListenTask(c) = ListenTask(d) => c = d
    /\ \A c, d : RemoveTask(c) = RemoveTask(d) => c = d
    /\ \A c, d : WriteTask(c) = WriteTask(d) => c = d
    /\ \A c, d : /\ ListenTask(c) # RemoveTask(d)
                 /\ ListenTask(c) # WriteTask(d)
                 /\ WriteTask(c) # RemoveTask(d)
    /\ \A c : /\ ListenTask(c).op = "listen" /\ ListenTask(c).number = c
              /\ RemoveTask(c).op = "remove" /\ RemoveTask(c).number = c
              /\ WriteTask(c).op = "write" /\ WriteTask(c).number = c
    /\ \A c \in Nat : ListenTask(c) \in Task /\ RemoveTask(c) \in Task /\ WriteTask(c) \in Task
    /\ \A t \in Task : /\ t.number \in Nat
                       /\ t.op = "listen" => t = ListenTask(t.number)
                       /\ t.op = "remove" => t = RemoveTask(t.number)
                       /\ t.op = "write" => t = WriteTask(t.number)
                       /\ t.op \in {"listen", "remove", "write"}
<1>1. \A c, d : ListenTask(c) = ListenTask(d) => c = d
  BY DEF ListenTask
<1>2. \A c, d : RemoveTask(c) = RemoveTask(d) => c = d
  BY DEF RemoveTask
<1>3. \A c, d : WriteTask(c) = WriteTask(d) => c = d
  BY DEF WriteTask
<1>4. \A c : /\ ListenTask(c).op = "listen" /\ ListenTask(c).number = c
             /\ RemoveTask(c).op = "remove" /\ RemoveTask(c).number = c
             /\ WriteTask(c).op = "write" /\ WriteTask(c).number = c
  BY DEF ListenTask, RemoveTask, WriteTask
<1>5. \A c, d : /\ ListenTask(c) # RemoveTask(d)
                /\ ListenTask(c) # WriteTask(d)
                /\ WriteTask(c) # RemoveTask(d)
  <2>. TAKE c, d
  <2>. QED
    BY <1>4
<1>6. \A c \in Nat : ListenTask(c) \in Task /\ RemoveTask(c) \in Task /\ WriteTask(c) \in Task
  BY DEF ListenTask, RemoveTask, WriteTask, Task
<1>7. \A t \in Task : /\ t.number \in Nat
                      /\ t.op = "listen" => t = ListenTask(t.number)
                      /\ t.op = "remove" => t = RemoveTask(t.number)
                      /\ t.op = "write" => t = WriteTask(t.number)
                      /\ t.op \in {"listen", "remove", "write"}
  BY DEF ListenTask, RemoveTask, WriteTask, Task
<1>. QED
  BY <1>1, <1>2, <1>3, <1>4, <1>5, <1>6, <1>7

\* A task more, behind the others.
LEMMA TaskMore ==
    ASSUME NEW tq \in Seq(Task), NEW t \in Task
    PROVE  /\ Append(tq, t) \in Seq(Task)
           /\ Len(tq) \in Nat
           /\ DOMAIN tq = 1..Len(tq)
           /\ DOMAIN Append(tq, t) = 1..(Len(tq) + 1)
           /\ \A i \in 1..Len(tq) : Append(tq, t)[i] = tq[i]
           /\ Append(tq, t)[Len(tq) + 1] = t
           /\ Range(Append(tq, t)) = Range(tq) \cup {t}
           /\ \A x : \A i \in 1..Len(tq) : Before(tq, x, i) => Before(Append(tq, t), x, i)
           /\ \A x \in Range(tq) : Before(Append(tq, t), x, Len(tq) + 1)
           /\ t \notin Range(tq) /\ Once(tq) => Once(Append(tq, t))
<1>1. /\ Append(tq, t) \in Seq(Task)
      /\ Len(tq) \in Nat
      /\ DOMAIN tq = 1..Len(tq)
      /\ DOMAIN Append(tq, t) = 1..(Len(tq) + 1)
      /\ \A i \in 1..Len(tq) : Append(tq, t)[i] = tq[i]
      /\ Append(tq, t)[Len(tq) + 1] = t
  OBVIOUS
<1>2. Range(Append(tq, t)) = Range(tq) \cup {t}
  BY AppendNumber
<1>. DEFINE N == Len(tq)  new == Append(tq, t)
<1>3. \A x : \A i \in 1..N : Before(tq, x, i) => Before(new, x, i)
  BY <1>1 DEF Before
<1>4. \A x \in Range(tq) : Before(new, x, N + 1)
  BY <1>1 DEF Before, Range
<1>5. ASSUME t \notin Range(tq), Once(tq) PROVE Once(new)
  <2>1. \A i \in 1..N : tq[i] # t
    BY <1>1, <1>5 DEF Range
  <2>. HIDE DEF N, new
  <2>2. \A i, j \in 1..(N + 1) : new[i] = new[j] => i = j
    <3>1. TAKE i, j \in 1..(N + 1)
    <3>2. \A m \in 1..(N + 1) : m = N + 1 \/ m \in 1..N
      BY <1>1 DEF N
    <3>3. HAVE new[i] = new[j]
    <3>4. \A m \in 1..N : new[m] = tq[m] /\ tq[m] # t
      BY <1>1, <2>1 DEF N, new
    <3>5. new[N + 1] = t
      BY <1>1 DEF N, new
    <3>6. \A a, b \in 1..N : tq[a] = tq[b] => a = b
      BY <1>1, <1>5 DEF Once, N
    <3>. QED
      BY <3>2, <3>3, <3>4, <3>5, <3>6
  <2>. QED
    BY <1>1, <2>2 DEF Once, N, new
<1>. QED
  BY <1>1, <1>2, <1>3, <1>4, <1>5

\* The oldest task is done.
LEMMA TaskLess ==
    ASSUME NEW tq \in Seq(Task), tq # <<>>
    PROVE  /\ Tail(tq) \in Seq(Task) /\ Head(tq) \in Task /\ Head(tq) = tq[1]
           /\ Len(tq) \in Nat /\ Len(tq) >= 1
           /\ DOMAIN tq = 1..Len(tq) /\ DOMAIN Tail(tq) = 1..(Len(tq) - 1)
           /\ \A i \in 1..(Len(tq) - 1) : Tail(tq)[i] = tq[i + 1] /\ i + 1 \in 1..Len(tq)
           /\ Range(tq) = Range(Tail(tq)) \cup {Head(tq)}
           /\ \A x : ~Before(tq, x, 1)
           /\ \A x : \A i \in 1..(Len(tq) - 1) :
                  x # Head(tq) /\ Before(tq, x, i + 1) => Before(Tail(tq), x, i)
           /\ Once(tq) => /\ Once(Tail(tq)) /\ Head(tq) \notin Range(Tail(tq))
                          /\ \A i \in 1..(Len(tq) - 1) : Tail(tq)[i] # Head(tq)
<1>1. /\ Tail(tq) \in Seq(Task) /\ Head(tq) \in Task /\ Head(tq) = tq[1]
      /\ Len(tq) \in Nat /\ Len(tq) >= 1
      /\ DOMAIN tq = 1..Len(tq) /\ DOMAIN Tail(tq) = 1..(Len(tq) - 1)
      /\ \A i \in 1..(Len(tq) - 1) : Tail(tq)[i] = tq[i + 1] /\ i + 1 \in 1..Len(tq)
  OBVIOUS
<1>. DEFINE N == Len(tq)  rest == Tail(tq)  h == Head(tq)
<1>. HIDE DEF N, rest, h
<1>2. /\ N \in Nat /\ N >= 1 /\ h = tq[1]
      /\ DOMAIN tq = 1..N /\ DOMAIN rest = 1..(N - 1)
      /\ \A i \in 1..(N - 1) : rest[i] = tq[i + 1] /\ i + 1 \in 1..N
  BY <1>1 DEF N, rest, h
<1>3. \A j \in 1..N : j = 1 \/ (j - 1 \in 1..(N - 1) /\ rest[j - 1] = tq[j] /\ (j - 1) + 1 = j)
  BY <1>2
<1>4. Range(tq) = Range(rest) \cup {h}
  <2>1. Range(tq) \subseteq Range(rest) \cup {h}
    <3>1. SUFFICES ASSUME NEW y \in Range(tq)
                   PROVE  y = h \/ y \in Range(rest)
      OBVIOUS
    <3>2. PICK j \in 1..N : tq[j] = y
      BY <1>2, <3>1, Zenon DEF Range
    <3>3. CASE j = 1
      BY <1>2, <3>2, <3>3, Zenon
    <3>4. CASE j - 1 \in 1..(N - 1) /\ rest[j - 1] = tq[j]
      <4>1. j - 1 \in DOMAIN rest /\ rest[j - 1] = y
        BY <1>2, <3>2, <3>4, Zenon
      <4>. QED
        BY <4>1, Zenon DEF Range
    <3>. QED
      BY <1>3, <3>2, <3>3, <3>4, Zenon
  <2>2. h \in Range(tq)
    <3>1. 1 \in DOMAIN tq
      BY <1>2
    <3>. QED
      BY <1>2, <3>1, Zenon DEF Range
  <2>3. ASSUME NEW y \in Range(rest) PROVE y \in Range(tq)
    <3>1. PICK i \in 1..(N - 1) : rest[i] = y
      BY <1>2, <2>3, Zenon DEF Range
    <3>2. tq[i + 1] = y /\ i + 1 \in DOMAIN tq
      BY <1>2, <3>1, Zenon
    <3>. QED
      BY <3>2, Zenon DEF Range
  <2>. QED
    BY <2>1, <2>2, <2>3
<1>5. \A x : ~Before(tq, x, 1)
  BY <1>2 DEF Before
<1>6. \A x : \A i \in 1..(N - 1) : x # h /\ Before(tq, x, i + 1) => Before(rest, x, i)
  <2>1. TAKE x
  <2>2. TAKE i \in 1..(N - 1)
  <2>3. HAVE x # h /\ Before(tq, x, i + 1)
  <2>4. PICK j \in 1..N : j < i + 1 /\ tq[j] = x
    BY <1>2, <2>3 DEF Before
  <2>5. j # 1
    BY <1>2, <2>3, <2>4
  <2>6. j - 1 \in 1..(N - 1) /\ rest[j - 1] = x /\ j - 1 < i
    BY <1>3, <2>4, <2>5
  <2>. QED
    BY <1>2, <2>6 DEF Before
<1>7. ASSUME Once(tq)
      PROVE  /\ Once(rest) /\ h \notin Range(rest)
             /\ \A i \in 1..(N - 1) : rest[i] # h
  <2>1. \A i, j \in 1..N : tq[i] = tq[j] => i = j
    BY <1>2, <1>7 DEF Once
  <2>2. \A i, j \in 1..(N - 1) : rest[i] = rest[j] => i = j
    BY <1>2, <2>1
  <2>3. \A i \in 1..(N - 1) : rest[i] # h
    BY <1>2, <2>1
  <2>. QED
    BY <1>2, <2>2, <2>3 DEF Once, Range
<1>. QED
  BY <1>1, <1>4, <1>5, <1>6, <1>7 DEF N, rest, h

\* getDocuments(): call n is on its way.
LEMMA TaskListen ==
    ASSUME NEW tq \in Seq(Task), NEW mu, NEW st \in Nat, NEW w \in Nat, NEW n \in Nat, NEW d \in Nat,
           NEW k \in Seq(Nat), Len(k) = n, d <= n,
           TasksFit(tq, mu, st, w, k, (d + 1)..n, JoinedOf(n, tq))
    PROVE  /\ JoinedOf(n + 1, Append(tq, ListenTask(n + 1))) = JoinedOf(n, tq)
           /\ TasksFit(Append(tq, ListenTask(n + 1)), mu, st, w, Append(k, w), (d + 1)..(n + 1),
                       JoinedOf(n, tq))
<1>. DEFINE t == ListenTask(n + 1)  new == Append(tq, t)  N == Len(tq)
            O == (d + 1)..n  Q == (d + 1)..(n + 1)  J == JoinedOf(n, tq)  kk == Append(k, w)
<1>1. t \in Task /\ t.op = "listen" /\ t.number = n + 1
  BY TaskNames
<1>. HIDE DEF t
<1>2. /\ N \in Nat /\ DOMAIN tq = 1..N /\ DOMAIN new = 1..(N + 1)
      /\ \A i \in 1..N : new[i] = tq[i]
      /\ new[N + 1] = t /\ Range(new) = Range(tq) \cup {t}
      /\ \A x : \A i \in 1..N : Before(tq, x, i) => Before(new, x, i)
      /\ \A x \in Range(tq) : Before(new, x, N + 1)
      /\ t \notin Range(tq) /\ Once(tq) => Once(new)
  BY <1>1, TaskMore
<1>3. /\ Once(tq)
      /\ \A i \in 1..N : RemoveFits(tq[i], mu) /\ WriteFits(tq, i, st, w) /\ ListenFits(tq, i, st, k, O, J)
      /\ st <= w
      /\ \A m \in (st + 1)..w : WriteTask(m) \in Range(tq)
      /\ \A c \in J : k[c] <= st
  BY <1>2 DEF TasksFit
<1>4. /\ \A c \in 1..n : kk[c] = k[c]
      /\ kk[n + 1] = w
  OBVIOUS
<1>. HIDE DEF new, N, kk
<1>5. J \subseteq 1..n /\ \A c \in O \ J : ListenTask(c) \in Range(tq)
  BY DEF JoinedOf
<1>6. t \notin Range(tq)
  <2>1. SUFFICES ASSUME t \in Range(tq) PROVE FALSE
    OBVIOUS
  <2>2. PICK i \in 1..N : tq[i] = t
    BY <1>2, <2>1 DEF Range
  <2>3. n + 1 \in O
    BY <1>1, <1>3, <2>2 DEF ListenFits
  <2>. QED
    BY <2>3
<1>7. JoinedOf(n + 1, new) = J
  <2>1. \A c \in 1..n : ListenTask(c) # t
    BY TaskNames DEF t
  <2>2. ListenTask(n + 1) \in Range(new)
    BY <1>2 DEF t
  <2>3. \A c \in 1..(n + 1) : c = n + 1 \/ c \in 1..n
    OBVIOUS
  <2>4. 1..n \subseteq 1..(n + 1)
    OBVIOUS
  <2>. QED
    BY <1>2, <2>1, <2>2, <2>3, <2>4 DEF JoinedOf
<1>. HIDE DEF J
<1>8. RemoveFits(t, mu) /\ WriteFits(new, N + 1, st, w)
  BY <1>1, <1>2 DEF RemoveFits, WriteFits
<1>9. ListenFits(new, N + 1, st, kk, Q, J)
  <2>1. n + 1 \in Q
    OBVIOUS
  <2>2. \A m \in (st + 1)..w : Before(new, WriteTask(m), N + 1)
    BY <1>2, <1>3
  <2>3. \A c \in Q \ J : c < n + 1 => c \in O \ J
    OBVIOUS
  <2>4. \A c \in Q \ J : c < n + 1 => Before(new, ListenTask(c), N + 1)
    BY <1>2, <1>5, <2>3
  <2>5. \A c \in J : c < n + 1
    BY <1>5
  <2>. QED
    BY <1>1, <1>2, <1>4, <2>1, <2>2, <2>4, <2>5 DEF ListenFits
<1>10. \A i \in 1..N : /\ RemoveFits(new[i], mu)
                       /\ WriteFits(new, i, st, w) /\ ListenFits(new, i, st, kk, Q, J)
  <2>. TAKE i \in 1..N
  <2>1. RemoveFits(new[i], mu) /\ WriteFits(new, i, st, w)
    BY <1>2, <1>3 DEF RemoveFits, WriteFits
  <2>2. ASSUME tq[i].op = "listen" PROVE ListenFits(new, i, st, kk, Q, J)
    <3>. DEFINE c == tq[i].number
    <3>1. /\ c \in O
          /\ \A m \in (st + 1)..k[c] : Before(tq, WriteTask(m), i)
          /\ \A x \in O \ J : x < c => Before(tq, ListenTask(x), i)
          /\ \A x \in J : x < c
      BY <1>3, <2>2 DEF ListenFits
    <3>2. c \in Q /\ kk[c] = k[c]
      <4>1. c \in Q /\ c \in 1..n
        BY <3>1
      <4>. QED
        BY <1>4, <4>1, Zenon
    <3>3. \A x \in Q \ J : x < c => x \in O \ J
      BY <3>1
    <3>. QED
      BY <1>2, <3>1, <3>2, <3>3 DEF ListenFits
  <2>3. ASSUME tq[i].op # "listen" PROVE ListenFits(new, i, st, kk, Q, J)
    BY <1>2, <2>3 DEF ListenFits
  <2>. QED
    BY <2>1, <2>2, <2>3
<1>11. \A c \in J : kk[c] <= st
  BY <1>3, <1>4, <1>5
<1>12. \A i \in 1..(N + 1) : i = N + 1 \/ i \in 1..N
  BY <1>2
<1>13. TasksFit(new, mu, st, w, kk, Q, J)
  BY <1>2, <1>3, <1>6, <1>8, <1>9, <1>10, <1>11, <1>12 DEF TasksFit
<1>. QED
  BY <1>7, <1>13 DEF new, kk, t, J

\* What the tasks of listeners say is as true when fewer calls are open.
LEMMA FewerOpen ==
    ASSUME NEW tq, NEW i, NEW st, NEW k, NEW O, NEW Q, NEW J,
           Q \subseteq O, O \ Q \subseteq J, tq[i].op = "listen" => tq[i].number \notin J,
           ListenFits(tq, i, st, k, O, J)
    PROVE  ListenFits(tq, i, st, k, Q, J)
  BY DEF ListenFits

\* setData() or delete(): write w + 1 is on its way.
LEMMA TaskWrite ==
    ASSUME NEW tq \in Seq(Task), NEW mu, NEW st \in Nat, NEW w \in Nat, NEW n \in Nat, NEW O,
           NEW k, TasksFit(tq, mu, st, w, k, O, JoinedOf(n, tq))
    PROVE  /\ JoinedOf(n, Append(tq, WriteTask(w + 1))) = JoinedOf(n, tq)
           /\ TasksFit(Append(tq, WriteTask(w + 1)), mu, st, w + 1, k, O, JoinedOf(n, tq))
<1>. DEFINE t == WriteTask(w + 1)  new == Append(tq, t)  N == Len(tq)  J == JoinedOf(n, tq)
<1>1. t \in Task /\ t.op = "write" /\ t.number = w + 1 /\ \A c : t # ListenTask(c)
  BY TaskNames
<1>. HIDE DEF t
<1>2. /\ N \in Nat /\ DOMAIN tq = 1..N /\ DOMAIN new = 1..(N + 1)
      /\ \A i \in 1..N : new[i] = tq[i]
      /\ new[N + 1] = t /\ Range(new) = Range(tq) \cup {t}
      /\ \A x : \A i \in 1..N : Before(tq, x, i) => Before(new, x, i)
      /\ \A x \in Range(tq) : Before(new, x, N + 1)
      /\ t \notin Range(tq) /\ Once(tq) => Once(new)
  BY <1>1, TaskMore
<1>3. /\ Once(tq)
      /\ \A i \in 1..N : RemoveFits(tq[i], mu) /\ WriteFits(tq, i, st, w) /\ ListenFits(tq, i, st, k, O, J)
      /\ st <= w
      /\ \A m \in (st + 1)..w : WriteTask(m) \in Range(tq)
      /\ \A c \in J : k[c] <= st
  BY <1>2 DEF TasksFit
<1>. HIDE DEF new, N
<1>4. JoinedOf(n, new) = J
  BY <1>1, <1>2 DEF JoinedOf
<1>. HIDE DEF J
<1>5. t \notin Range(tq)
  <2>1. SUFFICES ASSUME t \in Range(tq) PROVE FALSE
    OBVIOUS
  <2>2. PICK i \in 1..N : tq[i] = t
    BY <1>2, <2>1 DEF Range
  <2>3. w + 1 \in (st + 1)..w
    BY <1>1, <1>3, <2>2 DEF WriteFits
  <2>. QED
    BY <2>3
<1>6. RemoveFits(t, mu) /\ ListenFits(new, N + 1, st, k, O, J)
  BY <1>1, <1>2 DEF RemoveFits, ListenFits
<1>7. WriteFits(new, N + 1, st, w + 1)
  <2>1. w + 1 \in (st + 1)..(w + 1)
    BY <1>3
  <2>2. \A m \in (st + 1)..((w + 1) - 1) : Before(new, WriteTask(m), N + 1)
    BY <1>2, <1>3
  <2>. QED
    BY <1>1, <1>2, <2>1, <2>2 DEF WriteFits
<1>8. \A i \in 1..N : /\ RemoveFits(new[i], mu)
                      /\ WriteFits(new, i, st, w + 1) /\ ListenFits(new, i, st, k, O, J)
  <2>. TAKE i \in 1..N
  <2>1. RemoveFits(new[i], mu) /\ ListenFits(new, i, st, k, O, J)
    BY <1>2, <1>3 DEF RemoveFits, ListenFits
  <2>2. (st + 1)..w \subseteq (st + 1)..(w + 1)
    OBVIOUS
  <2>3. WriteFits(new, i, st, w + 1)
    BY <1>2, <1>3, <2>2 DEF WriteFits
  <2>. QED
    BY <2>1, <2>3
<1>9. \A m \in (st + 1)..(w + 1) : WriteTask(m) \in Range(new)
  <2>1. \A m \in (st + 1)..(w + 1) : m = w + 1 \/ m \in (st + 1)..w
    OBVIOUS
  <2>. QED
    BY <1>2, <1>3, <2>1 DEF t
<1>10. \A i \in 1..(N + 1) : i = N + 1 \/ i \in 1..N
  BY <1>2
<1>11. st <= w + 1
  BY <1>3
<1>12. TasksFit(new, mu, st, w + 1, k, O, J)
  BY <1>2, <1>3, <1>5, <1>6, <1>7, <1>8, <1>9, <1>10, <1>11 DEF TasksFit
<1>. QED
  BY <1>4, <1>12 DEF new, t, J

\* The completion of call c, the oldest open one, asks to remove its listener.
LEMMA TaskRemove ==
    ASSUME NEW tq \in Seq(Task), NEW mu, NEW st \in Nat, NEW w \in Nat, NEW n \in Nat, NEW O,
           NEW k, NEW c \in Nat, c \notin mu, c \in JoinedOf(n, tq),
           TasksFit(tq, mu, st, w, k, O, JoinedOf(n, tq))
    PROVE  /\ JoinedOf(n, Append(tq, RemoveTask(c))) = JoinedOf(n, tq)
           /\ TasksFit(Append(tq, RemoveTask(c)), mu \cup {c}, st, w, k, O \ {c},
                       JoinedOf(n, tq))
           /\ TasksFit(tq, mu, st, w, k, O \ {c}, JoinedOf(n, tq))
<1>. DEFINE t == RemoveTask(c)  new == Append(tq, t)  N == Len(tq)  J == JoinedOf(n, tq)
            Q == O \ {c}
<1>1. t \in Task /\ t.op = "remove" /\ t.number = c /\ \A x : t # ListenTask(x)
  BY TaskNames
<1>. HIDE DEF t
<1>2. /\ N \in Nat /\ DOMAIN tq = 1..N /\ DOMAIN new = 1..(N + 1)
      /\ \A i \in 1..N : new[i] = tq[i]
      /\ new[N + 1] = t /\ Range(new) = Range(tq) \cup {t}
      /\ \A x : \A i \in 1..N : Before(tq, x, i) => Before(new, x, i)
      /\ \A x \in Range(tq) : Before(new, x, N + 1)
      /\ t \notin Range(tq) /\ Once(tq) => Once(new)
  BY <1>1, TaskMore
<1>3. /\ Once(tq)
      /\ \A i \in 1..N : RemoveFits(tq[i], mu) /\ WriteFits(tq, i, st, w) /\ ListenFits(tq, i, st, k, O, J)
      /\ st <= w
      /\ \A m \in (st + 1)..w : WriteTask(m) \in Range(tq)
      /\ \A x \in J : k[x] <= st
  BY <1>2 DEF TasksFit
<1>. HIDE DEF new, N
<1>4. JoinedOf(n, new) = J
  BY <1>1, <1>2 DEF JoinedOf
<1>5. \A i \in 1..N : tq[i].op = "listen" => tq[i].number \notin J
  <2>1. \A i \in 1..N : tq[i] \in Task /\ tq[i] \in Range(tq)
    BY <1>2 DEF Range, N
  <2>. QED
    BY <2>1, TaskNames DEF JoinedOf
<1>. HIDE DEF J
<1>6. \A i \in 1..N : ListenFits(tq, i, st, k, Q, J)
  <2>1. Q \subseteq O /\ O \ Q \subseteq J
    BY DEF J
  <2>. HIDE DEF Q
  <2>2. TAKE i \in 1..N
  <2>. QED
    BY <1>3, <1>5, <2>1, FewerOpen
<1>7. TasksFit(tq, mu, st, w, k, Q, J)
  BY <1>2, <1>3, <1>6 DEF TasksFit
<1>. HIDE DEF Q
<1>8. t \notin Range(tq)
  BY <1>1, <1>2, <1>3 DEF Range, RemoveFits
<1>9. /\ RemoveFits(t, mu \cup {c})
      /\ ListenFits(new, N + 1, st, k, Q, J)
      /\ WriteFits(new, N + 1, st, w)
  BY <1>1, <1>2 DEF RemoveFits, ListenFits, WriteFits
<1>10. \A i \in 1..N : /\ RemoveFits(new[i], mu \cup {c})
                       /\ WriteFits(new, i, st, w) /\ ListenFits(new, i, st, k, Q, J)
  BY <1>2, <1>3, <1>6 DEF RemoveFits, ListenFits, WriteFits
<1>11. \A i \in 1..(N + 1) : i = N + 1 \/ i \in 1..N
  BY <1>2
<1>12. TasksFit(new, mu \cup {c}, st, w, k, Q, J)
  BY <1>2, <1>3, <1>8, <1>9, <1>10, <1>11 DEF TasksFit
<1>. QED
  BY <1>4, <1>7, <1>12 DEF new, t, J, Q

\* The worker queue has come to call c.
LEMMA TaskListened ==
    ASSUME NEW tq \in Seq(Task), NEW mu, NEW st \in Nat, NEW w \in Nat, NEW n \in Nat, NEW d \in Nat,
           NEW k, NEW c, tq # <<>>, Head(tq) = ListenTask(c), \A x \in 1..n : k[x] \in Nat,
           TasksFit(tq, mu, st, w, k, (d + 1)..n, JoinedOf(n, tq))
    PROVE  /\ JoinedOf(n, Tail(tq)) = JoinedOf(n, tq) \cup {c}
           /\ c \in (d + 1)..n /\ c \notin JoinedOf(n, tq)
           /\ \A x \in JoinedOf(n, tq) : x < c
           /\ \A x \in (d + 1)..n : x < c => x \in JoinedOf(n, tq)
           /\ TasksFit(Tail(tq), mu, st, w, k, (d + 1)..n, JoinedOf(n, tq) \cup {c})
<1>. DEFINE h == Head(tq)  rest == Tail(tq)  N == Len(tq)  J == JoinedOf(n, tq)  O == (d + 1)..n
<1>1. h.op = "listen" /\ h.number = c
  BY TaskNames
<1>2. /\ N \in Nat /\ N >= 1 /\ h = tq[1]
      /\ DOMAIN tq = 1..N /\ DOMAIN rest = 1..(N - 1)
      /\ \A i \in 1..(N - 1) : rest[i] = tq[i + 1] /\ i + 1 \in 1..N
      /\ Range(tq) = Range(rest) \cup {h}
      /\ \A x : ~Before(tq, x, 1)
      /\ \A x : \A i \in 1..(N - 1) : x # h /\ Before(tq, x, i + 1) => Before(rest, x, i)
      /\ Once(tq) => /\ Once(rest) /\ h \notin Range(rest)
                     /\ \A i \in 1..(N - 1) : rest[i] # h
  BY TaskLess
<1>3. /\ Once(tq)
      /\ \A i \in 1..N : RemoveFits(tq[i], mu) /\ WriteFits(tq, i, st, w) /\ ListenFits(tq, i, st, k, O, J)
      /\ st <= w
      /\ \A m \in (st + 1)..w : WriteTask(m) \in Range(tq)
      /\ \A x \in J : k[x] <= st
  BY <1>2 DEF TasksFit
<1>t. \A i \in 1..N : tq[i] \in Task
  BY <1>2
<1>. HIDE DEF rest, N
<1>4. 1 \in 1..N
  BY <1>2
<1>5. /\ c \in O
      /\ \A m \in (st + 1)..k[c] : FALSE
      /\ \A x \in O \ J : ~(x < c)
      /\ \A x \in J : x < c
  BY <1>1, <1>2, <1>3, <1>4 DEF ListenFits
<1>6. c \in Nat /\ c \in 1..n /\ k[c] \in Nat /\ k[c] <= st
  BY <1>5
<1>7. c \notin J /\ JoinedOf(n, rest) = J \cup {c}
  <2>1. \A x : x # c => ListenTask(x) # h
    BY TaskNames
  <2>2. ListenTask(c) \notin Range(rest) /\ ListenTask(c) \in Range(tq)
    BY <1>2, <1>3
  <2>. QED
    BY <1>2, <1>6, <2>1, <2>2 DEF JoinedOf
<1>8. \A i \in 1..N : tq[i].op = "listen" => tq[i].number \notin J /\ tq[i] = ListenTask(tq[i].number)
  <2>1. \A i \in 1..N : tq[i] \in Task /\ tq[i] \in Range(tq)
    BY <1>t, <1>2 DEF Range
  <2>. QED
    BY <2>1, TaskNames DEF JoinedOf
<1>x. \A m : WriteTask(m) # h
  BY TaskNames
<1>y. J \subseteq Nat
  BY DEF JoinedOf
<1>. HIDE DEF J, h
<1>9. \A i \in 1..(N - 1) : RemoveFits(rest[i], mu) /\ WriteFits(rest, i, st, w)
  <2>. TAKE i \in 1..(N - 1)
  <2>1. RemoveFits(rest[i], mu)
    BY <1>2, <1>3 DEF RemoveFits
  <2>2. WriteFits(tq, i + 1, st, w) /\ rest[i] = tq[i + 1]
    BY <1>2, <1>3
  <2>3. WriteFits(rest, i, st, w)
    BY <1>2, <1>x, <2>2 DEF WriteFits
  <2>. QED
    BY <2>1, <2>3
<1>10. \A i \in 1..(N - 1) : ListenFits(rest, i, st, k, O, J \cup {c})
  <2>. TAKE i \in 1..(N - 1)
  <2>. DEFINE e == rest[i].number
  <2>1. SUFFICES ASSUME rest[i].op = "listen" PROVE ListenFits(rest, i, st, k, O, J \cup {c})
    BY DEF ListenFits
  <2>2. rest[i] = tq[i + 1] /\ i + 1 \in 1..N /\ rest[i] # h
    BY <1>2, <1>3
  <2>3. /\ e \in O
        /\ \A m \in (st + 1)..k[e] : Before(tq, WriteTask(m), i + 1)
        /\ \A x \in O \ J : x < e => Before(tq, ListenTask(x), i + 1)
        /\ \A x \in J : x < e
    BY <1>3, <2>1, <2>2 DEF ListenFits
  <2>4. e \notin J /\ e # c
    BY <1>8, <2>1, <2>2 DEF h
  <2>5. c < e
    BY <1>5, <1>6, <2>3, <2>4
  <2>6. \A x : x # c => ListenTask(x) # h
    BY TaskNames DEF h
  <2>7. \A m \in (st + 1)..k[e] : Before(rest, WriteTask(m), i)
    BY <1>2, <1>x, <2>3
  <2>8. \A x \in O \ (J \cup {c}) : x < e => Before(rest, ListenTask(x), i)
    BY <1>2, <2>3, <2>6
  <2>9. \A x \in J \cup {c} : x < e
    BY <2>3, <2>5
  <2>. QED
    BY <2>3, <2>7, <2>8, <2>9 DEF ListenFits
<1>11. \A m \in (st + 1)..w : WriteTask(m) \in Range(rest)
  BY <1>2, <1>3, <1>x
<1>12. \A x \in J \cup {c} : k[x] <= st
  BY <1>3, <1>6
<1>13. TasksFit(rest, mu, st, w, k, O, J \cup {c})
  BY <1>2, <1>3, <1>9, <1>10, <1>11, <1>12 DEF TasksFit
<1>14. \A x \in O : x < c => x \in J
  BY <1>5
<1>. QED
  BY <1>5, <1>7, <1>13, <1>14 DEF rest, J

\* A listener that is to be removed is that of a completed call.
LEMMA TaskRemoved ==
    ASSUME NEW tq \in Seq(Task), NEW mu, NEW st \in Nat, NEW w \in Nat, NEW n \in Nat, NEW O,
           NEW k, NEW c, tq # <<>>, Head(tq) = RemoveTask(c),
           TasksFit(tq, mu, st, w, k, O, JoinedOf(n, tq))
    PROVE  /\ JoinedOf(n, Tail(tq)) = JoinedOf(n, tq)
           /\ c \in mu
           /\ TasksFit(Tail(tq), mu, st, w, k, O, JoinedOf(n, tq))
<1>. DEFINE h == Head(tq)  rest == Tail(tq)  N == Len(tq)  J == JoinedOf(n, tq)
<1>1. h.op = "remove" /\ h.number = c /\ \A x : ListenTask(x) # h /\ WriteTask(x) # h
  BY TaskNames
<1>2. /\ N \in Nat /\ N >= 1 /\ h = tq[1]
      /\ DOMAIN tq = 1..N /\ DOMAIN rest = 1..(N - 1)
      /\ \A i \in 1..(N - 1) : rest[i] = tq[i + 1] /\ i + 1 \in 1..N
      /\ Range(tq) = Range(rest) \cup {h}
      /\ \A x : \A i \in 1..(N - 1) : x # h /\ Before(tq, x, i + 1) => Before(rest, x, i)
      /\ Once(tq) => Once(rest)
  BY TaskLess
<1>3. /\ Once(tq)
      /\ \A i \in 1..N : RemoveFits(tq[i], mu) /\ WriteFits(tq, i, st, w) /\ ListenFits(tq, i, st, k, O, J)
      /\ st <= w
      /\ \A m \in (st + 1)..w : WriteTask(m) \in Range(tq)
      /\ \A x \in J : k[x] <= st
  BY <1>2 DEF TasksFit
<1>. HIDE DEF rest, N
<1>4. 1 \in 1..N
  BY <1>2
<1>5. c \in mu
  BY <1>1, <1>2, <1>3, <1>4 DEF RemoveFits
<1>6. JoinedOf(n, rest) = J
  BY <1>1, <1>2 DEF JoinedOf
<1>. HIDE DEF J, h
<1>7. \A i \in 1..(N - 1) : /\ RemoveFits(rest[i], mu)
                            /\ WriteFits(rest, i, st, w) /\ ListenFits(rest, i, st, k, O, J)
  <2>. TAKE i \in 1..(N - 1)
  <2>1. /\ RemoveFits(rest[i], mu) /\ rest[i] = tq[i + 1]
        /\ WriteFits(tq, i + 1, st, w) /\ ListenFits(tq, i + 1, st, k, O, J)
    BY <1>2, <1>3
  <2>2. WriteFits(rest, i, st, w)
    BY <1>1, <1>2, <2>1 DEF WriteFits
  <2>3. ListenFits(rest, i, st, k, O, J)
    BY <1>1, <1>2, <2>1 DEF ListenFits
  <2>. QED
    BY <2>1, <2>2, <2>3
<1>8. \A m \in (st + 1)..w : WriteTask(m) \in Range(rest)
  BY <1>1, <1>2, <1>3
<1>9. TasksFit(rest, mu, st, w, k, O, J)
  BY <1>2, <1>3, <1>7, <1>8 DEF TasksFit
<1>. QED
  BY <1>5, <1>6, <1>9 DEF rest, J

\* The write the worker queue has come to is the next.
LEMMA TaskWritten ==
    ASSUME NEW tq \in Seq(Task), NEW mu, NEW st \in Nat, NEW w \in Nat, NEW n \in Nat, NEW O,
           NEW k, NEW c, tq # <<>>, Head(tq) = WriteTask(c),
           \A x \in JoinedOf(n, tq) : k[x] \in Nat,
           TasksFit(tq, mu, st, w, k, O, JoinedOf(n, tq))
    PROVE  /\ JoinedOf(n, Tail(tq)) = JoinedOf(n, tq)
           /\ c = st + 1 /\ st + 1 <= w
           /\ TasksFit(Tail(tq), mu, st + 1, w, k, O, JoinedOf(n, tq))
<1>. DEFINE h == Head(tq)  rest == Tail(tq)  N == Len(tq)  J == JoinedOf(n, tq)  s == st + 1
<1>1. h.op = "write" /\ h.number = c /\ \A x : ListenTask(x) # h /\ RemoveTask(x) # h
  BY TaskNames
<1>2. /\ N \in Nat /\ N >= 1 /\ h = tq[1]
      /\ DOMAIN tq = 1..N /\ DOMAIN rest = 1..(N - 1)
      /\ \A i \in 1..(N - 1) : rest[i] = tq[i + 1] /\ i + 1 \in 1..N
      /\ Range(tq) = Range(rest) \cup {h}
      /\ \A x : ~Before(tq, x, 1)
      /\ \A x : \A i \in 1..(N - 1) : x # h /\ Before(tq, x, i + 1) => Before(rest, x, i)
      /\ Once(tq) => Once(rest) /\ \A i \in 1..(N - 1) : rest[i] # h
  BY TaskLess
<1>3. /\ Once(tq)
      /\ \A i \in 1..N : RemoveFits(tq[i], mu) /\ WriteFits(tq, i, st, w) /\ ListenFits(tq, i, st, k, O, J)
      /\ st <= w
      /\ \A m \in (st + 1)..w : WriteTask(m) \in Range(tq)
      /\ \A x \in J : k[x] <= st
  BY <1>2 DEF TasksFit
<1>t. \A i \in 1..N : tq[i] \in Task
  BY <1>2
<1>. HIDE DEF rest, N
<1>4. 1 \in 1..N
  BY <1>2
<1>5. c \in (st + 1)..w /\ \A m \in (st + 1)..(c - 1) : FALSE
  BY <1>1, <1>2, <1>3, <1>4 DEF WriteFits
<1>6. c = s /\ s <= w
  BY <1>5
<1>7. JoinedOf(n, rest) = J
  BY <1>1, <1>2 DEF JoinedOf
<1>8. \A m : m # s => WriteTask(m) # h
  BY <1>6, TaskNames
<1>. HIDE DEF J
<1>9. \A m \in (s + 1)..w : m # s /\ m \in (st + 1)..w
  OBVIOUS
<1>10. \A i \in 1..(N - 1) : /\ RemoveFits(rest[i], mu)
                             /\ WriteFits(rest, i, s, w) /\ ListenFits(rest, i, s, k, O, J)
  <2>. TAKE i \in 1..(N - 1)
  <2>1. /\ RemoveFits(rest[i], mu) /\ rest[i] = tq[i + 1] /\ rest[i] # h /\ i + 1 \in 1..N
        /\ WriteFits(tq, i + 1, st, w) /\ ListenFits(tq, i + 1, st, k, O, J)
    BY <1>2, <1>3
  <2>2. WriteFits(rest, i, s, w)
    <3>1. SUFFICES ASSUME rest[i].op = "write" PROVE WriteFits(rest, i, s, w)
      BY DEF WriteFits
    <3>. DEFINE e == rest[i].number
    <3>2. /\ e \in (st + 1)..w
          /\ \A m \in (st + 1)..(e - 1) : Before(tq, WriteTask(m), i + 1)
      BY <2>1, <3>1 DEF WriteFits
    <3>3. rest[i] = WriteTask(e)
      BY <1>t, <2>1, <3>1, TaskNames
    <3>4. e # s
      BY <1>6, <2>1, <3>3
    <3>. HIDE DEF e
    <3>5. e \in (s + 1)..w
      BY <3>2, <3>4
    <3>6. \A m \in (s + 1)..(e - 1) : m # s /\ m \in (st + 1)..(e - 1)
      OBVIOUS
    <3>7. \A m \in (s + 1)..(e - 1) : Before(rest, WriteTask(m), i)
      BY <1>2, <1>8, <3>2, <3>6
    <3>. QED
      BY <3>5, <3>7 DEF WriteFits, e
  <2>3. ListenFits(rest, i, s, k, O, J)
    <3>1. SUFFICES ASSUME rest[i].op = "listen" PROVE ListenFits(rest, i, s, k, O, J)
      BY DEF ListenFits
    <3>. DEFINE e == rest[i].number
    <3>2. /\ e \in O
          /\ \A m \in (st + 1)..k[e] : Before(tq, WriteTask(m), i + 1)
          /\ \A x \in O \ J : x < e => Before(tq, ListenTask(x), i + 1)
          /\ \A x \in J : x < e
      BY <2>1, <3>1 DEF ListenFits
    <3>. HIDE DEF e
    <3>3. \A m \in (s + 1)..k[e] : m # s /\ m \in (st + 1)..k[e]
      OBVIOUS
    <3>4. \A m \in (s + 1)..k[e] : Before(rest, WriteTask(m), i)
      BY <1>2, <1>8, <3>2, <3>3
    <3>5. \A x \in O \ J : x < e => Before(rest, ListenTask(x), i)
      BY <1>1, <1>2, <3>2
    <3>. QED
      BY <3>2, <3>4, <3>5 DEF ListenFits, e
  <2>. QED
    BY <2>1, <2>2, <2>3
<1>11. \A m \in (s + 1)..w : WriteTask(m) \in Range(rest)
  BY <1>2, <1>3, <1>8, <1>9
<1>12. \A x \in J : k[x] <= s
  BY <1>3 DEF J
<1>13. TasksFit(rest, mu, s, w, k, O, J)
  BY <1>2, <1>3, <1>6, <1>10, <1>11, <1>12 DEF TasksFit
<1>. QED
  BY <1>6, <1>7, <1>13 DEF rest, J

-----------------------------------------------------------------------------
(***************************************************************************)
(* Listeners and events.                                                   *)
(***************************************************************************)

\* The events of a Post to the listeners cs.
Posted(cs, type, n) == [i \in DOMAIN cs |-> [call |-> cs[i], type |-> type, shows |-> n]]

\* F is E with such posts behind.
Extended(F, E, cs, type, n) ==
    /\ F \in Seq(Event)
    /\ Len(E) \in Nat /\ Len(cs) \in Nat /\ Len(F) = Len(E) + Len(cs)
    /\ DOMAIN E = 1..Len(E) /\ DOMAIN cs = 1..Len(cs) /\ DOMAIN F = 1..(Len(E) + Len(cs))
    /\ \A i \in 1..Len(E) : F[i] = E[i]
    /\ \A i \in 1..Len(cs) : /\ F[Len(E) + i].call = cs[i] /\ cs[i] \in Range(cs)
                             /\ F[Len(E) + i].type = type /\ F[Len(E) + i].shows = n
    /\ \A j \in DOMAIN F : j \in 1..Len(E) \/ \E i \in 1..Len(cs) : j = Len(E) + i
    /\ AnsweredOf(F) = AnsweredOf(E) \cup Range(cs)

\* The posts come behind the events there are.
LEMMA EventMore ==
    ASSUME NEW E \in Seq(Event), NEW cs \in Seq(Calls), NEW type \in {"snapshot", "error"},
           NEW n \in Nat, NEW F, F = E \o Posted(cs, type, n)
    PROVE  Extended(F, E, cs, type, n)
<1>. DEFINE P == Posted(cs, type, n)
<1>1. Len(cs) \in Nat /\ DOMAIN cs = 1..Len(cs) /\ \A i \in 1..Len(cs) : cs[i] \in Calls
  OBVIOUS
<1>2. P = [i \in 1..Len(cs) |-> [call |-> cs[i], type |-> type, shows |-> n]]
  BY <1>1 DEF Posted
<1>3. \A i \in 1..Len(cs) : [call |-> cs[i], type |-> type, shows |-> n] \in Event
  BY <1>1 DEF Event
<1>4. P \in Seq(Event) /\ Len(P) = Len(cs)
  BY <1>1, <1>2, <1>3
<1>f. F = E \o P
  OBVIOUS
<1>p. \A i \in 1..Len(cs) : P[i].call = cs[i] /\ P[i].type = type /\ P[i].shows = n
  <2>1. TAKE i \in 1..Len(cs)
  <2>2. P[i] = [call |-> cs[i], type |-> type, shows |-> n]
    BY <1>2
  <2>. QED
    BY <2>2
<1>. HIDE DEF P
<1>5. /\ F \in Seq(Event)
      /\ Len(E) \in Nat /\ Len(F) = Len(E) + Len(cs)
      /\ DOMAIN E = 1..Len(E) /\ DOMAIN F = 1..(Len(E) + Len(cs))
      /\ \A i \in 1..Len(E) : F[i] = E[i]
      /\ \A i \in 1..Len(cs) : F[Len(E) + i] = P[i] /\ Len(E) + i \in 1..(Len(E) + Len(cs))
  <2>1. Len(E) \in Nat /\ DOMAIN E = 1..Len(E)
    OBVIOUS
  <2>2. /\ F \in Seq(Event) /\ Len(F) = Len(E) + Len(cs)
        /\ \A i \in 1..(Len(E) + Len(cs)) : F[i] = IF i <= Len(E) THEN E[i] ELSE P[i - Len(E)]
    <3>1. /\ E \o P \in Seq(Event) /\ Len(E \o P) = Len(E) + Len(P)
          /\ \A i \in 1..(Len(E) + Len(P)) :
                 (E \o P)[i] = IF i <= Len(E) THEN E[i] ELSE P[i - Len(E)]
      BY <1>4, ConcatProperties
    <3>. QED
      BY <1>4, <1>f, <3>1
  <2>. DEFINE a == Len(E)  b == Len(cs)
  <2>. HIDE DEF a, b
  <2>3. a \in Nat /\ b \in Nat /\ \A i \in 1..(a + b) : F[i] = IF i <= a THEN E[i] ELSE P[i - a]
    BY <1>1, <2>1, <2>2 DEF a, b
  <2>4. \A i \in 1..a : i <= a /\ i \in 1..(a + b)
    BY <2>3
  <2>5. \A i \in 1..b : ~(a + i <= a) /\ a + i \in 1..(a + b) /\ (a + i) - a = i
    BY <2>3
  <2>6. (\A i \in 1..a : F[i] = E[i]) /\ (\A i \in 1..b : F[a + i] = P[i] /\ a + i \in 1..(a + b))
    BY <2>3, <2>4, <2>5
  <2>7. DOMAIN F = 1..Len(F)
    BY <2>2
  <2>. QED
    BY <2>1, <2>2, <2>6, <2>7 DEF a, b
<1>6. \A i \in 1..Len(cs) : /\ F[Len(E) + i].call = cs[i]
                            /\ F[Len(E) + i].type = type /\ F[Len(E) + i].shows = n
  BY <1>5, <1>p
<1>. DEFINE N == Len(E)  M == Len(cs)
<1>. HIDE DEF N, M
<1>7. \A j \in 1..(N + M) : j \in 1..N \/ (j - N \in 1..M /\ j = N + (j - N))
  BY <1>1, <1>5 DEF N, M
<1>8. \A j \in 1..(N + M) : j \in 1..N \/ \E i \in 1..M : j = N + i
  BY <1>7
<1>9. 1..N \subseteq 1..(N + M)
  BY <1>1, <1>5 DEF N, M
<1>10. AnsweredOf(F) = AnsweredOf(E) \cup Range(cs)
  <2>1. AnsweredOf(F) \subseteq AnsweredOf(E) \cup Range(cs)
    <3>1. SUFFICES ASSUME NEW c \in AnsweredOf(F) PROVE c \in AnsweredOf(E) \cup Range(cs)
      OBVIOUS
    <3>2. PICK j \in 1..(N + M) : c = F[j].call
      BY <1>5 DEF AnsweredOf, N, M
    <3>3. CASE j \in 1..N
      BY <1>5, <3>2, <3>3 DEF AnsweredOf, N
    <3>4. CASE \E i \in 1..M : j = N + i
      <4>1. PICK i \in 1..M : j = N + i
        BY <3>4
      <4>2. c = cs[i]
        BY <1>6, <3>2, <4>1 DEF N, M
      <4>. QED
        BY <1>1, <4>2 DEF Range, M
    <3>. QED
      BY <1>8, <3>3, <3>4
  <2>2. AnsweredOf(E) \subseteq AnsweredOf(F)
    BY <1>5, <1>9 DEF AnsweredOf, N, M
  <2>3. Range(cs) \subseteq AnsweredOf(F)
    <3>1. SUFFICES ASSUME NEW c \in Range(cs) PROVE c \in AnsweredOf(F)
      OBVIOUS
    <3>2. PICK i \in 1..M : c = cs[i]
      BY <1>1 DEF Range, M
    <3>3. F[N + i].call = c /\ N + i \in DOMAIN F
      BY <1>5, <1>6, <3>2 DEF N, M
    <3>. QED
      BY <3>3 DEF AnsweredOf
  <2>. QED
    BY <2>1, <2>2, <2>3
<1>11. \A i \in 1..Len(cs) : cs[i] \in Range(cs)
  BY <1>1 DEF Range
<1>. QED
  BY <1>1, <1>5, <1>6, <1>8, <1>10, <1>11 DEF Extended, N, M

\* An event less.
LEMMA EventLess ==
    ASSUME NEW E \in Seq(Event), E # <<>>
    PROVE  /\ Tail(E) \in Seq(Event) /\ Head(E) \in Event /\ Head(E) = E[1]
           /\ Len(E) \in Nat /\ Len(E) >= 1
           /\ DOMAIN E = 1..Len(E) /\ DOMAIN Tail(E) = 1..(Len(E) - 1)
           /\ \A i \in 1..(Len(E) - 1) : Tail(E)[i] = E[i + 1] /\ i + 1 \in 1..Len(E)
           /\ \A j \in 1..Len(E) :
                  j = 1 \/ (j - 1 \in 1..(Len(E) - 1) /\ Tail(E)[j - 1] = E[j])
           /\ AnsweredOf(E) = AnsweredOf(Tail(E)) \cup {Head(E).call}
<1>1. /\ Tail(E) \in Seq(Event) /\ Head(E) \in Event /\ Head(E) = E[1]
      /\ Len(E) \in Nat /\ Len(E) >= 1
      /\ DOMAIN E = 1..Len(E) /\ DOMAIN Tail(E) = 1..(Len(E) - 1)
      /\ \A i \in 1..(Len(E) - 1) : Tail(E)[i] = E[i + 1] /\ i + 1 \in 1..Len(E)
  OBVIOUS
<1>. DEFINE N == Len(E)  T == Tail(E)  h == Head(E)
<1>. HIDE DEF N, T, h
<1>2. /\ h = E[1] /\ N \in Nat /\ N >= 1
      /\ DOMAIN E = 1..N /\ DOMAIN T = 1..(N - 1)
      /\ \A i \in 1..(N - 1) : T[i] = E[i + 1] /\ i + 1 \in 1..N
  BY <1>1 DEF N, T, h
<1>3. \A j \in 1..N : j = 1 \/ (j - 1 \in 1..(N - 1) /\ T[j - 1] = E[j])
  BY <1>2
<1>4. AnsweredOf(E) \subseteq AnsweredOf(T) \cup {h.call}
  <2>1. SUFFICES ASSUME NEW c \in AnsweredOf(E) PROVE c \in AnsweredOf(T) \cup {h.call}
    OBVIOUS
  <2>2. PICK j \in 1..N : c = E[j].call
    BY <1>2 DEF AnsweredOf
  <2>3. CASE j = 1
    BY <1>2, <2>2, <2>3
  <2>4. CASE j # 1
    <3>1. j - 1 \in DOMAIN T /\ T[j - 1].call = c
      BY <1>2, <1>3, <2>2, <2>4
    <3>. QED
      BY <3>1 DEF AnsweredOf
  <2>. QED
    BY <2>3, <2>4
<1>5. AnsweredOf(T) \subseteq AnsweredOf(E) /\ h.call \in AnsweredOf(E)
  BY <1>2 DEF AnsweredOf
<1>. QED
  BY <1>1, <1>3, <1>4, <1>5 DEF N, T, h

\* Each open call has its first event after those of older ones, when the posts go to
\* all who wait, or to none.
LEMMA FirstsPosted ==
    ASSUME NEW E, NEW cs, NEW type, NEW n, NEW F, Extended(F, E, cs, type, n),
           NEW O \in SUBSET Nat, NEW J \in SUBSET Nat, NEW S, NEW R, NEW A,
           A = AnsweredOf(E), ListenersFit(S, R, O, J, A), FirstsInOrder(E, O),
           Rising(cs), Range(cs) \subseteq S,
           S \ R \subseteq Range(cs) \/ (S \ R) \cap Range(cs) = {},
           \A c \in O : \A x \in J : c < x => x \in O,
           \A c \in O \ J : \A x \in J : x < c
    PROVE  FirstsInOrder(F, O)
<1>. DEFINE a == Len(E)  b == Len(cs)  W == S \ R
<1>1. /\ a \in Nat /\ b \in Nat
      /\ DOMAIN E = 1..a /\ DOMAIN cs = 1..b /\ DOMAIN F = 1..(a + b)
      /\ \A i \in 1..a : F[i] = E[i]
      /\ \A i \in 1..b : F[a + i].call = cs[i] /\ cs[i] \in Range(cs)
      /\ \A j \in DOMAIN F : j \in 1..a \/ \E i \in 1..b : j = a + i
  BY DEF Extended
<1>. HIDE DEF a, b
<1>o. \A j \in 1..a : \A c \in O : c < E[j].call => \E i \in 1..a : i < j /\ E[i].call = c
  BY <1>1 DEF FirstsInOrder
<1>n. \A i \in 1..a : i \in 1..(a + b)
  BY <1>1
<1>2. /\ R \subseteq S /\ S \subseteq J /\ W \subseteq O \ A /\ O \cap J \subseteq W \cup A
  BY DEF ListenersFit
<1>3. \A c \in A : \E i \in 1..a : E[i].call = c
  BY <1>1 DEF AnsweredOf
<1>. HIDE DEF W
<1>4. ASSUME NEW j \in 1..a, NEW c \in O, c < F[j].call
      PROVE  \E i \in 1..(a + b) : i < j /\ F[i].call = c
  <2>1. PICK i \in 1..a : i < j /\ E[i].call = c
    BY <1>1, <1>4, <1>o
  <2>. QED
    BY <1>1, <1>n, <2>1
<1>5. ASSUME NEW m \in 1..b, NEW c \in O, c < cs[m]
      PROVE  \E i \in 1..(a + b) : i < a + m /\ F[i].call = c
  <2>1. cs[m] \in S /\ cs[m] \in J /\ cs[m] \in Nat /\ c \in Nat
    <3>1. cs[m] \in S
      BY <1>1
    <3>. QED
      BY <1>2, <3>1
  <2>2. c \in J
    <3>1. SUFFICES ASSUME c \notin J PROVE FALSE
      OBVIOUS
    <3>2. cs[m] < c
      BY <2>1, <3>1
    <3>. QED
      BY <1>5, <2>1, <3>2
  <2>3. CASE c \in A
    <3>1. PICK i \in 1..a : E[i].call = c
      BY <1>3, <2>3
    <3>2. i < a + m /\ i \in 1..(a + b) /\ F[i].call = c
      BY <1>1, <3>1
    <3>. QED
      BY <3>2
  <2>4. CASE c \in Range(cs)
    <3>1. PICK i \in 1..b : cs[i] = c
      BY <1>1, <2>4 DEF Range
    <3>2. i < m
      <4>1. i = m \/ m < i \/ i < m
        OBVIOUS
      <4>2. m < i => cs[m] < cs[i]
        BY <1>1 DEF Rising
      <4>. QED
        BY <1>5, <2>1, <3>1, <4>1, <4>2
    <3>3. a + i < a + m /\ a + i \in 1..(a + b) /\ F[a + i].call = c
      BY <1>1, <3>1, <3>2
    <3>. QED
      BY <3>3
  <2>5. CASE c \in W /\ c \notin Range(cs)
    <3>1. cs[m] \notin W
      BY <1>1, <2>5 DEF W
    <3>2. cs[m] \in O
      BY <1>5, <2>1
    <3>3. cs[m] \in A
      BY <1>2, <2>1, <3>1, <3>2
    <3>4. PICK i \in 1..a : E[i].call = cs[m]
      BY <1>3, <3>3
    <3>5. \E x \in 1..a : x < i /\ E[x].call = c
      BY <1>5, <1>o, <3>4
    <3>6. c \in A
      BY <1>1, <3>5 DEF AnsweredOf
    <3>. QED
      BY <1>2, <2>5, <3>6
  <2>. QED
    BY <1>2, <2>2, <2>3, <2>4, <2>5
<1>6. \A j \in DOMAIN F : \A c \in O : c < F[j].call => \E i \in DOMAIN F : i < j /\ F[i].call = c
  <2>1. TAKE j \in DOMAIN F
  <2>2. TAKE c \in O
  <2>3. HAVE c < F[j].call
  <2>4. CASE j \in 1..a
    <3>1. \E i \in 1..(a + b) : i < j /\ F[i].call = c
      BY <1>4, <2>3, <2>4
    <3>. QED
      BY <1>1, <3>1
  <2>5. CASE \E i \in 1..b : j = a + i
    <3>1. PICK m \in 1..b : j = a + m
      BY <2>5
    <3>2. c < cs[m]
      BY <1>1, <2>3, <3>1
    <3>3. \E i \in 1..(a + b) : i < a + m /\ F[i].call = c
      BY <1>5, <3>2
    <3>. QED
      BY <1>1, <3>1, <3>3
  <2>. QED
    BY <1>1, <2>4, <2>5
<1>. QED
  BY <1>6 DEF FirstsInOrder

\* A snapshot for the listeners cs.
LEMMA SnapshotPosted ==
    ASSUME NEW E, NEW cs, NEW st \in Nat, NEW F, Extended(F, E, cs, "snapshot", st),
           NEW O \in SUBSET Nat, NEW J \in SUBSET Nat, NEW S, NEW R,
           ListenersFit(S, R, O, J, AnsweredOf(E)), EventsFit(E, S, O, J, st),
           Rising(cs), Range(cs) \subseteq S,
           S \ R \subseteq Range(cs) \/ (S \ R) \cap Range(cs) = {},
           \A c \in O : \A x \in J : c < x => x \in O,
           \A c \in O \ J : \A x \in J : x < c
    PROVE  /\ ListenersFit(S, R \cup Range(cs), O, J, AnsweredOf(F))
           /\ EventsFit(F, S, O, J, st)
<1>. DEFINE a == Len(E)  b == Len(cs)  A == AnsweredOf(E)  B == AnsweredOf(F)
<1>1. /\ a \in Nat /\ b \in Nat
      /\ DOMAIN E = 1..a /\ DOMAIN F = 1..(a + b)
      /\ \A i \in 1..a : F[i] = E[i]
      /\ \A i \in 1..b : /\ F[a + i].call = cs[i] /\ cs[i] \in Range(cs)
                         /\ F[a + i].type = "snapshot" /\ F[a + i].shows = st
      /\ \A j \in 1..(a + b) : j \in 1..a \/ \E i \in 1..b : j = a + i
      /\ B = A \cup Range(cs)
  BY DEF Extended
<1>2. FirstsInOrder(F, O)
  BY FirstsPosted DEF EventsFit
<1>. HIDE DEF a, b, A, B
<1>3. /\ A \subseteq J /\ R \subseteq S /\ S \subseteq J /\ S \ R \subseteq O \ A
      /\ O \cap J \subseteq (S \ R) \cup A
  BY DEF ListenersFit, EventsFit, A
<1>4. ListenersFit(S, R \cup Range(cs), O, J, B)
  <2>1. O \cap J \subseteq (S \ (R \cup Range(cs))) \cup B
    BY <1>1, <1>3
  <2>2. R \cup Range(cs) \subseteq S
    BY <1>3
  <2>3. S \ (R \cup Range(cs)) \subseteq O \ B
    BY <1>1, <1>3
  <2>. QED
    BY <1>3, <2>1, <2>2, <2>3 DEF ListenersFit
<1>5. B \subseteq J
  BY <1>1, <1>3
<1>6. /\ \A i \in 1..a : E[i].type = "error" =>
            E[i].call \notin S /\ \A j \in 1..a : E[j].call = E[i].call => j <= i
      /\ \A i \in 1..a : E[i].shows <= st
  BY <1>1 DEF EventsFit, ErrorsLast, Shown
<1>7. ErrorsLast(F, S)
  <2>1. SUFFICES ASSUME NEW i \in 1..(a + b), F[i].type = "error"
                 PROVE  /\ F[i].call \notin S
                        /\ \A j \in 1..(a + b) : F[j].call = F[i].call => j <= i
    BY <1>1 DEF ErrorsLast
  <2>2. i \in 1..a
    BY <1>1, <2>1
  <2>3. F[i].call \notin S
    BY <1>1, <1>6, <2>1, <2>2
  <2>4. ASSUME NEW j \in 1..(a + b), F[j].call = F[i].call PROVE j <= i
    <3>1. CASE j \in 1..a
      BY <1>1, <1>6, <2>1, <2>2, <2>4, <3>1
    <3>2. CASE \E m \in 1..b : j = a + m
      BY <1>1, <2>3, <2>4, <3>2
    <3>. QED
      BY <1>1, <3>1, <3>2
  <2>. QED
    BY <2>3, <2>4
<1>8. Shown(F, st)
  <2>1. SUFFICES ASSUME NEW j \in 1..(a + b) PROVE F[j].shows <= st
    BY <1>1 DEF Shown
  <2>2. CASE j \in 1..a
    BY <1>1, <1>6, <2>2
  <2>3. CASE \E m \in 1..b : j = a + m
    BY <1>1, <2>3
  <2>. QED
    BY <1>1, <2>2, <2>3
<1>9. EventsFit(F, S, O, J, st)
  BY <1>2, <1>5, <1>7, <1>8 DEF EventsFit, B
<1>. QED
  BY <1>4, <1>9 DEF B

\* An error for all of them.
LEMMA ErrorPosted ==
    ASSUME NEW E, NEW cs, NEW st \in Nat, NEW F, Extended(F, E, cs, "error", st),
           NEW O \in SUBSET Nat, NEW J \in SUBSET Nat, NEW S, NEW R,
           ListenersFit(S, R, O, J, AnsweredOf(E)), EventsFit(E, S, O, J, st),
           Rising(cs), Range(cs) = S,
           \A c \in O : \A x \in J : c < x => x \in O,
           \A c \in O \ J : \A x \in J : x < c
    PROVE  /\ ListenersFit({}, {}, O, J, AnsweredOf(F))
           /\ EventsFit(F, {}, O, J, st)
<1>. DEFINE a == Len(E)  b == Len(cs)  A == AnsweredOf(E)  B == AnsweredOf(F)
<1>1. /\ a \in Nat /\ b \in Nat
      /\ DOMAIN E = 1..a /\ DOMAIN cs = 1..b /\ DOMAIN F = 1..(a + b)
      /\ \A i \in 1..a : F[i] = E[i]
      /\ \A i \in 1..b : /\ F[a + i].call = cs[i] /\ cs[i] \in Range(cs)
                         /\ F[a + i].shows = st
      /\ \A j \in 1..(a + b) : j \in 1..a \/ \E i \in 1..b : j = a + i
      /\ B = A \cup Range(cs)
  BY DEF Extended
<1>2. FirstsInOrder(F, O)
  BY FirstsPosted DEF EventsFit
<1>. HIDE DEF a, b, A, B
<1>3. /\ A \subseteq J /\ R \subseteq S /\ S \subseteq J
      /\ O \cap J \subseteq (S \ R) \cup A
  BY DEF ListenersFit, EventsFit, A
<1>4. B \subseteq J /\ ListenersFit({}, {}, O, J, B)
  BY <1>1, <1>3 DEF ListenersFit
<1>6. /\ \A i \in 1..a : E[i].type = "error" =>
            E[i].call \notin S /\ \A j \in 1..a : E[j].call = E[i].call => j <= i
      /\ \A i \in 1..a : E[i].shows <= st
  BY <1>1 DEF EventsFit, ErrorsLast, Shown
<1>7. ErrorsLast(F, {})
  <2>1. SUFFICES ASSUME NEW i \in 1..(a + b), F[i].type = "error",
                        NEW j \in 1..(a + b), F[j].call = F[i].call
                 PROVE  j <= i
    BY <1>1 DEF ErrorsLast
  <2>2. CASE i \in 1..a
    <3>1. F[i] = E[i] /\ E[i].type = "error"
      BY <1>1, <2>1, <2>2
    <3>2. F[i].call \notin S
      BY <1>6, <2>2, <3>1
    <3>3. j \in 1..a
      <4>1. SUFFICES ASSUME NEW m \in 1..b, j = a + m PROVE FALSE
        BY <1>1
      <4>2. F[j].call \in Range(cs)
        BY <1>1, <4>1
      <4>. QED
        BY <2>1, <3>2, <4>2
    <3>4. F[j] = E[j]
      BY <1>1, <3>3
    <3>. QED
      BY <1>6, <2>1, <2>2, <3>1, <3>3, <3>4
  <2>3. CASE \E m \in 1..b : i = a + m
    <3>1. PICK m \in 1..b : i = a + m
      BY <2>3
    <3>2. CASE j \in 1..a
      BY <1>1, <3>1, <3>2
    <3>3. CASE \E l \in 1..b : j = a + l
      <4>1. PICK l \in 1..b : j = a + l
        BY <3>3
      <4>2. cs[l] = cs[m] /\ cs[l] \in Nat /\ cs[m] \in Nat
        BY <1>1, <1>3, <2>1, <3>1, <4>1
      <4>3. m < l => cs[m] < cs[l]
        BY <1>1 DEF Rising
      <4>4. ~(m < l)
        BY <4>2, <4>3
      <4>. QED
        BY <1>1, <3>1, <4>1, <4>4
    <3>. QED
      BY <1>1, <3>2, <3>3
  <2>. QED
    BY <1>1, <2>2, <2>3
<1>8. Shown(F, st)
  <2>1. SUFFICES ASSUME NEW j \in 1..(a + b) PROVE F[j].shows <= st
    BY <1>1 DEF Shown
  <2>2. CASE j \in 1..a
    BY <1>1, <1>6, <2>2
  <2>3. CASE \E m \in 1..b : j = a + m
    BY <1>1, <2>3
  <2>. QED
    BY <1>1, <2>2, <2>3
<1>9. EventsFit(F, {}, O, J, st)
  BY <1>2, <1>4, <1>7, <1>8 DEF EventsFit, B
<1>. QED
  BY <1>4, <1>9 DEF B

\* A new listener that waits.
LEMMA ListenerWaits ==
    ASSUME NEW E, NEW st, NEW O \in SUBSET Nat, NEW J \in SUBSET Nat, NEW S, NEW R, NEW c,
           ListenersFit(S, R, O, J, AnsweredOf(E)), EventsFit(E, S, O, J, st),
           c \in O, c \notin J
    PROVE  /\ ListenersFit(S \cup {c}, R, O, J \cup {c}, AnsweredOf(E))
           /\ EventsFit(E, S \cup {c}, O, J \cup {c}, st)
<1>. DEFINE A == AnsweredOf(E)
<1>1. A \subseteq J /\ \A i \in DOMAIN E : E[i].call \in A
  BY DEF EventsFit, AnsweredOf
<1>. HIDE DEF A
<1>2. /\ R \subseteq S /\ S \subseteq J /\ S \ R \subseteq O \ A
      /\ O \cap J \subseteq (S \ R) \cup A
  BY DEF ListenersFit, A
<1>3. ListenersFit(S \cup {c}, R, O, J \cup {c}, A)
  <2>1. (S \cup {c}) \ R = (S \ R) \cup {c}
    BY <1>2
  <2>2. (S \ R) \cup {c} \subseteq O \ A
    BY <1>1, <1>2
  <2>3. O \cap (J \cup {c}) \subseteq ((S \ R) \cup {c}) \cup A
    BY <1>2
  <2>4. R \subseteq S \cup {c} /\ S \cup {c} \subseteq J \cup {c}
    BY <1>2
  <2>. QED
    BY <2>1, <2>2, <2>3, <2>4 DEF ListenersFit
<1>4. EventsFit(E, S \cup {c}, O, J \cup {c}, st)
  <2>1. ErrorsLast(E, S \cup {c})
    BY <1>1 DEF EventsFit, ErrorsLast
  <2>. QED
    BY <1>1, <2>1 DEF EventsFit, A
<1>. QED
  BY <1>3, <1>4 DEF A

\* A new listener that is told at once, when no other waits.
LEMMA ListenerTold ==
    ASSUME NEW E, NEW c, NEW st \in Nat, NEW F, Extended(F, E, <<c>>, "snapshot", st),
           NEW O \in SUBSET Nat, NEW J \in SUBSET Nat, NEW S, NEW R,
           ListenersFit(S, R, O, J, AnsweredOf(E)), EventsFit(E, S, O, J, st),
           c \in O, c \notin J, S \ R = {},
           \A x \in O : \A y \in J : x < y => y \in O,
           \A x \in O \ J : \A y \in J : y < x,
           \A x \in O : x < c => x \in J, \A x \in J : x < c
    PROVE  /\ ListenersFit(S \cup {c}, R \cup {c}, O, J \cup {c}, AnsweredOf(F))
           /\ EventsFit(F, S \cup {c}, O, J \cup {c}, st)
<1>1. /\ ListenersFit(S \cup {c}, R, O, J \cup {c}, AnsweredOf(E))
      /\ EventsFit(E, S \cup {c}, O, J \cup {c}, st)
  BY ListenerWaits
<1>2. Rising(<<c>>) /\ Range(<<c>>) = {c}
  <2>1. DOMAIN <<c>> = {1} /\ <<c>>[1] = c
    OBVIOUS
  <2>. QED
    BY <2>1 DEF Rising, Range
<1>3. (S \cup {c}) \ R \subseteq Range(<<c>>)
  BY <1>2
<1>4. Range(<<c>>) \subseteq S \cup {c} /\ J \cup {c} \in SUBSET Nat
  BY <1>2
<1>5. \A x \in O : \A y \in J \cup {c} : x < y => y \in O
  OBVIOUS
<1>6. \A x \in O \ (J \cup {c}) : \A y \in J \cup {c} : y < x
  <2>1. SUFFICES ASSUME NEW x \in O \ (J \cup {c}) PROVE c < x
    OBVIOUS
  <2>2. ~(x < c) /\ x # c /\ x \in Nat /\ c \in Nat
    OBVIOUS
  <2>. QED
    BY <2>2
<1>7. /\ ListenersFit(S \cup {c}, R \cup Range(<<c>>), O, J \cup {c}, AnsweredOf(F))
      /\ EventsFit(F, S \cup {c}, O, J \cup {c}, st)
  <2>. DEFINE SS == S \cup {c}  JJ == J \cup {c}  cs == <<c>>
  <2>. HIDE DEF SS, JJ, cs
  <2>1. /\ ListenersFit(SS, R, O, JJ, AnsweredOf(E)) /\ EventsFit(E, SS, O, JJ, st)
        /\ Extended(F, E, cs, "snapshot", st) /\ JJ \in SUBSET Nat
        /\ Rising(cs) /\ Range(cs) \subseteq SS /\ SS \ R \subseteq Range(cs)
        /\ \A x \in O : \A y \in JJ : x < y => y \in O
        /\ \A x \in O \ JJ : \A y \in JJ : y < x
    BY <1>1, <1>2, <1>3, <1>4, <1>5, <1>6 DEF SS, JJ, cs
  <2>2. /\ ListenersFit(SS, R \cup Range(cs), O, JJ, AnsweredOf(F)) /\ EventsFit(F, SS, O, JJ, st)
    BY <2>1, SnapshotPosted
  <2>. QED
    BY <2>2 DEF SS, JJ, cs
<1>. QED
  BY <1>2, <1>7

\* The listener of a completed call is removed.
LEMMA ListenerRemoved ==
    ASSUME NEW E, NEW st, NEW O, NEW J, NEW S, NEW R, NEW c, NEW T,
           ListenersFit(S, R, O, J, AnsweredOf(E)), EventsFit(E, S, O, J, st),
           c \notin O, T = S \ {c}
    PROVE  /\ ListenersFit(T, R \ {c}, O, J, AnsweredOf(E))
           /\ EventsFit(E, T, O, J, st)
<1>1. T \ (R \ {c}) = S \ R
  BY DEF ListenersFit
<1>2. ListenersFit(T, R \ {c}, O, J, AnsweredOf(E))
  BY <1>1 DEF ListenersFit
<1>3. ErrorsLast(E, T)
  BY DEF EventsFit, ErrorsLast
<1>. QED
  BY <1>1, <1>2, <1>3 DEF EventsFit

\* The event of a muted listener is dropped.
LEMMA EventDropped ==
    ASSUME NEW E \in Seq(Event), NEW st \in Nat, NEW O, NEW J, NEW S, NEW R, E # <<>>,
           ListenersFit(S, R, O, J, AnsweredOf(E)), EventsFit(E, S, O, J, st),
           NEW P, P \subseteq O, Head(E).call \notin P, O \ P \subseteq {Head(E).call}
    PROVE  /\ ListenersFit(S, R, P, J, AnsweredOf(Tail(E)))
           /\ EventsFit(Tail(E), S, P, J, st)
<1>. DEFINE N == Len(E)  T == Tail(E)  h == Head(E)  A == AnsweredOf(E)  B == AnsweredOf(T)
<1>1. /\ N \in Nat /\ N >= 1 /\ h = E[1] /\ DOMAIN E = 1..N /\ DOMAIN T = 1..(N - 1)
      /\ \A i \in 1..(N - 1) : T[i] = E[i + 1] /\ i + 1 \in 1..N
      /\ \A j \in 1..N : j = 1 \/ (j - 1 \in 1..(N - 1) /\ T[j - 1] = E[j])
      /\ A = B \cup {h.call}
  BY EventLess
<1>. HIDE DEF N, T, h, B, A
<1>2. /\ R \subseteq S /\ S \subseteq J /\ S \ R \subseteq O \ A
      /\ O \cap J \subseteq (S \ R) \cup A
  BY DEF ListenersFit, A
<1>3. /\ A \subseteq J
      /\ \A j \in 1..N : \A c \in O : c < E[j].call => \E i \in 1..N : i < j /\ E[i].call = c
      /\ \A i \in 1..N : E[i].type = "error" =>
            E[i].call \notin S /\ \A j \in 1..N : E[j].call = E[i].call => j <= i
      /\ \A i \in 1..N : E[i].shows <= st
  BY <1>1 DEF EventsFit, FirstsInOrder, ErrorsLast, Shown, A
<1>d. h.call \notin P /\ O \ P \subseteq {h.call}
  BY DEF h
<1>4. ListenersFit(S, R, P, J, B)
  <2>1. S \ R \subseteq P \ B
    BY <1>1, <1>2, <1>d
  <2>2. P \cap J \subseteq (S \ R) \cup B
    BY <1>1, <1>2, <1>d
  <2>. QED
    BY <1>2, <2>1, <2>2 DEF ListenersFit
<1>5. FirstsInOrder(T, P)
  <2>1. SUFFICES ASSUME NEW j \in 1..(N - 1), NEW c \in P, c < T[j].call
                 PROVE  \E i \in 1..(N - 1) : i < j /\ T[i].call = c
    <3>1. DOMAIN T = 1..(N - 1)
      BY <1>1
    <3>. QED
      BY <3>1 DEF FirstsInOrder
  <2>2. PICK i \in 1..N : i < j + 1 /\ E[i].call = c
    BY <1>1, <1>3, <2>1
  <2>3. i # 1
    BY <1>1, <1>d, <2>2
  <2>4. i - 1 \in 1..(N - 1) /\ T[i - 1] = E[i]
    BY <1>1, <2>3, Zenon
  <2>5. i - 1 < j
    <3>1. N \in Nat /\ i \in 1..N /\ j \in 1..(N - 1) /\ i < j + 1
      BY <1>1, <2>1, <2>2
    <3>. QED
      BY <3>1
  <2>. QED
    BY <2>2, <2>4, <2>5
<1>6. ErrorsLast(T, S)
  <2>1. SUFFICES ASSUME NEW i \in 1..(N - 1), T[i].type = "error"
                 PROVE  /\ T[i].call \notin S
                        /\ \A j \in 1..(N - 1) : T[j].call = T[i].call => j <= i
    BY <1>1 DEF ErrorsLast
  <2>2. T[i] = E[i + 1] /\ i + 1 \in 1..N
    BY <1>1
  <2>3. T[i].call \notin S
    BY <1>3, <2>1, <2>2
  <2>4. ASSUME NEW j \in 1..(N - 1), T[j].call = T[i].call PROVE j <= i
    <3>1. E[j + 1].call = E[i + 1].call /\ j + 1 \in 1..N
      BY <1>1, <2>2, <2>4
    <3>2. j + 1 <= i + 1
      BY <1>3, <2>1, <2>2, <3>1
    <3>. QED
      BY <3>2
  <2>. QED
    BY <2>3, <2>4
<1>7. Shown(T, st) /\ B \subseteq J
  BY <1>1, <1>3 DEF Shown
<1>. QED
  BY <1>4, <1>5, <1>6, <1>7 DEF EventsFit, B, T

\* The event of an unmuted listener is that of the oldest open call; an error is the last.
LEMMA EventNext ==
    ASSUME NEW E \in Seq(Event), E # <<>>, NEW st, NEW d \in Nat, NEW n \in Nat, NEW mu,
           NEW S, NEW J, J \subseteq 1..n,
           EventsFit(E, S, (d + 1)..n, J, st), DoneFit(d, n, mu, S, J, AnsweredOf(E)),
           Head(E).call \notin mu
    PROVE  /\ Head(E).call = d + 1
           /\ d + 1 \in J
           /\ Head(E).type = "error" => d + 1 \notin S /\ d + 1 \notin AnsweredOf(Tail(E))
<1>. DEFINE N == Len(E)  T == Tail(E)  h == Head(E)  A == AnsweredOf(E)  B == AnsweredOf(T)
            c == h.call  O == (d + 1)..n
<1>1. /\ N \in Nat /\ N >= 1 /\ h = E[1] /\ DOMAIN E = 1..N /\ DOMAIN T = 1..(N - 1)
      /\ \A i \in 1..(N - 1) : T[i] = E[i + 1] /\ i + 1 \in 1..N
      /\ A = B \cup {c}
  BY EventLess
<1>2. /\ A \subseteq J
      /\ \A j \in 1..N : \A x \in O : x < E[j].call => \E i \in 1..N : i < j /\ E[i].call = x
      /\ \A i \in 1..N : E[i].type = "error" =>
            E[i].call \notin S /\ \A j \in 1..N : E[j].call = E[i].call => j <= i
  BY <1>1 DEF EventsFit, FirstsInOrder, ErrorsLast
<1>. HIDE DEF N, T, A, B, h
<1>3. \A x \in (1..d) \ mu : x \notin A
  BY DEF DoneFit, A
<1>. HIDE DEF O
<1>4. c \in A /\ c \in J /\ c \in 1..n /\ c \notin mu
  BY <1>1, <1>2 DEF h
<1>5. c \notin 1..d
  BY <1>3, <1>4
<1>6. 1 \in 1..N /\ E[1].call = c
  BY <1>1
<1>. HIDE DEF c
<1>7. c \in Nat /\ d + 1 <= c /\ c <= n
  BY <1>4, <1>5
<1>8. ~(d + 1 < c)
  <2>1. SUFFICES ASSUME d + 1 < c PROVE FALSE
    OBVIOUS
  <2>2. d + 1 \in O
    BY <1>7 DEF O
  <2>3. \E i \in 1..N : i < 1
    BY <1>2, <1>6, <2>1, <2>2
  <2>. QED
    BY <1>1, <2>3
<1>9. c = d + 1
  BY <1>7, <1>8
<1>10. ASSUME h.type = "error" PROVE c \notin S /\ c \notin B
  <2>1. c \notin S /\ \A j \in 1..N : E[j].call = c => j <= 1
    BY <1>1, <1>2, <1>6, <1>10
  <2>2. \A i \in 1..(N - 1) : T[i].call # c
    BY <1>1, <2>1
  <2>. QED
    BY <1>1, <2>1, <2>2 DEF AnsweredOf, B
<1>. QED
  BY <1>4, <1>9, <1>10 DEF c, h, B, T

-----------------------------------------------------------------------------
(***************************************************************************)
(* The replies that are counted.                                           *)
(***************************************************************************)

\* What RequestsMatch says of the stream.
Matches(outstanding, asked, replies) == outstanding = Len(asked) + Cardinality(Counted(replies))

Reply == {"added", "removed", "refused", "snapshot"}

\* Counted replies can be counted.
LEMMA CountFinite ==
    ASSUME NEW q \in Seq(Reply)
    PROVE  IsFiniteSet(Counted(q)) /\ Cardinality(Counted(q)) \in Nat
<1>1. Counted(q) \subseteq 1..Len(q) /\ Len(q) \in Nat
  BY DEF Counted
<1>2. IsFiniteSet(1..Len(q))
  BY <1>1, FS_Interval
<1>3. IsFiniteSet(Counted(q))
  BY <1>1, <1>2, FS_Subset
<1>. QED
  BY <1>3, FS_CardinalityType

\* No replies, none counted.
LEMMA CountNone == Cardinality(Counted(<<>>)) = 0
<1>1. Counted(<<>>) = {}
  BY DEF Counted
<1>. QED
  BY <1>1, FS_EmptySet

\* A reply more.
LEMMA CountMore ==
    ASSUME NEW q \in Seq(Reply), NEW x \in Reply
    PROVE  Cardinality(Counted(Append(q, x))) =
               Cardinality(Counted(q)) + (IF x \in {"added", "removed"} THEN 1 ELSE 0)
<1>. DEFINE u == Append(q, x)  N == Len(q)
<1>1. /\ N \in Nat /\ DOMAIN q = 1..N /\ DOMAIN u = 1..(N + 1)
      /\ \A i \in 1..N : u[i] = q[i]
      /\ u[N + 1] = x
  OBVIOUS
<1>. HIDE DEF u, N
<1>2. Counted(q) \subseteq 1..N /\ N + 1 \notin Counted(q)
  BY <1>1 DEF Counted
<1>3. \A i \in 1..(N + 1) : i = N + 1 \/ i \in 1..N
  BY <1>1
<1>4. 1..N \subseteq 1..(N + 1) /\ N + 1 \in 1..(N + 1)
  BY <1>1
<1>5. CASE x \in {"added", "removed"}
  <2>1. Counted(u) = Counted(q) \cup {N + 1}
    BY <1>1, <1>3, <1>4, <1>5 DEF Counted
  <2>2. Cardinality(Counted(q) \cup {N + 1}) = Cardinality(Counted(q)) + 1
    BY <1>2, CountFinite, FS_AddElement
  <2>. QED
    BY <1>5, <2>1, <2>2 DEF u
<1>6. CASE x \notin {"added", "removed"}
  <2>1. Counted(u) = Counted(q)
    BY <1>1, <1>3, <1>4, <1>6 DEF Counted
  <2>2. Cardinality(Counted(q)) \in Nat
    BY CountFinite
  <2>. QED
    BY <1>6, <2>1, <2>2 DEF u
<1>. QED
  BY <1>5, <1>6

\* A reply less.
LEMMA CountLess ==
    ASSUME NEW q \in Seq(Reply), q # <<>>
    PROVE  /\ Tail(q) \in Seq(Reply) /\ Head(q) \in Range(q) /\ Range(Tail(q)) \subseteq Range(q)
           /\ Head(q) \in Reply
           /\ Cardinality(Counted(q)) = Cardinality(Counted(Tail(q))) +
                  (IF Head(q) \in {"added", "removed"} THEN 1 ELSE 0)
<1>. DEFINE u == Tail(q)  N == Len(q)  x == Head(q)
<1>1. /\ N \in Nat /\ N >= 1 /\ DOMAIN q = 1..N /\ DOMAIN u = 1..(N - 1)
      /\ \A i \in 1..(N - 1) : u[i] = q[i + 1] /\ i + 1 \in 1..N
      /\ q[1] = x /\ u \in Seq(Reply) /\ x \in Reply
  OBVIOUS
<1>. HIDE DEF u, N, x
<1>2. x \in Range(q) /\ Range(u) \subseteq Range(q)
  BY <1>1 DEF Range
<1>. DEFINE S == Counted(u)  T == Counted(q) \ {1}
            f == [i \in S |-> i + 1]
<1>3. S \subseteq 1..(N - 1) /\ T \subseteq 2..N
  BY <1>1 DEF Counted
<1>4. \A i \in S : i + 1 \in T
  BY <1>1 DEF Counted
<1>5. \A j \in T : j - 1 \in S /\ (j - 1) + 1 = j
  <2>1. SUFFICES ASSUME NEW j \in T PROVE j - 1 \in S /\ (j - 1) + 1 = j
    OBVIOUS
  <2>2. j \in 2..N /\ q[j] \in {"added", "removed"}
    BY <1>3 DEF Counted
  <2>3. j - 1 \in 1..(N - 1) /\ (j - 1) + 1 = j
    BY <1>1, <2>2
  <2>4. u[j - 1] = q[j]
    BY <1>1, <2>3
  <2>. QED
    BY <1>1, <2>2, <2>3, <2>4 DEF Counted
<1>. HIDE DEF S, T
<1>6. f \in Bijection(S, T)
  <2>1. f \in [S -> T]
    BY <1>4
  <2>2. \A a, b \in S : f[a] = f[b] => a = b
    BY <1>3
  <2>3. \A t \in T : \E s \in S : f[s] = t
    BY <1>5
  <2>. QED
    BY <2>1, <2>2, <2>3 DEF Bijection, Injection, Surjection, IsInjective
<1>7. IsFiniteSet(S) /\ Cardinality(S) \in Nat
  BY <1>1, CountFinite DEF S
<1>8. Cardinality(T) = Cardinality(S) /\ IsFiniteSet(T)
  <2>1. ExistsBijection(S, T)
    BY <1>6 DEF ExistsBijection
  <2>. QED
    BY <1>7, <2>1, FS_Bijection
<1>9. CASE x \in {"added", "removed"}
  <2>1. 1 \in Counted(q)
    BY <1>1, <1>9 DEF Counted
  <2>2. Counted(q) = T \cup {1} /\ 1 \notin T
    BY <2>1 DEF T
  <2>3. Cardinality(T \cup {1}) = Cardinality(T) + 1
    BY <1>8, <2>2, FS_AddElement
  <2>. QED
    BY <1>1, <1>2, <1>8, <1>9, <2>2, <2>3 DEF u, x, S
<1>10. CASE x \notin {"added", "removed"}
  <2>1. Counted(q) = T
    BY <1>1, <1>10 DEF Counted, T
  <2>. QED
    BY <1>1, <1>2, <1>7, <1>8, <1>10, <2>1 DEF u, x, S
<1>. QED
  BY <1>9, <1>10

-----------------------------------------------------------------------------
(***************************************************************************)
(* What the operators of the manager do to it.                             *)
(***************************************************************************)

\* p is m after an event for the listeners cs.
Posts(m, p, cs, type, n) ==
    /\ p \in Manager
    /\ p.listeners = m.listeners
    /\ p.raised = m.raised \cup Range(cs)
    /\ p.events = m.events \o Posted(cs, type, n)

\* The fields of the manager.
LEMMA ManagerFields ==
    ASSUME NEW m \in Manager
    PROVE  /\ m.listeners \in Seq(Calls) /\ m.raised \subseteq Calls
           /\ m.synced \in BOOLEAN /\ m.online \in {"Unknown", "Online", "Offline"}
           /\ m.events \in Seq(Event)
  BY DEF Manager

\* A manager with other listeners, of which other ones have raised.
With(m, l, r, y) == [m EXCEPT !.listeners = l, !.raised = r, !.synced = y]

\* Its other fields are as they were.
LEMMA ManagerWith ==
    ASSUME NEW m \in Manager, NEW l \in Seq(Calls), NEW r \in SUBSET Calls, NEW y \in BOOLEAN,
           NEW p, p = With(m, l, r, y)
    PROVE  /\ p \in Manager /\ p.listeners = l /\ p.raised = r /\ p.synced = y
           /\ p.online = m.online /\ p.events = m.events
<1>1. /\ p.listeners = l /\ p.raised = r /\ p.synced = y
      /\ p.online = m.online /\ p.events = m.events
  BY DEF Manager, With
<1>. QED
  BY DEF Manager, With

\* Post posts.
LEMMA PostFacts ==
    ASSUME NEW m \in Manager, NEW cs \in Seq(Calls), NEW type \in {"snapshot", "error"},
           NEW n \in Nat
    PROVE  /\ Posts(m, Post(m, cs, type, n), cs, type, n)
           /\ Post(m, cs, type, n).synced = m.synced
           /\ Post(m, cs, type, n).online = m.online
<1>. DEFINE E == m.events  F == E \o Posted(cs, type, n)  p == Post(m, cs, type, n)
<1>1. E \in Seq(Event) /\ m.raised \subseteq Calls
  BY ManagerFields
<1>. HIDE DEF E
<1>2. Extended(F, E, cs, type, n)
  BY <1>1, EventMore
<1>3. F \in Seq(Event)
  BY <1>2 DEF Extended
<1>4. Range(cs) \subseteq Calls
  BY DEF Range
<1>5. Post(m, cs, type, n) = [m EXCEPT !.raised = m.raised \cup Range(cs), !.events = F]
  BY DEF Post, Posted, E
<1>. HIDE DEF F
<1>6. /\ p.listeners = m.listeners /\ p.raised = m.raised \cup Range(cs)
      /\ p.events = F /\ p.synced = m.synced /\ p.online = m.online
  BY <1>5 DEF Manager
<1>7. p \in Manager
  BY <1>1, <1>3, <1>4, <1>5 DEF Manager
<1>. QED
  BY <1>6, <1>7 DEF Posts, F, E

\* A sequence without members.
LEMMA NoMembers ==
    ASSUME NEW T, NEW s \in Seq(T)
    PROVE  s = <<>> <=> Range(s) = {}
<1>1. PICK n \in Nat : n = Len(s) /\ DOMAIN s = 1..n
  OBVIOUS
<1>2. n = 0 <=> s = <<>>
  BY <1>1
<1>3. n # 0 => 1 \in DOMAIN s
  BY <1>1
<1>4. n = 0 => DOMAIN s = {}
  BY <1>1
<1>5. 1 \in DOMAIN s => s[1] \in Range(s)
  BY DEF Range
<1>6. DOMAIN s = {} => Range(s) = {}
  BY DEF Range
<1>. QED
  BY <1>2, <1>3, <1>4, <1>5, <1>6

\* To post to nobody is to do nothing.
LEMMA PostNothing ==
    ASSUME NEW m \in Manager, NEW type, NEW n
    PROVE  Posts(m, m, <<>>, type, n) /\ Rising(<<>>) /\ Range(<<>>) = {}
<1>1. Posted(<<>>, type, n) = <<>>
  BY DEF Posted
<1>2. m.events \in Seq(Event)
  BY ManagerFields
<1>3. m.events \o <<>> = m.events
  BY <1>2
<1>4. DOMAIN (<<>>) = {}
  OBVIOUS
<1>5. Rising(<<>>) /\ Range(<<>>) = {}
  BY <1>4 DEF Rising, Range
<1>6. m.raised \cup Range(<<>>) = m.raised
  BY <1>5
<1>. QED
  BY <1>1, <1>3, <1>5, <1>6 DEF Posts

\* Deliver posts to all listeners, or to those with their first event behind them.
LEMMA DeliverFacts ==
    ASSUME NEW m \in Manager, NEW n \in Nat, Rising(m.listeners)
    PROVE  \E cs \in Seq(Calls) :
               /\ Posts(m, Deliver(m, n), cs, "snapshot", n)
               /\ Rising(cs)
               /\ Range(cs) = Range(m.listeners) \cap
                                 (IF Ready(m) THEN Range(m.listeners) ELSE m.raised)
               /\ Deliver(m, n).synced = m.synced
               /\ Deliver(m, n).online = m.online
<1>. DEFINE S == IF Ready(m) THEN Range(m.listeners) ELSE m.raised
            cs == Among(m.listeners, S)
<1>1. m.listeners \in Seq(Calls)
  BY ManagerFields
<1>. HIDE DEF S
<1>2. cs \in Seq(Calls) /\ Range(cs) = Range(m.listeners) \cap S /\ Rising(cs)
  BY <1>1, AmongFacts
<1>3. Deliver(m, n) = Post(m, cs, "snapshot", n)
  BY DEF Deliver, S
<1>. HIDE DEF cs
<1>. QED
  BY <1>2, <1>3, PostFacts DEF S

\* What Broadcast leaves: b is m with the new state, and a snapshot for cs.
Broadcasts(m, b, state, cs, n) ==
    /\ cs \in Seq(Calls) /\ Rising(cs) /\ Range(cs) \subseteq Range(m.listeners)
    /\ Posts(m, b, cs, "snapshot", n)
    /\ b.online = state
    /\ b.synced = (m.synced /\ (state # "Offline" \/ m.online = "Offline"))
    /\ state # "Offline" => cs = <<>>
    /\ state = "Offline" /\ m.online # "Offline" =>
           Range(m.listeners) \ m.raised \subseteq Range(cs)
    /\ \/ Range(m.listeners) \ m.raised \subseteq Range(cs)
       \/ (Range(m.listeners) \ m.raised) \cap Range(cs) = {}

\* To go offline loses the sync or reaches those who wait, not both: with the view in
\* sync nobody waits.
LEMMA BroadcastFacts ==
    ASSUME NEW m \in Manager, NEW n \in Nat, NEW state \in {"Unknown", "Online", "Offline"},
           Rising(m.listeners), m.raised \subseteq Range(m.listeners),
           m.synced => Range(m.listeners) \ m.raised = {}
    PROVE  \E cs : Broadcasts(m, Broadcast(m, state, n), state, cs, n)
<1>. DEFINE b == Broadcast(m, state, n)  L == m.listeners  W == Range(L) \ m.raised
<1>m. /\ L \in Seq(Calls) /\ m.raised \subseteq Calls /\ m.synced \in BOOLEAN
      /\ m.online \in {"Unknown", "Online", "Offline"}
  BY ManagerFields
<1>n. Posts(m, m, <<>>, "snapshot", n) /\ Rising(<<>>) /\ Range(<<>>) = {} /\ <<>> \in Seq(Calls)
  BY PostNothing
<1>1. CASE state = m.online
  <2>1. b = m
    BY <1>1 DEF Broadcast
  <2>2. Broadcasts(m, m, state, <<>>, n)
    BY <1>1, <1>n, <1>m DEF Broadcasts
  <2>. QED
    BY <2>1, <2>2
<1>2. CASE state # m.online /\ state # "Offline"
  <2>1. b = [m EXCEPT !.online = state]
    BY <1>2 DEF Broadcast
  <2>2. /\ b \in Manager /\ b.listeners = L /\ b.raised = m.raised /\ b.synced = m.synced
        /\ b.online = state /\ b.events = m.events
    BY <2>1 DEF Manager
  <2>. HIDE DEF b
  <2>3. Posts(m, b, <<>>, "snapshot", n)
    BY <1>n, <2>2 DEF Posts
  <2>4. Broadcasts(m, b, state, <<>>, n)
    BY <1>2, <1>n, <1>m, <2>2, <2>3 DEF Broadcasts
  <2>. QED
    BY <2>4 DEF b
<1>3. CASE state # m.online /\ state = "Offline" /\ ~m.synced
  <2>. DEFINE now == [m EXCEPT !.online = state]  cs == Among(L, W)
  <2>1. /\ now \in Manager /\ now.listeners = L /\ now.raised = m.raised /\ now.synced = m.synced
        /\ now.online = state /\ now.events = m.events
    BY DEF Manager
  <2>2. b = Post(now, cs, "snapshot", n)
    BY <1>3 DEF Broadcast
  <2>3. cs \in Seq(Calls) /\ Range(cs) = Range(L) \cap W /\ Rising(cs)
    BY <1>m, AmongFacts
  <2>. HIDE DEF now, cs, b
  <2>4. Posts(now, b, cs, "snapshot", n) /\ b.synced = m.synced /\ b.online = state
    BY <2>1, <2>2, <2>3, PostFacts
  <2>5. Posts(m, b, cs, "snapshot", n)
    BY <2>1, <2>4 DEF Posts
  <2>6. W \subseteq Range(cs) /\ Range(cs) \subseteq Range(L)
    BY <2>3
  <2>7. Broadcasts(m, b, state, cs, n)
    BY <1>3, <1>m, <2>3, <2>4, <2>5, <2>6 DEF Broadcasts
  <2>. QED
    BY <2>7 DEF b
<1>4. CASE state # m.online /\ state = "Offline" /\ m.synced
  <2>. DEFINE lost == [m EXCEPT !.synced = FALSE]  told == Deliver(lost, n)
              now == [told EXCEPT !.online = state]
              none == Among(L, Range(L) \ told.raised)
  <2>1. /\ lost \in Manager /\ lost.listeners = L /\ lost.raised = m.raised /\ lost.synced = FALSE
        /\ lost.online = m.online /\ lost.events = m.events
    BY DEF Manager
  <2>2. ~Ready(lost) /\ Rising(lost.listeners)
    BY <1>4, <2>1 DEF Ready
  <2>3. b = Post(now, Among(now.listeners, Range(L) \ told.raised), "snapshot", n)
    <3>1. told.listeners = L /\ now.listeners = told.listeners
      <4>1. \E cs \in Seq(Calls) : Posts(lost, told, cs, "snapshot", n)
        BY <2>1, <2>2, DeliverFacts
      <4>2. told \in Manager /\ told.listeners = L
        BY <2>1, <4>1 DEF Posts
      <4>. QED
        BY <4>2 DEF Manager
    <3>2. b = Post(now, none, "snapshot", n)
      BY <1>4 DEF Broadcast
    <3>. QED
      BY <3>1, <3>2
  <2>. HIDE DEF lost
  <2>4. PICK cs \in Seq(Calls) :
            /\ Posts(lost, told, cs, "snapshot", n) /\ Rising(cs)
            /\ Range(cs) = Range(lost.listeners) \cap
                              (IF Ready(lost) THEN Range(lost.listeners) ELSE lost.raised)
            /\ told.synced = lost.synced /\ told.online = lost.online
    BY <2>1, <2>2, DeliverFacts
  <2>. HIDE DEF told
  <2>5. Range(cs) = m.raised /\ Posts(m, told, cs, "snapshot", n) /\ told.synced = FALSE
    BY <2>1, <2>2, <2>4 DEF Posts
  <2>6. told \in Manager /\ told.listeners = L /\ told.raised = m.raised
    BY <2>5 DEF Posts
  <2>7. /\ now \in Manager /\ now.listeners = L /\ now.raised = m.raised /\ now.synced = FALSE
        /\ now.online = state /\ now.events = told.events
    BY <2>5, <2>6 DEF Manager
  <2>. HIDE DEF now
  <2>8. W = {}
    BY <1>4
  <2>9. none \in Seq(Calls) /\ Range(none) = {}
    BY <1>m, <2>6, <2>8, AmongFacts
  <2>10. none = <<>>
    BY <2>9, NoMembers
  <2>11. b = Post(now, <<>>, "snapshot", n)
    BY <2>3, <2>7, <2>10
  <2>. HIDE DEF b, none
  <2>12. /\ Posts(now, b, <<>>, "snapshot", n)
         /\ b.synced = FALSE /\ b.online = state
    BY <1>n, <2>7, <2>11, PostFacts
  <2>13. Posts(now, now, <<>>, "snapshot", n)
    BY <2>7, PostNothing
  <2>14. /\ b \in Manager /\ b.listeners = L /\ b.raised = m.raised
         /\ b.events = told.events
    BY <1>n, <2>7, <2>12, <2>13 DEF Posts
  <2>15. Posts(m, b, cs, "snapshot", n)
    BY <2>5, <2>6, <2>14 DEF Posts
  <2>16. Range(cs) \subseteq Range(L)
    BY <2>5
  <2>17. Broadcasts(m, b, state, cs, n)
    BY <1>4, <1>m, <2>4, <2>8, <2>12, <2>15, <2>16 DEF Broadcasts
  <2>. QED
    BY <2>17 DEF b
<1>. QED
  BY <1>1, <1>2, <1>3, <1>4

-----------------------------------------------------------------------------
(***************************************************************************)
(* The steps.                                                              *)
(***************************************************************************)

\* What the invariant says of the stream and those who wait for it.
StreamFit == NoAssertFails /\ WaitsForGoodReason /\ RequestsMatch /\ StreamKnown

\* The invariant has three parts: types, stream and calls.
LEMMA TheInvariant == IInv <=> TypeOK /\ StreamFit /\ CallsFit
  BY InTheseWords DEF IInv, StreamFit

\* p is m after a snapshot for some of the listeners: of those who wait, all or none.
Told(m, p, n) ==
    \E cs \in Seq(Calls) :
        /\ Posts(m, p, cs, "snapshot", n)
        /\ Rising(cs) /\ Range(cs) \subseteq Range(m.listeners)
        /\ \/ Range(m.listeners) \ m.raised \subseteq Range(cs)
           \/ (Range(m.listeners) \ m.raised) \cap Range(cs) = {}

\* A step of the client that is not of the queues leaves the calls and the store alone.
Kept == UNCHANGED <<app, stored, tasks>>

\* Open calls follow the completed ones, and those on their way the joined ones.
Follow(O, J, n) ==
    /\ O \in SUBSET Nat /\ J \in SUBSET Nat /\ J \subseteq 1..n
    /\ \A c \in O : \A x \in J : c < x => x \in O
    /\ \A c \in O \ J : \A x \in J : x < c

\* The queue of tasks keeps the calls in order.
LEMMA CallsFollow ==
    ASSUME NEW tq \in Seq(Task), NEW mu, NEW st, NEW w, NEW k, NEW d \in Nat, NEW n \in Nat,
           TasksFit(tq, mu, st, w, k, (d + 1)..n, JoinedOf(n, tq))
    PROVE  Follow((d + 1)..n, JoinedOf(n, tq), n)
<1>. DEFINE O == (d + 1)..n  J == JoinedOf(n, tq)
<1>1. O \in SUBSET Nat /\ J \in SUBSET Nat /\ J \subseteq 1..n
  BY DEF JoinedOf
<1>2. ASSUME NEW c \in O, NEW x \in J, c < x PROVE x \in O
  BY <1>1, <1>2
<1>3. ASSUME NEW c \in O \ J, NEW x \in J PROVE x < c
  <2>1. ListenTask(c) \in Range(tq)
    BY DEF JoinedOf
  <2>2. PICK i \in DOMAIN tq : tq[i] = ListenTask(c)
    BY <2>1 DEF Range
  <2>3. tq[i].op = "listen" /\ tq[i].number = c
    BY <2>2, TaskNames
  <2>. QED
    BY <2>2, <2>3 DEF TasksFit, ListenFits
<1>. HIDE DEF O, J
<1>4. Follow(O, J, n)
  BY <1>1, <1>2, <1>3 DEF Follow
<1>. QED
  BY <1>4 DEF O, J

\* What the types say.
LEMMA Types ==
    ASSUME TypeOK
    PROVE  /\ known \in Seq(Nat) /\ calls \in Nat /\ calls <= MaxCalls
           /\ Len(completed) \in Nat /\ completed \in Seq(Calls)
           /\ written \in Nat /\ stored \in Nat
           /\ tasks \in Seq(Task) /\ manager \in Manager /\ tracker \in Tracker /\ watch \in Watch
           /\ DOMAIN known = 1..calls /\ \A c \in 1..calls : known[c] \in Nat
           /\ manager.listeners \in Seq(Calls) /\ manager.raised \subseteq Calls
           /\ manager.synced \in BOOLEAN /\ manager.online \in {"Unknown", "Online", "Offline"}
           /\ manager.events \in Seq(Event)
<1>1. known \in Seq(0..MaxWrites) /\ 0..MaxWrites \subseteq Nat
  BY DEF TypeOK
<1>2. known \in Seq(Nat)
  BY <1>1, SeqMonotonic
<1>3. calls \in Nat /\ DOMAIN known = 1..calls /\ \A c \in 1..calls : known[c] \in Nat
  BY <1>2 DEF calls
<1>4. Len(completed) \in Nat
  BY DEF TypeOK
<1>. QED
  BY <1>2, <1>3, <1>4, ManagerFields DEF TypeOK

\* The parts of the invariant of the calls, with the order of the calls.
LEMMA Parts ==
    ASSUME TypeOK, CallsFit
    PROVE  /\ TasksFit(tasks, muted, stored, written, known, Open, Joined)
           /\ Rising(manager.listeners)
           /\ ListenersFit(Listening, manager.raised, Open, Joined, AnsweredOf(manager.events))
           /\ EventsFit(manager.events, Listening, Open, Joined, stored)
           /\ DoneFit(Len(completed), calls, muted, Listening, Joined, AnsweredOf(manager.events))
           /\ Open = (Len(completed) + 1)..calls /\ Joined = JoinedOf(calls, tasks)
           /\ Open \in SUBSET Nat /\ Joined \in SUBSET Nat /\ Joined \subseteq 1..calls
           /\ \A c \in Open : \A x \in Joined : c < x => x \in Open
           /\ \A c \in Open \ Joined : \A x \in Joined : x < c
<1>1. Answered = AnsweredOf(manager.events) /\ Joined = JoinedOf(calls, tasks)
  BY DEF Answered, AnsweredOf, Joined, JoinedOf
<1>2. Open = (Len(completed) + 1)..calls
  BY DEF Open
<1>3. TasksFit(tasks, muted, stored, written, known, Open, Joined)
  BY DEF CallsFit
<1>4. tasks \in Seq(Task) /\ Len(completed) \in Nat /\ calls \in Nat
  BY Types
<1>5. /\ Open \in SUBSET Nat /\ Joined \in SUBSET Nat /\ Joined \subseteq 1..calls
      /\ \A c \in Open : \A x \in Joined : c < x => x \in Open
      /\ \A c \in Open \ Joined : \A x \in Joined : x < c
  <2>1. PICK d \in Nat, n \in Nat : d = Len(completed) /\ n = calls
    BY <1>4
  <2>2. Open = (d + 1)..n /\ Joined = JoinedOf(n, tasks)
    BY <1>1, <1>2, <2>1
  <2>3. TasksFit(tasks, muted, stored, written, known, (d + 1)..n, JoinedOf(n, tasks))
    BY <1>3, <2>2
  <2>4. Follow((d + 1)..n, JoinedOf(n, tasks), n)
    BY <1>4, <2>1, <2>3, CallsFollow
  <2>5. Follow(Open, Joined, calls)
    BY <2>1, <2>2, <2>4
  <2>. QED
    BY <2>5 DEF Follow
<1>. QED
  BY <1>1, <1>2, <1>3, <1>5 DEF CallsFit

\* A post to m is its events, extended.
LEMMA PostsExtend ==
    ASSUME NEW m \in Manager, NEW p, NEW cs \in Seq(Calls), NEW type \in {"snapshot", "error"},
           NEW n \in Nat, Posts(m, p, cs, type, n)
    PROVE  Extended(p.events, m.events, cs, type, n)
<1>1. m.events \in Seq(Event) /\ p.events = m.events \o Posted(cs, type, n)
  BY ManagerFields DEF Posts
<1>. QED
  BY <1>1, EventMore

\* A snapshot for listeners keeps the order of the calls.
LEMMA ToldStep ==
    ASSUME TypeOK, CallsFit, Kept, Told(manager, manager', stored)
    PROVE  CallsFit'
<1>. DEFINE E == manager.events  F == manager'.events
<1>1. PICK cs \in Seq(Calls) :
          /\ Posts(manager, manager', cs, "snapshot", stored)
          /\ Rising(cs) /\ Range(cs) \subseteq Listening
          /\ \/ Listening \ manager.raised \subseteq Range(cs)
             \/ (Listening \ manager.raised) \cap Range(cs) = {}
  BY DEF Told, Listening
<1>2. Extended(F, E, cs, "snapshot", stored)
  BY <1>1, PostsExtend, Types
<1>3. /\ manager'.listeners = manager.listeners
      /\ manager'.raised = manager.raised \cup Range(cs)
  BY <1>1 DEF Posts
<1>. HIDE DEF E, F
<1>4. /\ ListenersFit(Listening, manager.raised \cup Range(cs), Open, Joined, AnsweredOf(F))
      /\ EventsFit(F, Listening, Open, Joined, stored)
  BY <1>1, <1>2, Parts, Types, SnapshotPosted DEF E
<1>5. DoneFit(Len(completed), calls, muted, Listening, Joined, AnsweredOf(F))
  <2>1. AnsweredOf(F) = AnsweredOf(E) \cup Range(cs)
    BY <1>2 DEF Extended
  <2>2. DoneFit(Len(completed), calls, muted, Listening, Joined, AnsweredOf(E))
    BY Parts DEF E
  <2>. QED
    BY <1>1, <2>1, <2>2 DEF DoneFit
<1>6. /\ calls' = calls /\ Joined' = Joined /\ Open' = Open /\ Listening' = Listening
      /\ Answered' = AnsweredOf(F) /\ completed' = completed
      /\ known' = known /\ written' = written /\ muted' = muted /\ stored' = stored /\ tasks' = tasks
  BY <1>3 DEF Kept, app, calls, Joined, Open, Listening, Answered, AnsweredOf, F
<1>. QED
  BY <1>3, <1>4, <1>5, <1>6 DEF CallsFit, F

\* A broadcast tells those who wait, or nobody.
LEMMA BroadcastsTell ==
    ASSUME NEW m, NEW p, NEW state, NEW cs, NEW n, Broadcasts(m, p, state, cs, n)
    PROVE  Told(m, p, n)
  BY DEF Broadcasts, Told

\* Nothing told is told.
LEMMA SameTold ==
    ASSUME NEW m \in Manager, NEW n
    PROVE  Told(m, m, n)
<1>1. Posts(m, m, <<>>, "snapshot", n) /\ Rising(<<>>) /\ Range(<<>>) = {}
  BY PostNothing
<1>2. <<>> \in Seq(Calls)
  OBVIOUS
<1>. QED
  BY <1>1, <1>2 DEF Told

\* What a stream is when it begins, and after a request.
LEMMA StreamFields ==
    \A s \in {"stopped", "starting", "open"} :
        /\ Stream(s) \in Watch
        /\ Stream(s).state = s /\ Stream(s).idle = FALSE /\ Stream(s).asked = <<>>
        /\ Stream(s).replies = <<>> /\ Stream(s).outstanding = 0 /\ Stream(s).server = "none"
<1>1. \A T : <<>> \in Seq(T)
  OBVIOUS
<1>. QED
  BY <1>1 DEF Stream, Watch

\* The fields of the stream, and of one with one more request.
LEMMA WatchFields ==
    ASSUME NEW s \in Watch
    PROVE  /\ s.state \in {"stopped", "starting", "open"} /\ s.idle \in BOOLEAN
           /\ s.asked \in Seq({"watch", "unwatch"}) /\ s.replies \in Seq(Reply)
           /\ s.outstanding \in Int /\ s.server \in {"none", "watching", "told"}
  BY DEF Watch, Reply

LEMMA SendFields ==
    ASSUME NEW s \in Watch, NEW r \in {"watch", "unwatch"}
    PROVE  /\ Send(s, r) \in Watch
           /\ Send(s, r).state = s.state /\ Send(s, r).idle = FALSE
           /\ Send(s, r).asked = Append(s.asked, r) /\ Send(s, r).replies = s.replies
           /\ Send(s, r).outstanding = s.outstanding + 1 /\ Send(s, r).server = s.server
<1>1. s.asked \in Seq({"watch", "unwatch"}) /\ s.outstanding \in Int
  BY WatchFields
<1>2. Append(s.asked, r) \in Seq({"watch", "unwatch"}) /\ s.outstanding + 1 \in Int
  BY <1>1
<1>. QED
  BY <1>2 DEF Send, Watch

\* The match of a fresh stream, after a request, an answer, and a reading.
LEMMA MatchFresh == Matches(0, <<>>, <<>>)
  BY CountNone DEF Matches

\* A request is sent, read, and answered: the count stays right.
LEMMA MatchSend ==
    ASSUME NEW T, NEW a \in Seq(T), NEW x \in T, NEW r \in Seq(Reply), NEW o \in Int
    PROVE  Matches(o, a, r) => Matches(o + 1, Append(a, x), r)
<1>1. Len(Append(a, x)) = Len(a) + 1 /\ Len(a) \in Nat
  OBVIOUS
<1>2. Cardinality(Counted(r)) \in Nat
  BY CountFinite
<1>. QED
  BY <1>1, <1>2 DEF Matches

LEMMA MatchTake ==
    ASSUME NEW T, NEW a \in Seq(T), a # <<>>, NEW x \in {"added", "removed"},
           NEW r \in Seq(Reply), NEW o \in Int
    PROVE  Matches(o, a, r) => Matches(o, Tail(a), Append(r, x))
<1>1. Len(Tail(a)) = Len(a) - 1 /\ Len(a) \in Nat
  OBVIOUS
<1>2. Cardinality(Counted(r)) \in Nat
  BY CountFinite
<1>3. Cardinality(Counted(Append(r, x))) = Cardinality(Counted(r)) + 1
  <2>1. x \in Reply
    BY DEF Reply
  <2>. QED
    BY <2>1, CountMore
<1>. QED
  BY <1>1, <1>2, <1>3 DEF Matches

LEMMA MatchTell ==
    ASSUME NEW a, NEW r \in Seq(Reply), NEW o
    PROVE  Matches(o, a, r) => Matches(o, a, Append(r, "snapshot"))
<1>1. "snapshot" \in Reply /\ Cardinality(Counted(r)) \in Nat
  BY CountFinite DEF Reply
<1>2. Cardinality(Counted(Append(r, "snapshot"))) = Cardinality(Counted(r))
  <2>1. Cardinality(Counted(Append(r, "snapshot"))) =
            Cardinality(Counted(r)) + (IF "snapshot" \in {"added", "removed"} THEN 1 ELSE 0)
    BY <1>1, CountMore
  <2>. QED
    BY <1>1, <2>1
<1>. QED
  BY <1>2 DEF Matches

LEMMA MatchRead ==
    ASSUME NEW T, NEW a \in Seq(T), NEW r \in Seq(Reply), r # <<>>, NEW o \in Int
    PROVE  Matches(o, a, r) =>
               /\ Head(r) \in {"added", "removed"} => Matches(o - 1, a, Tail(r))
               /\ Head(r) = "snapshot" => Matches(o, a, Tail(r))
<1>1. Tail(r) \in Seq(Reply) /\ Len(a) \in Nat
  OBVIOUS
<1>2. Cardinality(Counted(Tail(r))) \in Nat
  BY <1>1, CountFinite
<1>3. Cardinality(Counted(r)) = Cardinality(Counted(Tail(r))) +
                  (IF Head(r) \in {"added", "removed"} THEN 1 ELSE 0)
  BY CountLess
<1>. QED
  BY <1>1, <1>2, <1>3 DEF Matches

\* RequestsMatch, in these words.
LEMMA TheMatch ==
    RequestsMatch <=> (~refused => Matches(watch.outstanding, watch.asked, watch.replies))
  BY DEF RequestsMatch, Matches

-----------------------------------------------------------------------------
(***************************************************************************)
(* The steps of the stream and of the timer.                               *)
(***************************************************************************)

\* Those who wait for their first event.
Waits(m) == Range(m.listeners) \ m.raised

\* The invariant of the stream, of the values a step computes with.
StreamGood(m, t, s, r, o) ==
    /\ t.timer => m.online = "Unknown" /\ ~t.failed
    /\ m.online = "Online" => ~t.failed
    /\ s.state = "stopped" => ~t.timer /\ m.listeners = <<>>
    /\ s.idle => s.state = "open" /\ m.listeners = <<>>
    /\ Waits(m) # {} =>
        /\ ~m.synced /\ m.online # "Offline" /\ s.state # "stopped"
        /\ m.online = "Unknown" => t.timer \/ o
    /\ ~r => Matches(s.outstanding, s.asked, s.replies)
    /\ s.state # "open" => s = Stream(s.state)
    /\ s.state = "stopped" => m.online = "Unknown" /\ t = Settled
    /\ s.state # "stopped" /\ m.online = "Unknown" => t.timer \/ o
    /\ "refused" \in Range(s.replies) => r

\* The invariant of the stream, in these words.
LEMMA StreamWords == StreamFit <=> StreamGood(manager, tracker, watch, refused, orphan)
<1>1. Waiting = Waits(manager)
  BY DEF Waiting, Waits, Listening
<1>. QED
  BY <1>1, TheMatch
  DEF StreamFit, StreamGood, NoAssertFails, WaitsForGoodReason, StreamKnown

\* The tracker, after each of its handlers.
LEMMA TrackerFields ==
    /\ Settled \in Tracker /\ ~Settled.timer /\ ~Settled.failed
    /\ \A t \in Tracker : /\ Started(t) \in Tracker /\ Failed(t) \in Tracker
                          /\ Started(t).failed = t.failed
                          /\ Started(t).timer <=> t.timer \/ ~t.failed
                          /\ ~Failed(t).timer /\ Failed(t).failed
                          /\ t.timer \in BOOLEAN /\ t.failed \in BOOLEAN
                          /\ [t EXCEPT !.timer = FALSE] \in Tracker
                          /\ ~[t EXCEPT !.timer = FALSE].timer
                          /\ [t EXCEPT !.timer = FALSE].failed = t.failed
  BY DEF Settled, Tracker, Started, Failed

\* What the invariant of the stream is needed for.
Ordered(m) ==
    /\ m \in Manager /\ Rising(m.listeners) /\ m.raised \subseteq Range(m.listeners)
    /\ m.synced => Waits(m) = {}
    /\ m.online = "Offline" => Waits(m) = {}

\* The invariant orders the manager.
LEMMA ManagerOrdered ==
    ASSUME TypeOK, StreamFit, CallsFit
    PROVE  Ordered(manager)
<1>1. StreamGood(manager, tracker, watch, refused, orphan)
  BY StreamWords
<1>2. Rising(manager.listeners) /\ manager.raised \subseteq Range(manager.listeners)
  BY Parts DEF ListenersFit, Listening
<1>. QED
  BY <1>1, <1>2, Types DEF Ordered, StreamGood

\* Broadcast tells all who wait when it brings bad news, and else nobody.
Broadcasted(m, b, state, n) ==
    /\ b \in Manager /\ Told(m, b, n)
    /\ b.listeners = m.listeners /\ b.online = state
    /\ b.synced => m.synced
    /\ Waits(b) \subseteq Waits(m)
    /\ state = "Offline" => Waits(b) = {}
    /\ state # "Offline" => /\ b.raised = m.raised /\ b.events = m.events
                            /\ b.synced = m.synced

\* applyChangedOnlineState does so.
LEMMA BroadcastResult ==
    ASSUME NEW m, NEW n \in Nat, NEW state \in {"Unknown", "Online", "Offline"}, Ordered(m)
    PROVE  Broadcasted(m, Broadcast(m, state, n), state, n)
<1>. DEFINE b == Broadcast(m, state, n)
<1>1. m \in Manager /\ Rising(m.listeners) /\ m.raised \subseteq Range(m.listeners)
  BY DEF Ordered
<1>2. m.synced => Range(m.listeners) \ m.raised = {}
  BY DEF Ordered, Waits
<1>3. PICK cs : Broadcasts(m, b, state, cs, n)
  BY <1>1, <1>2, BroadcastFacts
<1>. HIDE DEF b
<1>4. Told(m, b, n)
  BY <1>3, BroadcastsTell
<1>5. Posts(m, b, cs, "snapshot", n)
  BY <1>3 DEF Broadcasts
<1>6. b \in Manager /\ b.listeners = m.listeners /\ b.raised = m.raised \cup Range(cs)
  BY <1>5 DEF Posts
<1>7. b.online = state /\ b.synced = (m.synced /\ (state # "Offline" \/ m.online = "Offline"))
  BY <1>3 DEF Broadcasts
<1>8. Waits(b) \subseteq Waits(m)
  BY <1>6 DEF Waits
<1>9. ASSUME state = "Offline" PROVE Waits(b) = {}
  <2>1. m.online = "Offline" => Waits(b) = {}
    BY <1>8 DEF Ordered
  <2>2. m.online # "Offline" => Waits(m) \subseteq Range(cs)
    BY <1>3, <1>9 DEF Broadcasts, Waits
  <2>. QED
    BY <1>6, <2>1, <2>2 DEF Waits
<1>10. ASSUME state # "Offline"
       PROVE  b.raised = m.raised /\ b.events = m.events /\ b.synced = m.synced
  <2>1. cs = <<>>
    BY <1>3, <1>10 DEF Broadcasts
  <2>2. Posts(m, m, <<>>, "snapshot", n)
    BY <1>1, PostNothing
  <2>3. b.raised = m.raised /\ b.events = m.events
    BY <1>5, <2>1, <2>2 DEF Posts
  <2>4. m.synced \in BOOLEAN
    BY <1>1, ManagerFields
  <2>. QED
    BY <1>7, <1>10, <2>3, <2>4
<1>11. b.synced => m.synced
  BY <1>7
<1>. QED
  BY <1>4, <1>6, <1>7, <1>8, <1>9, <1>10, <1>11 DEF Broadcasted, b

\* A step that keeps the calls keeps their types.
LEMMA KeptTypes ==
    ASSUME TypeOK, Kept, manager' \in Manager, tracker' \in Tracker, watch' \in Watch,
           changes' \in Nat, faults' \in Nat, refused' \in BOOLEAN, orphan' \in BOOLEAN
    PROVE  TypeOK'
  BY DEF TypeOK, Kept, app, calls

\* The main queue is to hear the same news of some calls.
Hears ==
    \E cs \in Seq(Calls), type \in {"snapshot", "error"} :
        Extended(manager'.events, manager.events, cs, type, stored')

\* No news.
LEMMA NothingHeard ==
    ASSUME TypeOK, manager'.events = manager.events, stored' \in Nat
    PROVE  Hears
<1>1. manager \in Manager /\ <<>> \in Seq(Calls)
  BY Types
<1>2. Posts(manager, manager, <<>>, "snapshot", stored')
  BY <1>1, PostNothing
<1>3. Extended(manager.events, manager.events, <<>>, "snapshot", stored')
  BY <1>1, <1>2, PostsExtend
<1>. QED
  BY <1>1, <1>3 DEF Hears

\* A snapshot is news.
LEMMA SnapshotHeard ==
    ASSUME TypeOK, stored' \in Nat, Told(manager, manager', stored')
    PROVE  Hears
<1>1. manager \in Manager
  BY Types
<1>2. PICK cs \in Seq(Calls) : Posts(manager, manager', cs, "snapshot", stored')
  BY DEF Told
<1>3. Extended(manager'.events, manager.events, cs, "snapshot", stored')
  BY <1>1, <1>2, PostsExtend
<1>. QED
  BY <1>3 DEF Hears

\* What is left to show of a step of the stream.
LEMMA StreamStep ==
    ASSUME IInv, Kept, Told(manager, manager', stored), manager' \in Manager,
           tracker' \in Tracker, watch' \in Watch,
           changes' \in Nat, faults' \in Nat, refused' \in BOOLEAN, orphan' \in BOOLEAN,
           StreamGood(manager', tracker', watch', refused', orphan')
    PROVE  IInv' /\ Hears
<1>1. TypeOK /\ StreamFit /\ CallsFit
  BY TheInvariant
<1>2. TypeOK'
  BY <1>1, KeptTypes
<1>3. CallsFit'
  BY <1>1, ToldStep
<1>4. StreamFit'
  <2>1. StreamGood(manager, tracker, watch, refused, orphan)'
    OBVIOUS
  <2>. QED
    BY <2>1, StreamWords, PTL
<1>5. IInv'
  BY <1>2, <1>3, <1>4, TheInvariant, PTL
<1>6. stored' = stored /\ stored \in Nat
  BY <1>1, Types DEF Kept
<1>7. Hears
  BY <1>1, <1>6, SnapshotHeard
<1>. QED
  BY <1>5, <1>7

\* What every step starts from.
LEMMA Start ==
    ASSUME IInv
    PROVE  /\ TypeOK /\ StreamFit /\ CallsFit
           /\ StreamGood(manager, tracker, watch, refused, orphan)
           /\ Ordered(manager)
           /\ stored \in Nat /\ manager \in Manager /\ tracker \in Tracker /\ watch \in Watch
           /\ changes \in Nat /\ faults \in Nat /\ refused \in BOOLEAN /\ orphan \in BOOLEAN
           /\ manager.listeners \in Seq(Calls)
<1>1. TypeOK /\ StreamFit /\ CallsFit
  BY TheInvariant
<1>. QED
  BY <1>1, StreamWords, ManagerOrdered, Types DEF TypeOK

\* The ten seconds are over.
LEMMA TimerStep == ASSUME IInv, TimerFires PROVE IInv' /\ Hears
<1>1. StreamGood(manager, tracker, watch, refused, orphan)
  BY Start
<1>2. Broadcasted(manager, manager', "Offline", stored)
  BY Start, BroadcastResult DEF TimerFires
<1>3. /\ tracker' \in Tracker /\ ~tracker'.timer /\ tracker'.failed = tracker.failed
      /\ tracker.timer
  BY Start, TrackerFields DEF TimerFires
<1>4. StreamGood(manager', tracker', watch, refused, orphan)
  BY <1>1, <1>2, <1>3 DEF StreamGood, Broadcasted
<1>5. /\ Kept /\ watch' = watch /\ changes' = changes /\ faults' = faults
      /\ refused' = refused /\ orphan' = orphan
  BY DEF TimerFires, Kept, bounds
<1>. QED
  BY <1>2, <1>3, <1>4, <1>5, Start, StreamStep DEF Broadcasted

\* A fresh stream, with or without a request.
LEMMA FreshStream ==
    ASSUME NEW state \in {"stopped", "starting", "open"}
    PROVE  /\ Matches(Stream(state).outstanding, Stream(state).asked, Stream(state).replies)
           /\ Stream(state) \in Watch /\ Stream(state).state = state /\ ~Stream(state).idle
           /\ Range(Stream(state).replies) = {}
<1>1. Range(<<>>) = {}
  BY DEF Range
<1>. QED
  BY <1>1, StreamFields, MatchFresh

\* A request.
LEMMA Sent ==
    ASSUME NEW s \in Watch, NEW r \in {"watch", "unwatch"}
    PROVE  /\ Matches(s.outstanding, s.asked, s.replies) =>
                  Matches(Send(s, r).outstanding, Send(s, r).asked, Send(s, r).replies)
           /\ Send(s, r) \in Watch /\ Send(s, r).state = s.state /\ ~Send(s, r).idle
           /\ Range(Send(s, r).replies) = Range(s.replies)
<1>1. s.asked \in Seq({"watch", "unwatch"}) /\ s.outstanding \in Int /\ s.replies \in Seq(Reply)
  BY WatchFields
<1>2. Matches(s.outstanding, s.asked, s.replies) =>
          Matches(s.outstanding + 1, Append(s.asked, r), s.replies)
  BY <1>1, MatchSend
<1>. QED
  BY <1>2, SendFields

\* OnWatchStreamOpen.
LEMMA OpenStep == ASSUME IInv, StreamOpens PROVE IInv' /\ Hears
<1>1. StreamGood(manager, tracker, watch, refused, orphan)
  BY Start
<1>2. /\ watch' \in Watch /\ watch'.state = "open" /\ ~watch'.idle
      /\ Range(watch'.replies) = {}
      /\ Matches(watch'.outstanding, watch'.asked, watch'.replies)
  <2>1. CASE manager.listeners = <<>>
    BY <2>1, FreshStream DEF StreamOpens
  <2>2. CASE manager.listeners # <<>>
    BY <2>2, FreshStream, Sent DEF StreamOpens
  <2>. QED
    BY <2>1, <2>2
<1>3. StreamGood(manager, tracker, watch', refused, orphan)
  BY <1>1, <1>2 DEF StreamGood, StreamOpens
<1>4. /\ Kept /\ UNCHANGED <<manager, tracker, changes, faults, refused, orphan>>
  BY DEF StreamOpens, Kept, bounds
<1>5. Told(manager, manager', stored)
  BY <1>4, Start, SameTold
<1>. QED
  BY <1>2, <1>3, <1>4, <1>5, Start, StreamStep

\* OnWatchStreamClose.
LEMMA FailStep == ASSUME IInv, StreamFails PROVE IInv' /\ Hears
<1>1. StreamGood(manager, tracker, watch, refused, orphan) /\ Ordered(manager)
  BY Start
<1>2. /\ Kept /\ changes' = changes /\ faults' \in Nat /\ refused' = FALSE /\ orphan' = FALSE
  BY Start DEF StreamFails, Kept
<1>3. CASE /\ manager.listeners # <<>> /\ manager.online = "Online"
           /\ manager' = Broadcast(manager, "Unknown", stored)
           /\ tracker' = Started(tracker)
           /\ watch' = Stream("starting")
  <2>1. Broadcasted(manager, manager', "Unknown", stored)
    BY <1>1, <1>3, Start, BroadcastResult
  <2>2. /\ tracker' \in Tracker /\ tracker'.failed = tracker.failed
        /\ tracker'.timer <=> tracker.timer \/ ~tracker.failed
    BY <1>3, Start, TrackerFields
  <2>3. /\ watch' \in Watch /\ watch' = Stream(watch'.state) /\ watch'.state = "starting"
        /\ ~watch'.idle /\ Range(watch'.replies) = {}
        /\ Matches(watch'.outstanding, watch'.asked, watch'.replies)
    BY <1>3, FreshStream
  <2>4. StreamGood(manager', tracker', watch', FALSE, FALSE)
    BY <1>1, <1>3, <2>1, <2>2, <2>3 DEF StreamGood, Broadcasted
  <2>. QED
    BY <1>2, <2>1, <2>2, <2>3, <2>4, Start, StreamStep DEF Broadcasted
<1>4. CASE /\ manager.listeners # <<>> /\ manager.online # "Online"
           /\ manager' = Broadcast(manager, "Offline", stored)
           /\ tracker' = Failed(tracker)
           /\ watch' = Stream("starting")
  <2>1. Broadcasted(manager, manager', "Offline", stored)
    BY <1>1, <1>4, Start, BroadcastResult
  <2>2. tracker' \in Tracker /\ ~tracker'.timer
    BY <1>4, Start, TrackerFields
  <2>3. /\ watch' \in Watch /\ watch' = Stream(watch'.state) /\ watch'.state = "starting"
        /\ ~watch'.idle /\ Range(watch'.replies) = {}
        /\ Matches(watch'.outstanding, watch'.asked, watch'.replies)
    BY <1>4, FreshStream
  <2>4. StreamGood(manager', tracker', watch', FALSE, FALSE)
    BY <1>1, <1>4, <2>1, <2>2, <2>3 DEF StreamGood, Broadcasted
  <2>. QED
    BY <1>2, <2>1, <2>2, <2>3, <2>4, Start, StreamStep DEF Broadcasted
<1>5. CASE /\ manager.listeners = <<>>
           /\ manager' = Broadcast(manager, "Unknown", stored)
           /\ tracker' = Settled
           /\ watch' = Stream("stopped")
  <2>1. Broadcasted(manager, manager', "Unknown", stored)
    BY <1>1, <1>5, Start, BroadcastResult
  <2>2. tracker' = Settled /\ tracker' \in Tracker /\ ~tracker'.timer /\ ~tracker'.failed
    BY <1>5, TrackerFields
  <2>3. /\ watch' \in Watch /\ watch' = Stream(watch'.state) /\ watch'.state = "stopped"
        /\ ~watch'.idle /\ Range(watch'.replies) = {}
        /\ Matches(watch'.outstanding, watch'.asked, watch'.replies)
    BY <1>5, FreshStream
  <2>4. Waits(manager) = {}
    BY <1>5, Start, NoMembers DEF Waits
  <2>5. StreamGood(manager', tracker', watch', FALSE, FALSE)
    BY <1>1, <1>5, <2>1, <2>2, <2>3, <2>4 DEF StreamGood, Broadcasted
  <2>. QED
    BY <1>2, <2>1, <2>2, <2>3, <2>5, Start, StreamStep DEF Broadcasted
<1>. QED
  BY <1>3, <1>4, <1>5 DEF StreamFails

\* A minute without a target.
LEMMA IdleStep == ASSUME IInv, IdleCloses PROVE IInv' /\ Hears
<1>1. StreamGood(manager, tracker, watch, refused, orphan) /\ Ordered(manager)
  BY Start
<1>2. /\ Kept /\ UNCHANGED <<changes, faults>> /\ refused' = FALSE /\ orphan' = FALSE
  BY DEF IdleCloses, Kept, bounds
<1>3. Broadcasted(manager, manager', "Unknown", stored)
  BY <1>1, Start, BroadcastResult DEF IdleCloses
<1>4. tracker' = Settled /\ tracker' \in Tracker /\ ~tracker'.timer /\ ~tracker'.failed
  BY TrackerFields DEF IdleCloses
<1>5. /\ watch' \in Watch /\ watch' = Stream(watch'.state) /\ watch'.state = "stopped"
      /\ ~watch'.idle /\ Range(watch'.replies) = {}
      /\ Matches(watch'.outstanding, watch'.asked, watch'.replies)
  BY FreshStream DEF IdleCloses
<1>6. manager.listeners = <<>>
  BY <1>1 DEF StreamGood, IdleCloses
<1>7. Waits(manager) = {}
  BY <1>6, Start, NoMembers DEF Waits
<1>8. StreamGood(manager', tracker', watch', FALSE, FALSE)
  BY <1>3, <1>4, <1>5, <1>6, <1>7 DEF StreamGood, Broadcasted
<1>. QED
  BY <1>2, <1>3, <1>4, <1>5, <1>8, Start, StreamStep DEF Broadcasted

\* A stream of which something has come, or is to come, is open.
LEMMA SomethingOpen ==
    ASSUME StreamGood(manager, tracker, watch, refused, orphan), watch \in Watch,
           watch.asked # <<>> \/ watch.replies # <<>> \/ watch.server # "none"
    PROVE  watch.state = "open"
<1>1. ASSUME watch.state # "open" PROVE FALSE
  <2>1. watch = Stream(watch.state) /\ watch.state \in {"stopped", "starting", "open"}
    BY <1>1, WatchFields DEF StreamGood
  <2>2. Stream(watch.state).asked = <<>> /\ Stream(watch.state).replies = <<>>
        /\ Stream(watch.state).server = "none"
    BY <2>1, StreamFields
  <2>. QED
    BY <2>1, <2>2
<1>. QED
  BY <1>1

\* The stream s after one more reply, and what that changes.
Replied(s, a, server, r) ==
    [s EXCEPT !.asked = a, !.server = server, !.replies = Append(@, r)]
OneMore(t, s, a, r) ==
    /\ t \in Watch /\ t.state = s.state /\ t.idle = s.idle /\ t.asked = a
    /\ t.outstanding = s.outstanding /\ t.replies = Append(s.replies, r)
    /\ Range(t.replies) = Range(s.replies) \cup {r}

\* The fields of the stream after one more reply.
LEMMA ReplyFields ==
    ASSUME NEW s \in Watch, NEW a \in Seq({"watch", "unwatch"}), NEW r \in Reply,
           NEW server \in {"none", "watching", "told"}
    PROVE  OneMore(Replied(s, a, server, r), s, a, r)
<1>. DEFINE t == Replied(s, a, server, r)
<1>1. s.replies \in Seq(Reply) /\ Append(s.replies, r) \in Seq(Reply)
  BY WatchFields
<1>2. Range(Append(s.replies, r)) = Range(s.replies) \cup {r}
  BY <1>1, AppendNumber
<1>3. t \in Watch
  BY <1>1 DEF Watch, Reply, Replied
<1>4. /\ t.state = s.state /\ t.idle = s.idle /\ t.asked = a
      /\ t.outstanding = s.outstanding /\ t.replies = Append(s.replies, r)
  BY DEF Watch, Replied
<1>. QED
  BY <1>2, <1>3, <1>4 DEF OneMore

\* The server reads a request.
LEMMA TakeStep == ASSUME IInv, ServerTakes PROVE IInv' /\ Hears
<1>1. StreamGood(manager, tracker, watch, refused, orphan) /\ watch.state = "open"
  BY Start, SomethingOpen DEF ServerTakes
<1>2. /\ Kept /\ UNCHANGED <<manager, tracker, changes, orphan>>
      /\ watch.asked # <<>>
  BY DEF ServerTakes, Kept
<1>3. Told(manager, manager', stored)
  BY <1>2, Start, SameTold
<1>4. /\ watch.asked \in Seq({"watch", "unwatch"}) /\ Tail(watch.asked) \in Seq({"watch", "unwatch"})
      /\ watch.replies \in Seq(Reply) /\ watch.outstanding \in Int
  <2>1. watch.asked \in Seq({"watch", "unwatch"}) /\ watch.replies \in Seq(Reply)
        /\ watch.outstanding \in Int
    BY Start, WatchFields
  <2>2. \A T : \A q \in Seq(T) : q # <<>> => Tail(q) \in Seq(T)
    OBVIOUS
  <2>. QED
    BY <1>2, <2>1, <2>2
<1>5. ASSUME NEW r \in {"added", "removed"}, NEW server \in {"none", "watching"},
             watch' = [watch EXCEPT !.asked = Tail(@), !.server = server,
                                    !.replies = Append(@, r)],
             UNCHANGED <<faults, refused>>
      PROVE  IInv' /\ Hears
  <2>0. watch' = Replied(watch, Tail(watch.asked), server, r) /\ r \in Reply
    BY <1>5 DEF Replied, Reply
  <2>1. /\ watch' \in Watch /\ watch'.state = "open" /\ watch'.idle = watch.idle
        /\ watch'.asked = Tail(watch.asked) /\ watch'.replies = Append(watch.replies, r)
        /\ watch'.outstanding = watch.outstanding
        /\ Range(watch'.replies) = Range(watch.replies) \cup {r}
    <3>1. OneMore(watch', watch, Tail(watch.asked), r)
      BY <1>4, <2>0, Start, ReplyFields
    <3>. QED
      BY <1>1, <3>1 DEF OneMore
  <2>2. Matches(watch.outstanding, watch.asked, watch.replies) =>
            Matches(watch'.outstanding, watch'.asked, watch'.replies)
    BY <1>2, <1>4, <2>1, MatchTake
  <2>3. StreamGood(manager, tracker, watch', refused, orphan)
    BY <1>1, <2>1, <2>2 DEF StreamGood
  <2>. QED
    BY <1>2, <1>3, <1>5, <2>1, <2>3, Start, StreamStep
<1>6. ASSUME watch' = [watch EXCEPT !.asked = Tail(@), !.server = "none",
                                    !.replies = Append(@, "refused")],
             faults' = faults + 1, refused' = TRUE
      PROVE  IInv' /\ Hears
  <2>0. watch' = Replied(watch, Tail(watch.asked), "none", "refused") /\ "refused" \in Reply
    BY <1>6 DEF Replied, Reply
  <2>1. /\ watch' \in Watch /\ watch'.state = "open" /\ watch'.idle = watch.idle
    <3>1. OneMore(watch', watch, Tail(watch.asked), "refused")
      BY <1>4, <2>0, Start, ReplyFields
    <3>. QED
      BY <1>1, <3>1 DEF OneMore
  <2>2. StreamGood(manager, tracker, watch', TRUE, orphan)
    BY <1>1, <2>1 DEF StreamGood
  <2>3. faults' \in Nat
    BY <1>6, Start
  <2>. QED
    BY <1>2, <1>3, <1>6, <2>1, <2>2, <2>3, Start, StreamStep
<1>. QED
  BY <1>5, <1>6 DEF ServerTakes

\* The server has sent all of the collection, or news of it.
LEMMA SnapshotStep == ASSUME IInv, ServerSnapshot PROVE IInv' /\ Hears
<1>1. StreamGood(manager, tracker, watch, refused, orphan) /\ watch.state = "open"
  BY Start, SomethingOpen DEF ServerSnapshot
<1>2. /\ Kept /\ UNCHANGED <<manager, tracker, faults, refused, orphan>>
  BY DEF ServerSnapshot, Kept
<1>3. changes' \in Nat
  BY Start DEF ServerSnapshot
<1>4. Told(manager, manager', stored)
  BY <1>2, Start, SameTold
<1>5. /\ watch.asked \in Seq({"watch", "unwatch"})
      /\ watch.replies \in Seq(Reply) /\ watch.outstanding \in Int
  BY Start, WatchFields
<1>6. watch' = Replied(watch, watch.asked, "told", "snapshot") /\ "snapshot" \in Reply
  BY Start DEF ServerSnapshot, Watch, Replied, Reply
<1>7. /\ watch' \in Watch /\ watch'.state = "open" /\ watch'.idle = watch.idle
      /\ watch'.asked = watch.asked /\ watch'.replies = Append(watch.replies, "snapshot")
      /\ watch'.outstanding = watch.outstanding
      /\ Range(watch'.replies) = Range(watch.replies) \cup {"snapshot"}
  <2>1. OneMore(watch', watch, watch.asked, "snapshot")
    BY <1>5, <1>6, Start, ReplyFields
  <2>. QED
    BY <1>1, <2>1 DEF OneMore
<1>8. Matches(watch.outstanding, watch.asked, watch.replies) =>
          Matches(watch'.outstanding, watch'.asked, watch'.replies)
  BY <1>5, <1>7, MatchTell
<1>9. StreamGood(manager, tracker, watch', refused, orphan)
  BY <1>1, <1>7, <1>8 DEF StreamGood
<1>. QED
  BY <1>2, <1>3, <1>4, <1>7, <1>9, Start, StreamStep

\* The stream s after the client has read a reply; o is its count then.
Read(s, o) == [s EXCEPT !.replies = Tail(@), !.outstanding = o]
OneLess(t, s, o) ==
    /\ t \in Watch /\ t.state = s.state /\ t.idle = s.idle /\ t.asked = s.asked
    /\ t.outstanding = o /\ t.replies = Tail(s.replies)
    /\ Range(t.replies) \subseteq Range(s.replies)

\* The fields of the stream after it has read one.
LEMMA ReadFields ==
    ASSUME NEW s \in Watch, s.replies # <<>>, NEW o \in Int
    PROVE  OneLess(Read(s, o), s, o)
<1>. DEFINE t == Read(s, o)
<1>1. s.replies \in Seq(Reply)
  BY WatchFields
<1>2. Tail(s.replies) \in Seq(Reply) /\ Range(Tail(s.replies)) \subseteq Range(s.replies)
  BY <1>1, CountLess
<1>3. t \in Watch
  BY <1>2 DEF Watch, Reply, Read
<1>4. /\ t.state = s.state /\ t.idle = s.idle /\ t.asked = s.asked
      /\ t.outstanding = o /\ t.replies = Tail(s.replies)
  BY DEF Watch, Read
<1>. QED
  BY <1>2, <1>3, <1>4 DEF OneLess

\* The server refuses: an error for everybody, and nobody listens any more.
LEMMA ErrorStep ==
    ASSUME TypeOK, CallsFit, Kept,
           Extended(manager'.events, manager.events, manager.listeners, "error", stored),
           manager'.listeners = <<>>, manager'.raised = {}
    PROVE  CallsFit'
<1>. DEFINE E == manager.events  F == manager'.events
<1>1. Extended(F, E, manager.listeners, "error", stored)
  OBVIOUS
<1>. HIDE DEF E, F
<1>2. Range(manager.listeners) = Listening /\ Rising(manager.listeners)
  BY Parts DEF Listening
<1>3. /\ ListenersFit({}, {}, Open, Joined, AnsweredOf(F))
      /\ EventsFit(F, {}, Open, Joined, stored)
  BY <1>1, <1>2, Parts, Types, ErrorPosted DEF E
<1>4. DoneFit(Len(completed), calls, muted, {}, Joined, AnsweredOf(F))
  <2>1. AnsweredOf(F) = AnsweredOf(E) \cup Listening
    BY <1>1, <1>2 DEF Extended
  <2>2. DoneFit(Len(completed), calls, muted, Listening, Joined, AnsweredOf(E))
    BY Parts DEF E
  <2>. QED
    BY <2>1, <2>2 DEF DoneFit
<1>5. Rising(<<>>) /\ Range(<<>>) = {}
  <2>1. DOMAIN (<<>>) = {}
    OBVIOUS
  <2>. QED
    BY <2>1 DEF Rising, Range
<1>6. /\ calls' = calls /\ Joined' = Joined /\ Open' = Open /\ Listening' = {}
      /\ Answered' = AnsweredOf(F) /\ completed' = completed
      /\ known' = known /\ written' = written /\ muted' = muted /\ stored' = stored /\ tasks' = tasks
  BY <1>5 DEF Kept, app, calls, Joined, Open, Listening, Answered, AnsweredOf, F
<1>. QED
  BY <1>3, <1>4, <1>5, <1>6 DEF CallsFit, F

\* A snapshot of a view in sync is for everybody.
LEMMA InSync ==
    ASSUME NEW m, NEW b, NEW p, NEW n \in Nat, Ordered(m), Broadcasted(m, b, "Online", n),
           p = Deliver([b EXCEPT !.synced = TRUE], n)
    PROVE  /\ p \in Manager /\ Told(m, p, n) /\ p.listeners = m.listeners
           /\ p.online = "Online" /\ Waits(p) = {}
<1>. DEFINE q == [b EXCEPT !.synced = TRUE]
<1>1. m \in Manager /\ b \in Manager /\ Rising(m.listeners)
  BY DEF Ordered, Broadcasted
<1>2. /\ q \in Manager /\ q.listeners = b.listeners /\ q.raised = b.raised /\ q.synced
      /\ q.online = b.online /\ q.events = b.events
  BY <1>1 DEF Manager
<1>3. /\ q.listeners = m.listeners /\ q.raised = m.raised /\ q.online = "Online"
      /\ q.events = m.events
  BY <1>2 DEF Broadcasted
<1>4. p = Deliver(q, n)
  OBVIOUS
<1>. HIDE DEF q
<1>5. PICK cs \in Seq(Calls) :
          /\ Posts(q, Deliver(q, n), cs, "snapshot", n) /\ Rising(cs)
          /\ Range(cs) = Range(q.listeners) \cap
                             (IF Ready(q) THEN Range(q.listeners) ELSE q.raised)
          /\ Deliver(q, n).synced = q.synced /\ Deliver(q, n).online = q.online
  BY <1>1, <1>2, <1>3, DeliverFacts
<1>6. Posts(q, p, cs, "snapshot", n) /\ p.online = "Online"
  BY <1>3, <1>4, <1>5
<1>7. Range(cs) = Range(m.listeners)
  BY <1>2, <1>3, <1>5 DEF Ready
<1>8. Posts(m, p, cs, "snapshot", n)
  BY <1>3, <1>6 DEF Posts
<1>9. Told(m, p, n)
  BY <1>5, <1>7, <1>8 DEF Told
<1>10. p \in Manager /\ p.listeners = m.listeners /\ Waits(p) = {}
  BY <1>7, <1>8 DEF Posts, Waits
<1>. QED
  BY <1>6, <1>9, <1>10

\* The refusal, as the manager takes it.
Refuse(b, n) == [Post(b, b.listeners, "error", n)
                   EXCEPT !.listeners = <<>>, !.raised = {}, !.synced = FALSE]

\* It empties the listeners, and everybody hears the error.
LEMMA Refusal ==
    ASSUME NEW m, NEW b, NEW p, NEW n \in Nat, Ordered(m), Broadcasted(m, b, "Online", n),
           p = Refuse(b, n)
    PROVE  /\ p \in Manager /\ p.listeners = <<>> /\ p.raised = {} /\ p.online = "Online"
           /\ Extended(p.events, m.events, m.listeners, "error", n)
<1>. DEFINE q == Post(b, b.listeners, "error", n)
<1>1. m \in Manager /\ b \in Manager /\ m.listeners \in Seq(Calls)
  BY ManagerFields DEF Ordered, Broadcasted
<1>2. b.listeners = m.listeners /\ b.events = m.events /\ b.online = "Online"
  BY DEF Broadcasted
<1>3. Posts(b, q, m.listeners, "error", n) /\ q.online = b.online
  BY <1>1, <1>2, PostFacts
<1>4. Extended(q.events, b.events, m.listeners, "error", n) /\ q \in Manager
  BY <1>1, <1>3, PostsExtend DEF Posts
<1>5. p = With(q, <<>>, {}, FALSE)
  BY DEF Refuse, With
<1>. HIDE DEF q
<1>6. <<>> \in Seq(Calls) /\ {} \in SUBSET Calls /\ FALSE \in BOOLEAN
  OBVIOUS
<1>7. /\ p \in Manager /\ p.listeners = <<>> /\ p.raised = {} /\ p.online = q.online
      /\ p.events = q.events
  <2>1. q \in Manager
    BY <1>4
  <2>2. PICK l \in Seq(Calls), r \in SUBSET Calls, y \in BOOLEAN :
            l = <<>> /\ r = {} /\ y = FALSE
    BY <1>6, Zenon
  <2>3. p = With(q, l, r, y)
    BY <1>5, <2>2
  <2>4. p \in Manager /\ p.listeners = l /\ p.raised = r /\ p.online = q.online /\ p.events = q.events
    BY <2>1, <2>3, ManagerWith
  <2>. QED
    BY <2>2, <2>4
<1>. QED
  BY <1>2, <1>3, <1>4, <1>7

\* OnWatchStreamChange.
LEMMA ReceiveStep == ASSUME IInv, Receive PROVE IInv' /\ Hears
<1>. DEFINE reply == Head(watch.replies)
            b == Broadcast(manager, "Online", stored)
<1>1. /\ StreamGood(manager, tracker, watch, refused, orphan) /\ Ordered(manager)
      /\ watch.state = "open" /\ watch.replies # <<>>
  BY Start, SomethingOpen DEF Receive
<1>2. /\ Kept /\ UNCHANGED <<changes, faults, refused>> /\ orphan' = FALSE
      /\ tracker' = Settled
  BY DEF Receive, Kept, bounds
<1>3. tracker' \in Tracker /\ ~tracker'.timer /\ ~tracker'.failed
  BY <1>2, TrackerFields
<1>4. /\ watch.asked \in Seq({"watch", "unwatch"})
      /\ watch.replies \in Seq(Reply) /\ watch.outstanding \in Int
  BY Start, WatchFields
<1>5. reply \in Range(watch.replies) /\ (reply = "refused" => refused)
  <2>1. reply \in Range(watch.replies)
    BY <1>1, <1>4, CountLess
  <2>. QED
    BY <1>1, <2>1 DEF StreamGood
<1>6. Broadcasted(manager, b, "Online", stored)
  BY <1>1, Start, BroadcastResult
<1>7. /\ Matches(watch.outstanding, watch.asked, watch.replies) =>
             /\ reply \in {"added", "removed"} =>
                    Matches(watch.outstanding - 1, watch.asked, Tail(watch.replies))
             /\ reply = "snapshot" =>
                    Matches(watch.outstanding, watch.asked, Tail(watch.replies))
  BY <1>1, <1>4, MatchRead
<1>. HIDE DEF reply, b
<1>8. ASSUME NEW o \in Int, watch' = Read(watch, o), manager' \in Manager,
             manager'.online = "Online", manager'.listeners \in {manager.listeners, <<>>},
             Waits(manager') \subseteq Waits(manager), manager'.synced => Waits(manager') = {},
             \/ reply \in {"added", "removed"} /\ o = watch.outstanding - 1
             \/ reply = "snapshot" /\ o = watch.outstanding
             \/ reply = "refused"
      PROVE  StreamGood(manager', tracker', watch', refused', orphan') /\ watch' \in Watch
  <2>1. OneLess(watch', watch, o)
    BY <1>1, <1>8, Start, ReadFields
  <2>2. /\ watch' \in Watch /\ watch'.state = "open" /\ watch'.idle = watch.idle
        /\ watch'.asked = watch.asked /\ watch'.outstanding = o
        /\ watch'.replies = Tail(watch.replies)
        /\ Range(watch'.replies) \subseteq Range(watch.replies)
    BY <1>1, <2>1 DEF OneLess
  <2>3. ~refused => Matches(watch'.outstanding, watch'.asked, watch'.replies)
    <3>1. ASSUME ~refused PROVE Matches(o, watch.asked, Tail(watch.replies))
      BY <1>1, <1>5, <1>7, <1>8, <3>1 DEF StreamGood
    <3>. QED
      BY <2>2, <3>1
  <2>. QED
    BY <1>1, <1>2, <1>3, <1>8, <2>2, <2>3 DEF StreamGood
<1>9. watch = [watch EXCEPT !.outstanding = watch.outstanding]
  BY Start DEF Watch
<1>10. CASE /\ reply \in {"added", "removed"}
            /\ watch' = [[watch EXCEPT !.replies = Tail(@)] EXCEPT !.outstanding = @ - 1]
            /\ manager' = b
  <2>1. watch' = Read(watch, watch.outstanding - 1) /\ watch.outstanding - 1 \in Int
    BY <1>4, <1>10, Start DEF Read, Watch
  <2>2. StreamGood(manager', tracker', watch', refused', orphan') /\ watch' \in Watch
    BY <1>1, <1>6, <1>8, <1>10, <2>1 DEF Broadcasted, Ordered
  <2>. QED
    BY <1>2, <1>3, <1>6, <1>10, <2>2, Start, StreamStep DEF Broadcasted
<1>11. CASE /\ reply = "snapshot"
            /\ watch' = [watch EXCEPT !.replies = Tail(@)]
            /\ manager' = Deliver([b EXCEPT !.synced = TRUE], stored)
  <2>1. watch' = Read(watch, watch.outstanding)
    BY <1>4, <1>11, Start DEF Read, Watch
  <2>2. /\ manager' \in Manager /\ Told(manager, manager', stored)
        /\ manager'.listeners = manager.listeners
        /\ manager'.online = "Online" /\ Waits(manager') = {}
    BY <1>1, <1>6, <1>11, Start, InSync
  <2>3. StreamGood(manager', tracker', watch', refused', orphan') /\ watch' \in Watch
    BY <1>4, <1>8, <1>11, <2>1, <2>2
  <2>. QED
    BY <1>2, <1>3, <2>2, <2>3, Start, StreamStep
<1>12. CASE /\ reply = "refused"
            /\ watch' = [[watch EXCEPT !.replies = Tail(@)] EXCEPT !.outstanding = 0]
            /\ manager' = Refuse(b, stored)
  <2>1. watch' = Read(watch, 0)
    BY <1>12, Start DEF Read, Watch
  <2>2. /\ manager' \in Manager /\ manager'.listeners = <<>> /\ manager'.raised = {}
        /\ manager'.online = "Online"
        /\ Extended(manager'.events, manager.events, manager.listeners, "error", stored)
    BY <1>1, <1>6, <1>12, Start, Refusal
  <2>3. Waits(manager') = {}
    <3>1. Range(<<>>) = {}
      BY DEF Range
    <3>. QED
      BY <2>2, <3>1 DEF Waits
  <2>4. StreamGood(manager', tracker', watch', refused', orphan') /\ watch' \in Watch
    BY <1>8, <1>12, <2>1, <2>2, <2>3
  <2>5. CallsFit'
    BY <1>2, <2>2, Start, ErrorStep
  <2>6. TypeOK'
    BY <1>2, <1>3, <2>2, <2>4, Start, KeptTypes
  <2>7. StreamFit'
    <3>1. StreamGood(manager, tracker, watch, refused, orphan)'
      BY <2>4
    <3>. QED
      BY <3>1, StreamWords, PTL
  <2>8. IInv'
    BY <2>5, <2>6, <2>7, TheInvariant, PTL
  <2>9. Hears
    BY <1>2, <2>2, Start DEF Hears, Kept
  <2>. QED
    BY <2>8, <2>9
<1>13. CASE /\ reply \in {"snapshot", "refused"}
            /\ watch' = [watch EXCEPT !.replies = Tail(@)]
            /\ manager' = b
  <2>1. watch' = Read(watch, watch.outstanding)
    BY <1>4, <1>13, Start DEF Read, Watch
  <2>2. StreamGood(manager', tracker', watch', refused', orphan') /\ watch' \in Watch
    BY <1>1, <1>4, <1>6, <1>8, <1>13, <2>1 DEF Broadcasted, Ordered
  <2>. QED
    BY <1>2, <1>3, <1>6, <1>13, <2>2, Start, StreamStep DEF Broadcasted
<1>. QED
  BY <1>10, <1>11, <1>12, <1>13 DEF Receive, Refuse, reply, b

-----------------------------------------------------------------------------
(***************************************************************************)
(* The steps of the two queues, as the order of the calls sees them.       *)
(***************************************************************************)

\* The same calls are open, and joined, and completed.
LEMMA SameCalls ==
    ASSUME TypeOK, UNCHANGED app
    PROVE  /\ calls' = calls /\ Open' = Open /\ known' = known /\ written' = written
           /\ muted' = muted /\ completed' = completed
           /\ Answered' = AnsweredOf(manager'.events) /\ Listening' = Range(manager'.listeners)
           /\ Joined' = JoinedOf(calls, tasks')
  BY DEF app, calls, Open, Answered, AnsweredOf, Listening, Joined, JoinedOf

\* The worker queue has come to call c, which waits or is told at once.
LEMMA JoinStep ==
    ASSUME TypeOK, CallsFit, UNCHANGED <<app, stored>>, tasks # <<>>, tasks' = Tail(tasks),
           NEW c, Head(tasks) = ListenTask(c),
           manager'.listeners = Append(manager.listeners, c),
           \/ manager'.raised = manager.raised /\ manager'.events = manager.events
           \/ /\ manager'.raised = manager.raised \cup {c}
              /\ Extended(manager'.events, manager.events, <<c>>, "snapshot", stored)
              /\ Waits(manager) = {}
    PROVE  CallsFit'
<1>. DEFINE E == manager.events  F == manager'.events  J == Joined \cup {c}
<1>1. PICK d \in Nat, n \in Nat : d = Len(completed) /\ n = calls
  BY Types
<1>2. Open = (d + 1)..n /\ Joined = JoinedOf(n, tasks)
  BY <1>1, Parts
<1>3. TasksFit(tasks, muted, stored, written, known, (d + 1)..n, JoinedOf(n, tasks))
  BY <1>2, Parts
<1>4. \A x \in 1..n : known[x] \in Nat
  BY <1>1, Types
<1>5. /\ JoinedOf(n, Tail(tasks)) = JoinedOf(n, tasks) \cup {c}
      /\ c \in (d + 1)..n /\ c \notin JoinedOf(n, tasks)
      /\ \A x \in JoinedOf(n, tasks) : x < c
      /\ \A x \in (d + 1)..n : x < c => x \in JoinedOf(n, tasks)
      /\ TasksFit(Tail(tasks), muted, stored, written, known, (d + 1)..n,
                  JoinedOf(n, tasks) \cup {c})
  BY <1>3, <1>4, Types, TaskListened
<1>6. /\ JoinedOf(calls, Tail(tasks)) = J
      /\ c \in Open /\ c \notin Joined /\ \A x \in Joined : x < c
      /\ \A x \in Open : x < c => x \in Joined
      /\ TasksFit(Tail(tasks), muted, stored, written, known, Open, J)
  BY <1>1, <1>2, <1>5
<1>. HIDE DEF E, F
<1>7. Waits(manager) = Listening \ manager.raised
  BY DEF Waits, Listening
<1>8. /\ ListenersFit(Listening \cup {c}, manager'.raised, Open, J, AnsweredOf(F))
      /\ EventsFit(F, Listening \cup {c}, Open, J, stored)
      /\ AnsweredOf(F) \subseteq AnsweredOf(E) \cup {c}
  <2>1. CASE manager'.raised = manager.raised /\ F = E
    BY <1>6, <2>1, Parts, ListenerWaits DEF E
  <2>2. CASE /\ manager'.raised = manager.raised \cup {c}
             /\ Extended(F, E, <<c>>, "snapshot", stored)
             /\ Waits(manager) = {}
    <3>1. Range(<<c>>) = {c}
      BY DEF Range
    <3>2. AnsweredOf(F) = AnsweredOf(E) \cup {c}
      BY <2>2, <3>1 DEF Extended
    <3>3. /\ ListenersFit(Listening \cup {c}, manager.raised \cup {c}, Open, Joined \cup {c},
                          AnsweredOf(F))
          /\ EventsFit(F, Listening \cup {c}, Open, Joined \cup {c}, stored)
      BY <1>6, <1>7, <2>2, Parts, Types, ListenerTold DEF E
    <3>. QED
      BY <2>2, <3>2, <3>3
  <2>. QED
    BY <2>1, <2>2 DEF E, F
<1>9. DoneFit(Len(completed), calls, muted, Listening \cup {c}, J, AnsweredOf(F))
  <2>1. DoneFit(d, n, muted, Listening, Joined, AnsweredOf(E))
    BY <1>1, Parts DEF E
  <2>2. c \notin 1..d
    BY <1>5
  <2>3. DoneFit(d, n, muted, Listening \cup {c}, J, AnsweredOf(F))
    BY <1>8, <2>1, <2>2 DEF DoneFit
  <2>. QED
    BY <1>1, <2>3
<1>10. /\ Rising(manager'.listeners)
       /\ Range(manager'.listeners) = Listening \cup {c}
  <2>1. PICK L \in Seq(Calls), N \in Nat :
            L = manager.listeners /\ N = Len(L) /\ DOMAIN L = 1..N
    BY Types
  <2>2. c \in Calls
    <3>1. n <= MaxCalls
      BY <1>1, Types
    <3>. QED
      BY <1>5, <3>1, BoundsAssumption DEF Calls
  <2>3. /\ Append(L, c) \in Seq(Calls) /\ Len(Append(L, c)) = Len(L) + 1
        /\ \A i \in 1..Len(L) : Append(L, c)[i] = L[i]
        /\ Append(L, c)[Len(L) + 1] = c
        /\ Range(Append(L, c)) = Range(L) \cup {c}
    BY <2>1, <2>2, AppendNumber
  <2>4. Listening = Range(L) /\ Listening \subseteq Joined /\ Rising(L)
    BY <2>1, Parts DEF ListenersFit, Listening
  <2>5. \A i \in 1..N : L[i] < c
    BY <1>6, <2>1, <2>4 DEF Range
  <2>6. PICK M : M = Append(L, c)
    OBVIOUS
  <2>7. DOMAIN M = 1..(N + 1) /\ M[N + 1] = c /\ \A i \in 1..N : M[i] = L[i]
    BY <2>1, <2>3, <2>6
  <2>8. \A i, j \in 1..N : i < j => L[i] < L[j]
    BY <2>1, <2>4 DEF Rising
  <2>9. \A i, j \in 1..(N + 1) : i < j => M[i] < M[j]
    <3>1. TAKE i, j \in 1..(N + 1)
    <3>2. HAVE i < j
    <3>3. i \in 1..N /\ (j = N + 1 \/ j \in 1..N)
      BY <2>1, <3>2
    <3>. QED
      BY <2>5, <2>7, <2>8, <3>2, <3>3
  <2>10. Rising(M)
    BY <2>7, <2>9 DEF Rising
  <2>. QED
    BY <2>1, <2>3, <2>4, <2>6, <2>10
<1>11. /\ calls' = calls /\ Joined' = J /\ Open' = Open /\ Listening' = Listening \cup {c}
       /\ Answered' = AnsweredOf(F) /\ completed' = completed
       /\ known' = known /\ written' = written /\ muted' = muted /\ stored' = stored
  BY <1>6, <1>10, SameCalls DEF F
<1>. QED
  BY <1>6, <1>8, <1>9, <1>10, <1>11 DEF CallsFit, F

\* A listener is removed.
LEMMA LeaveStep ==
    ASSUME TypeOK, CallsFit, UNCHANGED <<app, stored>>, tasks # <<>>, tasks' = Tail(tasks),
           NEW c, Head(tasks) = RemoveTask(c),
           Rising(manager'.listeners), Range(manager'.listeners) = Listening \ {c},
           manager'.raised = manager.raised \ {c}, manager'.events = manager.events
    PROVE  CallsFit' /\ Waits(manager') = Waits(manager)
<1>. DEFINE E == manager.events  T == Listening \ {c}
<1>1. TasksFit(tasks, muted, stored, written, known, Open, JoinedOf(calls, tasks))
      /\ Joined = JoinedOf(calls, tasks)
  BY Parts
<1>2. /\ JoinedOf(calls, Tail(tasks)) = JoinedOf(calls, tasks)
      /\ c \in muted
      /\ TasksFit(Tail(tasks), muted, stored, written, known, Open, JoinedOf(calls, tasks))
  BY <1>1, Types, TaskRemoved
<1>3. c \notin Open
  <2>1. PICK d \in Nat : d = Len(completed)
    BY Types
  <2>2. c \in 1..d /\ Open = (d + 1)..calls
    BY <1>2, <2>1, Parts DEF DoneFit
  <2>. QED
    BY <2>1, <2>2, Types
<1>a. T = Listening \ {c} /\ Listening \ T \subseteq {c}
  OBVIOUS
<1>b. /\ ListenersFit(Listening, manager.raised, Open, Joined, AnsweredOf(E))
      /\ EventsFit(E, Listening, Open, Joined, stored)
  BY Parts
<1>. HIDE DEF E, T
<1>4. /\ ListenersFit(T, manager.raised \ {c}, Open, Joined, AnsweredOf(E))
      /\ EventsFit(E, T, Open, Joined, stored)
  BY <1>3, <1>a, <1>b, ListenerRemoved
<1>5. DoneFit(Len(completed), calls, muted, T, Joined, AnsweredOf(E))
  BY Parts DEF DoneFit, E, T
<1>6. /\ calls' = calls /\ Joined' = Joined /\ Open' = Open /\ Listening' = T
      /\ Answered' = AnsweredOf(E) /\ completed' = completed
      /\ known' = known /\ written' = written /\ muted' = muted /\ stored' = stored
  BY <1>1, <1>2, SameCalls DEF E, T
<1>7. Waits(manager') = Waits(manager)
  <2>1. c \in Listening => c \in manager.raised
    BY <1>3, <1>b DEF ListenersFit
  <2>. QED
    BY <2>1 DEF Waits, Listening
<1>8. CallsFit'
  BY <1>1, <1>2, <1>4, <1>5, <1>6 DEF CallsFit, E
<1>. QED
  BY <1>7, <1>8

\* A write is stored, and a snapshot shows it.
LEMMA StoreStep ==
    ASSUME TypeOK, CallsFit, UNCHANGED app, tasks # <<>>, tasks' = Tail(tasks),
           NEW c, Head(tasks) = WriteTask(c), stored' = stored + 1,
           Told(manager, manager', stored + 1)
    PROVE  CallsFit' /\ stored' \in 0..MaxWrites
<1>. DEFINE E == manager.events  F == manager'.events
<1>1. TasksFit(tasks, muted, stored, written, known, Open, JoinedOf(calls, tasks))
      /\ Joined = JoinedOf(calls, tasks)
  BY Parts
<1>2. \A x \in JoinedOf(calls, tasks) : known[x] \in Nat
  BY Types DEF JoinedOf
<1>3. /\ JoinedOf(calls, Tail(tasks)) = JoinedOf(calls, tasks)
      /\ stored + 1 <= written
      /\ TasksFit(Tail(tasks), muted, stored + 1, written, known, Open, JoinedOf(calls, tasks))
  <2>1. tasks \in Seq(Task) /\ stored \in Nat /\ written \in Nat /\ calls \in Nat
    BY Types
  <2>. QED
    BY <1>1, <1>2, <2>1, TaskWritten
<1>4. stored' \in 0..MaxWrites
  BY <1>3, BoundsAssumption DEF TypeOK
<1>5. PICK cs \in Seq(Calls) :
          /\ Posts(manager, manager', cs, "snapshot", stored + 1)
          /\ Rising(cs) /\ Range(cs) \subseteq Listening
          /\ \/ Listening \ manager.raised \subseteq Range(cs)
             \/ (Listening \ manager.raised) \cap Range(cs) = {}
  BY DEF Told, Listening
<1>6. stored + 1 \in Nat
  BY Types
<1>7. Extended(F, E, cs, "snapshot", stored + 1)
  BY <1>5, <1>6, PostsExtend, Types
<1>8. /\ manager'.listeners = manager.listeners
      /\ manager'.raised = manager.raised \cup Range(cs)
  BY <1>5 DEF Posts
<1>. HIDE DEF E, F
<1>9. EventsFit(E, Listening, Open, Joined, stored + 1)
  <2>1. EventsFit(E, Listening, Open, Joined, stored) /\ stored \in Nat /\ E \in Seq(Event)
    BY Parts, Types DEF E
  <2>2. \A j \in DOMAIN E : E[j].shows \in Nat
    <3>1. \A j \in DOMAIN E : E[j] \in Event
      BY <2>1
    <3>2. \A e \in Event : e.shows \in Nat
      BY DEF Event
    <3>. QED
      BY <3>1, <3>2
  <2>. QED
    BY <2>1, <2>2 DEF EventsFit, Shown
<1>10. /\ ListenersFit(Listening, manager.raised \cup Range(cs), Open, Joined, AnsweredOf(F))
       /\ EventsFit(F, Listening, Open, Joined, stored + 1)
  BY <1>5, <1>6, <1>7, <1>9, Parts, SnapshotPosted DEF E
<1>11. DoneFit(Len(completed), calls, muted, Listening, Joined, AnsweredOf(F))
  <2>1. AnsweredOf(F) = AnsweredOf(E) \cup Range(cs)
    BY <1>7 DEF Extended
  <2>2. DoneFit(Len(completed), calls, muted, Listening, Joined, AnsweredOf(E))
    BY Parts DEF E
  <2>. QED
    BY <1>5, <2>1, <2>2 DEF DoneFit
<1>12. /\ calls' = calls /\ Joined' = Joined /\ Open' = Open /\ Listening' = Listening
       /\ Answered' = AnsweredOf(F) /\ completed' = completed
       /\ known' = known /\ written' = written /\ muted' = muted
  BY <1>1, <1>3, <1>8, SameCalls DEF F, Listening
<1>. QED
  BY <1>1, <1>3, <1>4, <1>8, <1>10, <1>11, <1>12, Parts DEF CallsFit, F

\* The types after a step of the worker queue.
LEMMA WorkTypes ==
    ASSUME TypeOK, UNCHANGED <<app, bounds, refused>>, tasks # <<>>, tasks' = Tail(tasks),
           manager' \in Manager, tracker' \in Tracker, watch' \in Watch,
           orphan' \in BOOLEAN, stored' \in 0..MaxWrites
    PROVE  TypeOK'
<1>1. tasks' \in Seq(Task)
  BY Types, TaskLess
<1>. QED
  BY <1>1 DEF TypeOK, app, bounds, calls

\* What there is to show of a step of the worker queue.
LEMMA WorkDone ==
    ASSUME IInv, UNCHANGED <<app, bounds, refused>>, tasks # <<>>, tasks' = Tail(tasks),
           manager' \in Manager, tracker' \in Tracker, watch' \in Watch,
           orphan' \in BOOLEAN, stored' \in 0..MaxWrites, CallsFit',
           StreamGood(manager', tracker', watch', refused, orphan')
    PROVE  IInv'
<1>1. TypeOK'
  BY Start, WorkTypes
<1>2. StreamGood(manager, tracker, watch, refused, orphan)'
  OBVIOUS
<1>3. StreamFit'
  BY <1>2, StreamWords, PTL
<1>. QED
  BY <1>1, <1>3, TheInvariant, PTL

\* Call c joins the listeners m, and hears at once when that is possible.
Join(m, c) == [m EXCEPT !.listeners = Append(@, c)]
Joins(m, p, c, n) ==
    /\ p \in Manager /\ p.listeners = Append(m.listeners, c)
    /\ Range(p.listeners) = Range(m.listeners) \cup {c} /\ p.listeners # <<>>
    /\ p.online = m.online /\ p.synced = m.synced
    /\ \/ ~Ready(m) /\ p.raised = m.raised /\ p.events = m.events
       \/ /\ Waits(m) = {} /\ Waits(p) = {}
          /\ p.raised = m.raised \cup {c}
          /\ Extended(p.events, m.events, <<c>>, "snapshot", n)

\* addListener does so.
LEMMA JoinFacts ==
    ASSUME NEW m, NEW c \in Calls, NEW n \in Nat, Ordered(m)
    PROVE  Joins(m, IF Ready(Join(m, c)) THEN Post(Join(m, c), <<c>>, "snapshot", n)
                    ELSE Join(m, c), c, n)
<1>. DEFINE q == Join(m, c)  p == Post(q, <<c>>, "snapshot", n)
<1>1. m \in Manager /\ m.listeners \in Seq(Calls)
  BY ManagerFields DEF Ordered
<1>2. /\ Append(m.listeners, c) \in Seq(Calls)
      /\ Range(Append(m.listeners, c)) = Range(m.listeners) \cup {c}
  BY <1>1, AppendNumber
<1>3. Append(m.listeners, c) # <<>>
  BY <1>2, NoMembers
<1>4. /\ q \in Manager /\ q.listeners = Append(m.listeners, c) /\ q.raised = m.raised
      /\ q.online = m.online /\ q.synced = m.synced /\ q.events = m.events
  BY <1>1, <1>2 DEF Join, Manager
<1>. HIDE DEF q
<1>5. Ready(q) <=> Ready(m)
  BY <1>4 DEF Ready
<1>6. CASE ~Ready(m)
  <2>1. Joins(m, q, c, n)
    BY <1>2, <1>3, <1>4, <1>6 DEF Joins
  <2>. QED
    BY <1>5, <1>6, <2>1 DEF q
<1>7. CASE Ready(m)
  <2>1. Waits(m) = {}
    BY <1>7 DEF Ready, Ordered
  <2>2. <<c>> \in Seq(Calls) /\ Range(<<c>>) = {c}
    BY DEF Range
  <2>3. Posts(q, p, <<c>>, "snapshot", n) /\ p.synced = q.synced /\ p.online = q.online
    BY <1>4, <2>2, PostFacts
  <2>. HIDE DEF p
  <2>4. Extended(p.events, q.events, <<c>>, "snapshot", n)
    BY <1>4, <2>2, <2>3, PostsExtend
  <2>5. /\ p \in Manager /\ p.listeners = Append(m.listeners, c)
        /\ p.raised = m.raised \cup {c}
    BY <1>4, <2>2, <2>3 DEF Posts
  <2>6. Waits(p) = {}
    BY <1>2, <2>1, <2>5 DEF Waits
  <2>7. Joins(m, p, c, n)
    BY <1>2, <1>3, <1>4, <2>1, <2>3, <2>4, <2>5, <2>6 DEF Joins
  <2>. QED
    BY <1>5, <1>7, <2>7 DEF p, q
<1>. QED
  BY <1>6, <1>7

\* addListener.
LEMMA AddStep ==
    ASSUME IInv, UNCHANGED <<app, bounds, refused>>, tasks # <<>>, tasks' = Tail(tasks),
           Head(tasks).op = "listen", AddListener(Head(tasks).number)
    PROVE  IInv' /\ Hears
<1>. DEFINE c == Head(tasks).number
<1>1. StreamGood(manager, tracker, watch, refused, orphan) /\ Ordered(manager)
  BY Start
<1>2. Head(tasks) = ListenTask(c)
  BY Start, Types, TaskLess, TaskNames
<1>3. c \in Calls
  <2>1. PICK i \in DOMAIN tasks : tasks[i] = Head(tasks)
    BY Start, Types, TaskLess
  <2>2. c \in Open
    BY <2>1, Start, Parts DEF TasksFit, ListenFits
  <2>3. PICK d \in Nat, n \in Nat : d = Len(completed) /\ n = calls /\ n <= MaxCalls
    BY Start, Types
  <2>4. c \in (d + 1)..n
    BY <2>2, <2>3 DEF Open
  <2>. QED
    BY <2>3, <2>4, BoundsAssumption DEF Calls
<1>. HIDE DEF c
<1>4. AddListener(c)
  BY DEF c
<1>5. Joins(manager, manager', c, stored)
  <2>1. manager' = IF Ready(Join(manager, c)) THEN Post(Join(manager, c), <<c>>, "snapshot", stored)
                   ELSE Join(manager, c)
    BY <1>4 DEF AddListener, Join
  <2>2. Joins(manager, IF Ready(Join(manager, c))
                       THEN Post(Join(manager, c), <<c>>, "snapshot", stored)
                       ELSE Join(manager, c), c, stored)
    BY <1>1, <1>3, Start, JoinFacts
  <2>. QED
    BY <2>1, <2>2
<1>6. /\ manager' \in Manager /\ manager'.listeners = Append(manager.listeners, c)
      /\ manager'.listeners # <<>>
      /\ manager'.online = manager.online /\ manager'.synced = manager.synced
  BY <1>5 DEF Joins
<1>7. \/ manager'.raised = manager.raised /\ manager'.events = manager.events
      \/ /\ manager'.raised = manager.raised \cup {c}
         /\ Extended(manager'.events, manager.events, <<c>>, "snapshot", stored)
         /\ Waits(manager) = {}
  BY <1>5 DEF Joins
<1>8. UNCHANGED <<stored, orphan>>
  BY <1>4 DEF AddListener
<1>9. CallsFit'
  BY <1>2, <1>6, <1>7, <1>8, Start, JoinStep
<1>10. Waits(manager') # {} => ~manager.synced /\ manager.online # "Offline"
  BY <1>5 DEF Joins, Ready
<1>15. Hears
  <2>0. <<c>> \in Seq(Calls) /\ stored' = stored /\ stored \in Nat
    BY <1>3, <1>8, Start
  <2>1. CASE manager'.events = manager.events
    BY <2>0, <2>1, Start, NothingHeard
  <2>2. CASE Extended(manager'.events, manager.events, <<c>>, "snapshot", stored)
    BY <2>0, <2>2 DEF Hears
  <2>. QED
    BY <1>7, <2>1, <2>2
<1>11. ASSUME watch' \in Watch, tracker' \in Tracker,
              StreamGood(manager', tracker', watch', refused, orphan)
       PROVE  IInv' /\ Hears
  <2>1. stored' \in 0..MaxWrites /\ orphan' = orphan /\ orphan \in BOOLEAN
    BY <1>8, Start DEF TypeOK
  <2>. QED
    BY <1>6, <1>9, <1>11, <1>15, <2>1, WorkDone
<1>12. CASE /\ manager.listeners = <<>> /\ watch.state = "stopped"
            /\ watch' = Stream("starting") /\ tracker' = Started(tracker)
  <2>1. /\ watch' \in Watch /\ watch' = Stream(watch'.state) /\ watch'.state = "starting"
        /\ ~watch'.idle /\ Range(watch'.replies) = {}
        /\ Matches(watch'.outstanding, watch'.asked, watch'.replies)
    BY <1>12, FreshStream
  <2>2. tracker = Settled /\ manager.online = "Unknown"
    BY <1>1, <1>12 DEF StreamGood
  <2>3. tracker' \in Tracker /\ tracker'.timer /\ ~tracker'.failed
    BY <1>12, <2>2, TrackerFields
  <2>4. StreamGood(manager', tracker', watch', refused, orphan)
    BY <1>6, <1>10, <2>1, <2>2, <2>3 DEF StreamGood
  <2>. QED
    BY <1>11, <2>1, <2>3, <2>4
<1>13. CASE /\ watch.state = "open" /\ watch' = Send(watch, "watch") /\ UNCHANGED tracker
  <2>1. /\ watch' \in Watch /\ watch'.state = "open" /\ ~watch'.idle
        /\ Range(watch'.replies) = Range(watch.replies)
        /\ Matches(watch.outstanding, watch.asked, watch.replies) =>
               Matches(watch'.outstanding, watch'.asked, watch'.replies)
    BY <1>13, Start, Sent
  <2>2. StreamGood(manager', tracker, watch', refused, orphan)
    BY <1>1, <1>6, <1>10, <1>13, <2>1 DEF StreamGood
  <2>. QED
    BY <1>11, <1>13, <2>1, <2>2, Start
<1>14. CASE (manager.listeners # <<>> \/ watch.state = "starting") /\ UNCHANGED <<watch, tracker>>
  <2>1. StreamGood(manager', tracker, watch, refused, orphan)
    BY <1>1, <1>6, <1>10, <1>14 DEF StreamGood
  <2>. QED
    BY <1>11, <1>14, <2>1, Start
<1>. QED
  BY <1>4, <1>12, <1>13, <1>14 DEF AddListener

\* Without listener c, and without the view when it was the last.
Leave(m, left, c, last) == [m EXCEPT !.listeners = left, !.raised = @ \ {c},
                                     !.synced = @ /\ ~last]

\* removeListener.
LEMMA RemoveStep ==
    ASSUME IInv, UNCHANGED <<app, bounds, refused>>, tasks # <<>>, tasks' = Tail(tasks),
           Head(tasks).op = "remove", RemoveListener(Head(tasks).number)
    PROVE  IInv' /\ Hears
<1>. DEFINE c == Head(tasks).number
            left == Among(manager.listeners, Range(manager.listeners) \ {c})
            last == manager.listeners # <<>> /\ left = <<>>
            without == Leave(manager, left, c, last)
<1>1. StreamGood(manager, tracker, watch, refused, orphan) /\ Ordered(manager)
  BY Start
<1>2. Head(tasks) = RemoveTask(c)
  BY Start, Types, TaskLess, TaskNames
<1>. HIDE DEF c
<1>3. RemoveListener(c)
  BY DEF c
<1>4. left \in Seq(Calls) /\ Range(left) = Listening \ {c} /\ Rising(left)
  BY <1>1, Start, AmongFacts DEF Ordered, Listening
<1>5. /\ without \in Manager /\ without.listeners = left
      /\ without.raised = manager.raised \ {c}
      /\ without.online = manager.online /\ without.events = manager.events
      /\ last => ~without.synced
      /\ ~last => without.synced = manager.synced
  <2>. HIDE DEF left, last
  <2>1. PICK q \in Seq(Calls) : q = left
    BY <1>4
  <2>2. manager \in Manager
    BY Start
  <2>3. PICK y \in BOOLEAN : y = (manager.synced /\ ~last)
    OBVIOUS
  <2>4. without = With(manager, q, manager.raised \ {c}, y)
    BY <2>1, <2>3 DEF Leave, With
  <2>5. manager.raised \ {c} \in SUBSET Calls /\ manager.synced \in BOOLEAN
    BY <2>2, ManagerFields
  <2>. HIDE DEF without
  <2>6. /\ without \in Manager /\ without.listeners = q
        /\ without.raised = manager.raised \ {c} /\ without.synced = y
        /\ without.online = manager.online /\ without.events = manager.events
    BY <2>2, <2>4, <2>5, ManagerWith
  <2>7. /\ last => ~without.synced
        /\ ~last => without.synced = manager.synced
    BY <2>3, <2>5, <2>6
  <2>. QED
    BY <2>1, <2>6, <2>7
<1>6. stored' = stored /\ stored' \in 0..MaxWrites
  BY <1>3, Start DEF RemoveListener, TypeOK
<1>7. \/ ~last /\ manager' = without /\ UNCHANGED <<watch, tracker, orphan>>
      \/ /\ last /\ watch.state = "open" /\ manager' = without
         /\ watch' = [Send(watch, "unwatch") EXCEPT !.idle = TRUE]
         /\ UNCHANGED <<tracker, orphan>>
      \/ /\ last /\ watch.state # "open"
         /\ manager' = Broadcast(without, "Unknown", stored)
         /\ tracker' = Settled /\ orphan' = TRUE /\ UNCHANGED watch
  BY <1>3 DEF RemoveListener, Leave
<1>8. Waits(without) \subseteq Waits(manager) \cup {c} /\ (last => Waits(without) = {})
  <2>1. Range(<<>>) = {}
    BY DEF Range
  <2>. QED
    BY <1>4, <1>5, <2>1 DEF Waits, Listening
<1>9. ~last /\ manager.listeners = <<>> => left = <<>>
  <2>1. ASSUME manager.listeners = <<>> PROVE Range(left) = {}
    <3>1. Listening = {}
      BY <2>1 DEF Range, Listening
    <3>. QED
      BY <1>4, <3>1
  <2>. QED
    BY <1>4, <2>1, NoMembers
<1>10. last => manager.listeners # <<>> /\ left = <<>>
  OBVIOUS
<1>. HIDE DEF left, last, without
<1>11. ASSUME manager'.listeners = left, manager'.raised = without.raised,
              manager'.events = manager.events
       PROVE  CallsFit' /\ Waits(manager') = Waits(manager) /\ Hears
  <2>1. CallsFit' /\ Waits(manager') = Waits(manager)
    BY <1>2, <1>4, <1>5, <1>6, <1>11, Start, LeaveStep
  <2>2. Hears
    BY <1>6, <1>11, Start, NothingHeard
  <2>. QED
    BY <2>1, <2>2
<1>12. ASSUME CallsFit', Hears, manager' \in Manager, tracker' \in Tracker, watch' \in Watch,
              orphan' \in BOOLEAN, StreamGood(manager', tracker', watch', refused, orphan')
       PROVE  IInv' /\ Hears
  BY <1>6, <1>12, WorkDone
<1>13. CASE ~last /\ manager' = without /\ UNCHANGED <<watch, tracker, orphan>>
  <2>1. CallsFit' /\ Waits(manager') = Waits(manager) /\ Hears
    BY <1>5, <1>11, <1>13
  <2>2. StreamGood(manager', tracker, watch, refused, orphan)
    BY <1>1, <1>5, <1>9, <1>13, <2>1 DEF StreamGood
  <2>. QED
    BY <1>5, <1>12, <1>13, <2>1, <2>2, Start
<1>14. CASE /\ last /\ watch.state = "open" /\ manager' = without
            /\ watch' = [Send(watch, "unwatch") EXCEPT !.idle = TRUE]
            /\ UNCHANGED <<tracker, orphan>>
  <2>1. CallsFit' /\ Waits(manager') = Waits(manager) /\ Hears
    BY <1>5, <1>11, <1>14
  <2>2. /\ Send(watch, "unwatch") \in Watch /\ Send(watch, "unwatch").state = "open"
        /\ Range(Send(watch, "unwatch").replies) = Range(watch.replies)
        /\ Matches(watch.outstanding, watch.asked, watch.replies) =>
               Matches(Send(watch, "unwatch").outstanding, Send(watch, "unwatch").asked,
                       Send(watch, "unwatch").replies)
    BY <1>14, Start, Sent
  <2>3. PICK s \in Watch : s = Send(watch, "unwatch") /\ watch' = [s EXCEPT !.idle = TRUE]
    BY <1>14, <2>2
  <2>4. /\ watch' \in Watch /\ watch'.state = s.state /\ watch'.replies = s.replies
        /\ watch'.asked = s.asked /\ watch'.outstanding = s.outstanding
    BY <2>3 DEF Watch
  <2>5. manager'.listeners = <<>> /\ manager'.online = manager.online
    BY <1>5, <1>10, <1>14
  <2>6. Waits(manager') = {}
    BY <1>8, <1>14
  <2>7. StreamGood(manager', tracker, watch', refused, orphan)
    BY <1>1, <1>14, <2>2, <2>3, <2>4, <2>5, <2>6 DEF StreamGood
  <2>. QED
    BY <1>5, <1>12, <1>14, <2>1, <2>4, <2>7, Start
<1>15. CASE /\ last /\ watch.state # "open"
            /\ manager' = Broadcast(without, "Unknown", stored)
            /\ tracker' = Settled /\ orphan' = TRUE /\ UNCHANGED watch
  <2>1. Ordered(without)
    <3>1. without.raised \subseteq Range(without.listeners)
      BY <1>1, <1>4, <1>5 DEF Ordered, Listening
    <3>. QED
      BY <1>4, <1>5, <1>8, <1>15, <3>1 DEF Ordered
  <2>2. Broadcasted(without, manager', "Unknown", stored)
    BY <1>15, <2>1, Start, BroadcastResult
  <2>3. /\ manager' \in Manager /\ manager'.listeners = left /\ manager'.raised = without.raised
        /\ manager'.events = manager.events /\ manager'.online = "Unknown"
        /\ Waits(manager') = {}
    BY <1>5, <1>8, <1>15, <2>2 DEF Broadcasted
  <2>4. CallsFit' /\ Hears
    BY <1>11, <2>3
  <2>5. watch.state = "starting" /\ watch.state # "stopped"
    <3>1. watch.state \in {"stopped", "starting", "open"}
      BY Start, WatchFields
    <3>. QED
      BY <1>1, <1>10, <1>15, <3>1 DEF StreamGood
  <2>6. tracker' \in Tracker /\ ~tracker'.timer /\ ~tracker'.failed
    BY <1>15, TrackerFields
  <2>7. StreamGood(manager', tracker', watch, refused, TRUE)
    BY <1>1, <1>10, <1>15, <2>3, <2>5, <2>6 DEF StreamGood
  <2>. QED
    BY <1>12, <1>15, <2>3, <2>4, <2>6, <2>7, Start
<1>. QED
  BY <1>7, <1>13, <1>14, <1>15

\* writeMutations.
LEMMA ApplyStep ==
    ASSUME IInv, UNCHANGED <<app, bounds, refused>>, tasks # <<>>, tasks' = Tail(tasks),
           Head(tasks).op = "write", ApplyWrite
    PROVE  IInv' /\ Hears
<1>1. StreamGood(manager, tracker, watch, refused, orphan) /\ Ordered(manager)
  BY Start
<1>2. PICK c : Head(tasks) = WriteTask(c)
  BY Start, Types, TaskLess, TaskNames
<1>3. stored' = stored + 1 /\ manager' = Deliver(manager, stored + 1) /\ stored + 1 \in Nat
  BY Start DEF ApplyWrite
<1>4. PICK cs \in Seq(Calls) :
          /\ Posts(manager, manager', cs, "snapshot", stored + 1)
          /\ Rising(cs)
          /\ Range(cs) = Range(manager.listeners) \cap
                             (IF Ready(manager) THEN Range(manager.listeners) ELSE manager.raised)
          /\ manager'.synced = manager.synced /\ manager'.online = manager.online
  <2>1. Rising(manager.listeners) /\ manager \in Manager
    BY <1>1 DEF Ordered
  <2>. QED
    BY <1>3, <2>1, DeliverFacts
<1>5. \/ Range(manager.listeners) \ manager.raised \subseteq Range(cs)
      \/ (Range(manager.listeners) \ manager.raised) \cap Range(cs) = {}
  BY <1>4
<1>6. Told(manager, manager', stored + 1)
  BY <1>4, <1>5 DEF Told
<1>7. CallsFit' /\ stored' \in 0..MaxWrites
  BY <1>2, <1>3, <1>6, Start, StoreStep
<1>8. /\ manager' \in Manager /\ manager'.listeners = manager.listeners
      /\ Waits(manager') \subseteq Waits(manager)
  BY <1>4 DEF Posts, Waits
<1>9. StreamGood(manager', tracker, watch, refused, orphan)
  BY <1>1, <1>4, <1>8 DEF StreamGood
<1>10. Hears
  BY <1>3, <1>6, Start, SnapshotHeard
<1>. QED
  BY <1>7, <1>8, <1>9, <1>10, Start, WorkDone DEF ApplyWrite

\* One task of the worker queue.
LEMMA WorkStep == ASSUME IInv, Work PROVE IInv' /\ Hears
  BY AddStep, RemoveStep, ApplyStep DEF Work

-----------------------------------------------------------------------------
(***************************************************************************)
(* The steps of the main queue, and the theorem.                           *)
(***************************************************************************)

\* The client's half is left alone: what the invariant says of it stays true.
LEMMA SameStream ==
    ASSUME IInv, UNCHANGED <<tracker, watch, refused, orphan>>,
           manager'.listeners = manager.listeners, manager'.raised = manager.raised,
           manager'.synced = manager.synced, manager'.online = manager.online
    PROVE  StreamFit'
<1>1. StreamGood(manager, tracker, watch, refused, orphan)
  BY Start
<1>2. Waits(manager') = Waits(manager)
  BY DEF Waits
<1>3. StreamGood(manager', tracker, watch, refused, orphan)
  BY <1>1, <1>2 DEF StreamGood
<1>4. StreamGood(manager, tracker, watch, refused, orphan)'
  BY <1>3
<1>. QED
  BY <1>4, StreamWords, PTL

\* getDocuments().
LEMMA AskStep == ASSUME IInv, GetDocuments PROVE IInv'
<1>1. PICK d \in Nat, n \in Nat : d = Len(completed) /\ n = calls
  BY Start, Types
<1>2. /\ TasksFit(tasks, muted, stored, written, known, (d + 1)..n, JoinedOf(n, tasks))
      /\ ListenersFit(Listening, manager.raised, (d + 1)..n, JoinedOf(n, tasks),
                      AnsweredOf(manager.events))
      /\ EventsFit(manager.events, Listening, (d + 1)..n, JoinedOf(n, tasks), stored)
      /\ DoneFit(d, n, muted, Listening, JoinedOf(n, tasks), AnsweredOf(manager.events))
  <2>1. Open = (d + 1)..n /\ Joined = JoinedOf(n, tasks)
    BY <1>1, Start, Parts
  <2>. QED
    BY <1>1, <2>1, Start, Parts
<1>3. d <= n /\ n + 1 <= MaxCalls
  BY <1>1, <1>2, BoundsAssumption DEF DoneFit, GetDocuments
<1>4. /\ known \in Seq(Nat) /\ Len(known) = n /\ known' = Append(known, written)
      /\ tasks' = Append(tasks, ListenTask(n + 1))
      /\ UNCHANGED <<written, muted, completed, stored, manager, tracker, watch, changes, faults,
                     refused, orphan>>
  BY <1>1, Start, Types DEF GetDocuments, calls, bounds
<1>5. calls' = n + 1 /\ known' \in Seq(0..MaxWrites) /\ tasks' \in Seq(Task)
  <2>1. known \in Seq(0..MaxWrites) /\ written \in 0..MaxWrites
    BY Start DEF TypeOK
  <2>2. /\ Append(known, written) \in Seq(0..MaxWrites)
        /\ Len(Append(known, written)) = Len(known) + 1
    BY <2>1, AppendNumber
  <2>3. ListenTask(n + 1) \in Task
    BY <1>1, TaskNames
  <2>. QED
    BY <1>4, <2>2, <2>3, Start, Types, TaskMore DEF calls
<1>6. /\ JoinedOf(n + 1, Append(tasks, ListenTask(n + 1))) = JoinedOf(n, tasks)
      /\ TasksFit(Append(tasks, ListenTask(n + 1)), muted, stored, written,
                  Append(known, written), (d + 1)..(n + 1), JoinedOf(n, tasks))
  BY <1>2, <1>3, <1>4, Start, Types, TaskListen
<1>. DEFINE J == JoinedOf(n, tasks)  A == AnsweredOf(manager.events)
<1>7. J \subseteq 1..n /\ A \subseteq J
  BY <1>2 DEF JoinedOf, EventsFit
<1>. HIDE DEF J, A
<1>8. ListenersFit(Listening, manager.raised, (d + 1)..(n + 1), J, A)
  <2>1. ListenersFit(Listening, manager.raised, (d + 1)..n, J, A)
    BY <1>2 DEF J, A
  <2>2. (d + 1)..n \subseteq (d + 1)..(n + 1) /\ ((d + 1)..(n + 1)) \cap J \subseteq ((d + 1)..n)
    BY <1>7
  <2>. QED
    BY <2>1, <2>2 DEF ListenersFit
<1>9. EventsFit(manager.events, Listening, (d + 1)..(n + 1), J, stored)
  <2>1. EventsFit(manager.events, Listening, (d + 1)..n, J, stored)
    BY <1>2 DEF J
  <2>2. ASSUME NEW j \in DOMAIN manager.events, NEW c \in (d + 1)..(n + 1),
               c < manager.events[j].call
        PROVE  c \in (d + 1)..n
    <3>1. manager.events[j].call \in 1..n
      BY <1>7 DEF A, AnsweredOf
    <3>. QED
      BY <2>2, <3>1
  <2>3. FirstsInOrder(manager.events, (d + 1)..(n + 1))
    BY <2>1, <2>2 DEF EventsFit, FirstsInOrder
  <2>. QED
    BY <2>1, <2>3 DEF EventsFit
<1>10. DoneFit(d, n + 1, muted, Listening, J, A)
  BY <1>1, <1>2, <1>3 DEF DoneFit, J, A
<1>11. /\ Joined' = J /\ Open' = (d + 1)..(n + 1) /\ Listening' = Listening /\ Answered' = A
       /\ Len(completed)' = d
  <2>1. Joined' = JoinedOf(n + 1, tasks')
    BY <1>5 DEF Joined, JoinedOf
  <2>2. Listening' = Listening /\ Answered' = A
    BY <1>4 DEF Listening, Answered, AnsweredOf, A
  <2>3. Open' = (d + 1)..(n + 1) /\ Len(completed)' = d
    BY <1>1, <1>4, <1>5 DEF Open
  <2>. QED
    BY <1>4, <1>6, <2>1, <2>2, <2>3 DEF J
<1>12. Rising(manager.listeners) /\ \A i \in DOMAIN completed : completed[i] = i
  BY Start, Parts DEF CallsFit
<1>13. CallsFit'
  BY <1>4, <1>5, <1>6, <1>8, <1>9, <1>10, <1>11, <1>12 DEF CallsFit, J
<1>14. TypeOK'
  BY <1>3, <1>4, <1>5, Start DEF TypeOK
<1>15. StreamFit'
  BY <1>4, SameStream
<1>. QED
  BY <1>13, <1>14, <1>15, TheInvariant, PTL

\* setData() or delete().
LEMMA WriteStep == ASSUME IInv, WriteFeed PROVE IInv'
<1>1. /\ tasks' = Append(tasks, WriteTask(written + 1)) /\ written' = written + 1
      /\ written < MaxWrites
      /\ UNCHANGED <<known, muted, completed, stored, manager, tracker, watch, changes, faults,
                     refused, orphan>>
  BY DEF WriteFeed, bounds
<1>2. TasksFit(tasks, muted, stored, written, known, Open, JoinedOf(calls, tasks))
      /\ Joined = JoinedOf(calls, tasks)
  BY Start, Parts
<1>3. /\ JoinedOf(calls, Append(tasks, WriteTask(written + 1))) = JoinedOf(calls, tasks)
      /\ TasksFit(Append(tasks, WriteTask(written + 1)), muted, stored, written + 1, known, Open,
                  JoinedOf(calls, tasks))
  BY <1>2, Start, Types, TaskWrite
<1>4. /\ calls' = calls /\ Joined' = Joined /\ Open' = Open /\ Listening' = Listening
      /\ Answered' = Answered
  BY <1>1, <1>2, <1>3 DEF calls, Joined, JoinedOf, Open, Listening, Answered
<1>5. CallsFit'
  BY <1>1, <1>2, <1>3, <1>4, Start DEF CallsFit
<1>6. tasks' \in Seq(Task) /\ written' \in 0..MaxWrites
  <2>1. WriteTask(written + 1) \in Task /\ written \in Nat
    BY Start, Types, TaskNames
  <2>. QED
    BY <1>1, <2>1, Start, Types, TaskMore, BoundsAssumption
<1>7. TypeOK'
  BY <1>1, <1>4, <1>6, Start DEF TypeOK
<1>8. StreamFit'
  BY <1>1, SameStream
<1>. QED
  BY <1>5, <1>7, <1>8, TheInvariant, PTL

\* The manager without its oldest event.
LEMMA RunFields ==
    ASSUME NEW m \in Manager, m.events # <<>>, NEW p, p = [m EXCEPT !.events = Tail(@)]
    PROVE  /\ p \in Manager /\ p.listeners = m.listeners /\ p.raised = m.raised
           /\ p.synced = m.synced /\ p.online = m.online /\ p.events = Tail(m.events)
<1>1. Tail(m.events) \in Seq(Event)
  BY ManagerFields
<1>. QED
  BY <1>1 DEF Manager

\* The block of a muted listener returns.
LEMMA MutedStep ==
    ASSUME IInv, manager.events # <<>>, manager' = [manager EXCEPT !.events = Tail(@)],
           Head(manager.events).call \in muted,
           UNCHANGED <<app, tasks, stored, tracker, watch, bounds, refused, orphan>>
    PROVE  IInv'
<1>. DEFINE E == manager.events  T == Tail(E)
<1>1. /\ manager' \in Manager /\ manager'.listeners = manager.listeners
      /\ manager'.raised = manager.raised /\ manager'.synced = manager.synced
      /\ manager'.online = manager.online /\ manager'.events = T
  BY Start, RunFields
<1>2. E \in Seq(Event) /\ E # <<>>
  BY Start, Types
<1>3. Head(E).call \notin Open
  <2>1. PICK d \in Nat : d = Len(completed)
    BY Start, Types
  <2>2. Head(E).call \in 1..d /\ Open = (d + 1)..calls
    BY <2>1, Start, Parts DEF DoneFit
  <2>. QED
    BY <2>1, <2>2, Start, Types
<1>. HIDE DEF E, T
<1>4. /\ ListenersFit(Listening, manager.raised, Open, Joined, AnsweredOf(E))
      /\ EventsFit(E, Listening, Open, Joined, stored)
      /\ DoneFit(Len(completed), calls, muted, Listening, Joined, AnsweredOf(E))
  BY Start, Parts DEF E
<1>5. /\ ListenersFit(Listening, manager.raised, Open, Joined, AnsweredOf(Tail(E)))
      /\ EventsFit(Tail(E), Listening, Open, Joined, stored)
  BY <1>2, <1>3, <1>4, Start, EventDropped
<1>6. DoneFit(Len(completed), calls, muted, Listening, Joined, AnsweredOf(Tail(E)))
  <2>1. AnsweredOf(Tail(E)) \subseteq AnsweredOf(E)
    BY <1>2, EventLess
  <2>. QED
    BY <1>4, <2>1 DEF DoneFit
<1>7. /\ calls' = calls /\ Joined' = Joined /\ Open' = Open /\ Listening' = Listening
      /\ Answered' = AnsweredOf(Tail(E)) /\ completed' = completed
      /\ known' = known /\ written' = written /\ muted' = muted
  BY <1>1, Start, Parts, SameCalls DEF T, Listening
<1>8. CallsFit'
  BY <1>1, <1>5, <1>6, <1>7, Start DEF CallsFit, T
<1>9. TypeOK'
  BY <1>1, Start, KeptTypes DEF Kept, bounds
<1>10. StreamFit'
  BY <1>1, SameStream
<1>. QED
  BY <1>8, <1>9, <1>10, TheInvariant, PTL

\* The block of an unmuted listener completes the oldest call.
LEMMA CompleteStep ==
    ASSUME IInv, manager.events # <<>>, manager' = [manager EXCEPT !.events = Tail(@)],
           Head(manager.events).call \notin muted,
           completed' = Append(completed, Head(manager.events).call),
           \/ /\ Head(manager.events).type = "snapshot"
              /\ muted' = muted \cup {Head(manager.events).call}
              /\ tasks' = Append(tasks, RemoveTask(Head(manager.events).call))
           \/ Head(manager.events).type = "error" /\ UNCHANGED <<tasks, muted>>,
           UNCHANGED <<known, written, stored, tracker, watch, bounds, refused, orphan>>
    PROVE  IInv' /\ Head(manager.events).call = Len(completed) + 1
<1>. DEFINE E == manager.events  h == Head(manager.events)  J == Joined
<1>1. PICK d \in Nat, n \in Nat : d = Len(completed) /\ n = calls /\ n <= MaxCalls
  BY Start, Types
<1>2. /\ manager' \in Manager /\ manager'.listeners = manager.listeners
      /\ manager'.raised = manager.raised /\ manager'.synced = manager.synced
      /\ manager'.online = manager.online /\ manager'.events = Tail(E)
  BY Start, RunFields
<1>3. E \in Seq(Event) /\ E # <<>> /\ Open = (d + 1)..n /\ Joined = JoinedOf(n, tasks)
  BY <1>1, Start, Types, Parts
<1>. HIDE DEF E, J, h
<1>4. /\ ListenersFit(Listening, manager.raised, (d + 1)..n, J, AnsweredOf(E))
      /\ EventsFit(E, Listening, (d + 1)..n, J, stored)
      /\ DoneFit(d, n, muted, Listening, J, AnsweredOf(E))
      /\ TasksFit(tasks, muted, stored, written, known, (d + 1)..n, JoinedOf(n, tasks))
      /\ J \subseteq 1..n
  BY <1>1, <1>3, Start, Parts DEF E, J
<1>5. Head(E).call \notin muted /\ Head(E) = h
  BY DEF E, h
<1>6. /\ Head(E).call = d + 1 /\ d + 1 \in J
      /\ Head(E).type = "error" => d + 1 \notin Listening /\ d + 1 \notin AnsweredOf(Tail(E))
  BY <1>3, <1>4, <1>5, EventNext
<1>7. /\ h.call = d + 1 /\ d + 1 \in JoinedOf(n, tasks) /\ d + 1 \notin muted /\ d + 1 <= n
      /\ h.type = "error" => d + 1 \notin Listening /\ d + 1 \notin AnsweredOf(Tail(E))
  <2>1. J = JoinedOf(n, tasks)
    BY <1>3 DEF J
  <2>. QED
    BY <1>4, <1>5, <1>6, <2>1
<1>8. completed' = Append(completed, d + 1) /\ Len(completed') = d + 1
      /\ completed' \in Seq(Calls)
      /\ \A i \in DOMAIN completed' : completed'[i] = i
  <2>1. PICK q \in Seq(Calls) : q = completed
    BY Start, Types
  <2>2. d + 1 \in Calls
    BY <1>1, <1>7, BoundsAssumption DEF Calls
  <2>3. completed' = Append(q, d + 1) /\ Len(q) = d
    BY <1>1, <1>7, <2>1 DEF h
  <2>4. \A i \in DOMAIN q : q[i] = i
    BY <2>1, Start DEF CallsFit
  <2>5. PICK p : p = Append(q, d + 1)
    OBVIOUS
  <2>6. p \in Seq(Calls) /\ Len(p) = d + 1 /\ DOMAIN p = 1..(d + 1) /\ DOMAIN q = 1..d
        /\ p[d + 1] = d + 1 /\ \A i \in 1..d : p[i] = q[i]
    BY <2>2, <2>3, <2>5
  <2>7. \A i \in 1..(d + 1) : i = d + 1 \/ i \in 1..d
    BY <1>1
  <2>8. \A i \in DOMAIN p : p[i] = i
    BY <2>4, <2>6, <2>7
  <2>. QED
    BY <2>1, <2>3, <2>5, <2>6, <2>8
<1>9. /\ JoinedOf(n, Append(tasks, RemoveTask(d + 1))) = JoinedOf(n, tasks)
      /\ TasksFit(Append(tasks, RemoveTask(d + 1)), muted \cup {d + 1}, stored, written, known,
                  ((d + 1)..n) \ {d + 1}, JoinedOf(n, tasks))
      /\ TasksFit(tasks, muted, stored, written, known, ((d + 1)..n) \ {d + 1}, JoinedOf(n, tasks))
  <2>1. d + 1 \in Nat
    BY <1>1
  <2>. QED
    BY <1>4, <1>7, <2>1, Start, Types, TaskRemove
<1>10. ((d + 1)..n) \ {d + 1} = (d + 2)..n /\ Open' = (d + 2)..n /\ Len(completed)' = d + 1
  <2>1. ((d + 1)..n) \ {d + 1} = (d + 2)..n
    BY <1>1
  <2>2. calls' = n
    BY <1>1 DEF calls
  <2>3. Open' = ((d + 1) + 1)..n
    BY <1>8, <2>2 DEF Open
  <2>. QED
    BY <1>1, <1>8, <2>1, <2>3
<1>11. tasks' \in Seq(Task) /\ muted' \in SUBSET Calls /\ JoinedOf(n, tasks') = J
       /\ TasksFit(tasks', muted', stored, written, known, (d + 2)..n, J)
       /\ DoneFit(d + 1, n, muted', Listening, J, AnsweredOf(Tail(E)))
  <2>1. AnsweredOf(Tail(E)) \subseteq AnsweredOf(E)
    BY <1>3, EventLess
  <2>2. RemoveTask(d + 1) \in Task /\ d + 1 \in Calls /\ muted \in SUBSET Calls
    <3>1. d + 1 \in Nat
      BY <1>1
    <3>2. d + 1 \in Calls
      BY <1>1, <1>7, BoundsAssumption DEF Calls
    <3>. QED
      BY <3>1, <3>2, Start, TaskNames DEF TypeOK
  <2>3. \A i \in 1..(d + 1) : i = d + 1 \/ i \in 1..d
    BY <1>1
  <2>4. 1..d \subseteq 1..(d + 1) /\ d + 1 \in 1..(d + 1)
    BY <1>1
  <2>5. CASE /\ muted' = muted \cup {d + 1} /\ tasks' = Append(tasks, RemoveTask(d + 1))
    <3>1. tasks' \in Seq(Task)
      BY <2>2, <2>5, Start, Types, TaskMore
    <3>2. JoinedOf(n, tasks') = J
      BY <1>3, <1>9, <2>5 DEF J
    <3>3. TasksFit(tasks', muted', stored, written, known, (d + 2)..n, J)
      BY <1>3, <1>9, <1>10, <2>5 DEF J
    <3>4. DoneFit(d + 1, n, muted', Listening, J, AnsweredOf(Tail(E)))
      BY <1>4, <1>6, <1>7, <2>1, <2>3, <2>4, <2>5 DEF DoneFit
    <3>. QED
      BY <2>2, <2>5, <3>1, <3>2, <3>3, <3>4
  <2>6. CASE h.type = "error" /\ UNCHANGED <<tasks, muted>>
    <3>1. tasks' \in Seq(Task)
      BY <2>6, Start, Types
    <3>2. JoinedOf(n, tasks') = J
      BY <1>3, <2>6 DEF J
    <3>3. TasksFit(tasks', muted', stored, written, known, (d + 2)..n, J)
      BY <1>3, <1>9, <1>10, <2>6 DEF J
    <3>4. DoneFit(d + 1, n, muted', Listening, J, AnsweredOf(Tail(E)))
      BY <1>4, <1>6, <1>7, <2>1, <2>3, <2>4, <2>6 DEF DoneFit
    <3>. QED
      BY <2>2, <2>6, <3>1, <3>2, <3>3, <3>4
  <2>. QED
    BY <1>7, <2>5, <2>6 DEF h
<1>12. /\ ListenersFit(Listening, manager.raised, (d + 2)..n, J, AnsweredOf(Tail(E)))
       /\ EventsFit(Tail(E), Listening, (d + 2)..n, J, stored)
  <2>1. /\ (d + 2)..n \subseteq (d + 1)..n /\ Head(E).call \notin (d + 2)..n
        /\ ((d + 1)..n) \ ((d + 2)..n) \subseteq {Head(E).call}
    BY <1>1, <1>6
  <2>. QED
    BY <1>3, <1>4, <2>1, Start, EventDropped
<1>13. /\ calls' = n /\ Joined' = J /\ Listening' = Listening /\ Answered' = AnsweredOf(Tail(E))
  <2>1. calls' = n
    BY <1>1 DEF calls
  <2>2. Joined' = J
    BY <1>11, <2>1 DEF Joined, JoinedOf
  <2>. QED
    BY <1>2, <2>1, <2>2 DEF Listening, Answered, AnsweredOf
<1>14. CallsFit'
  BY <1>2, <1>8, <1>10, <1>11, <1>12, <1>13, Start, Parts DEF CallsFit
<1>15. TypeOK'
  BY <1>2, <1>8, <1>11, Start DEF TypeOK, bounds, calls
<1>16. StreamFit'
  BY <1>2, SameStream
<1>17. IInv'
  BY <1>14, <1>15, <1>16, TheInvariant, PTL
<1>. QED
  BY <1>1, <1>7, <1>17 DEF h

\* One event of the main queue.
LEMMA RunStep == ASSUME IInv, ListenerRuns PROVE IInv'
  BY MutedStep, CompleteStep DEF ListenerRuns, app

\* Nothing has happened yet.
LEMMA InitFits == Init => IInv
<1>. SUFFICES ASSUME Init PROVE IInv
  OBVIOUS
<1>1. \A T : <<>> \in Seq(T)
  OBVIOUS
<1>2. DOMAIN (<<>>) = {} /\ Range(<<>>) = {} /\ Len(<<>>) = 0
  BY DEF Range
<1>3. /\ manager \in Manager /\ manager.listeners = <<>> /\ manager.raised = {}
      /\ manager.online = "Unknown" /\ ~manager.synced /\ manager.events = <<>>
  BY <1>1 DEF Init, Manager
<1>4. tracker = Settled /\ watch = Stream("stopped")
  BY DEF Init, Settled
<1>5. Stream("stopped").state = "stopped" /\ Waits(manager) = {}
  BY <1>2, <1>3, StreamFields DEF Waits
<1>6. StreamGood(manager, tracker, watch, refused, orphan)
  BY <1>3, <1>4, <1>5, FreshStream, TrackerFields DEF StreamGood
<1>7. calls = 0 /\ Open = {} /\ Joined = {} /\ Listening = {} /\ Answered = {}
  BY <1>2, <1>3 DEF Init, calls, Open, Joined, Listening, Answered
<1>8. CallsFit
  <2>1. TasksFit(<<>>, {}, 0, 0, <<>>, {}, {})
    BY <1>2 DEF TasksFit, Once
  <2>2. Rising(<<>>) /\ ListenersFit({}, {}, {}, {}, {})
    BY <1>2 DEF Rising, ListenersFit
  <2>3. EventsFit(<<>>, {}, {}, {}, 0)
    BY <1>2 DEF EventsFit, AnsweredOf, FirstsInOrder, ErrorsLast, Shown
  <2>4. DoneFit(0, 0, {}, {}, {}, {})
    BY DEF DoneFit
  <2>. QED
    BY <1>2, <1>3, <1>7, <2>1, <2>2, <2>3, <2>4 DEF CallsFit, Init
<1>9. TypeOK
  <2>1. watch \in Watch /\ tracker \in Tracker
    BY <1>4, FreshStream, TrackerFields
  <2>2. known \in Seq(0..MaxWrites) /\ tasks \in Seq(Task) /\ completed \in Seq(Calls)
    BY <1>1 DEF Init
  <2>3. calls <= MaxCalls /\ written \in 0..MaxWrites /\ stored \in 0..MaxWrites
    BY <1>7, BoundsAssumption DEF Init
  <2>4. /\ muted \in SUBSET Calls /\ changes \in Nat /\ faults \in Nat
        /\ refused \in BOOLEAN /\ orphan \in BOOLEAN
    BY DEF Init
  <2>. QED
    BY <1>3, <2>1, <2>2, <2>3, <2>4 DEF TypeOK
<1>10. StreamFit
  BY <1>6, StreamWords
<1>. QED
  BY <1>8, <1>9, <1>10, TheInvariant

\* Nothing happens.
LEMMA Stutter == ASSUME IInv, UNCHANGED vars PROVE IInv'
<1>1. /\ UNCHANGED <<known, written, muted, completed, stored, tasks, manager, tracker, watch>>
      /\ UNCHANGED <<changes, faults, refused, orphan>>
  BY DEF vars, app, bounds
<1>2. calls' = calls
  BY <1>1 DEF calls
<1>3. TypeOK'
  BY <1>1, <1>2, Start DEF TypeOK
<1>4. StreamFit'
  BY <1>1, SameStream
<1>5. /\ Open' = Open /\ Joined' = Joined /\ Listening' = Listening /\ Answered' = Answered
  BY <1>1, <1>2 DEF Open, Joined, Listening, Answered
<1>6. CallsFit'
  BY <1>1, <1>2, <1>5, Start DEF CallsFit
<1>. QED
  BY <1>3, <1>4, <1>6, TheInvariant, PTL

\* Every step keeps the invariant.
LEMMA NextFits == ASSUME IInv, [Next]_vars PROVE IInv'
  BY AskStep, WriteStep, RunStep, WorkStep, TimerStep, OpenStep, FailStep, IdleStep, TakeStep,
     SnapshotStep, ReceiveStep, Stutter DEF Next

\* The invariant holds in every run: no assertion of OnlineStateTracker and RemoteStore fails;
\* a listener waits only while there is something to wait for; until the server refuses, every
\* reply is counted against its request; and calls pass the worker queue, the listeners and
\* the main queue in the order in which they were made, each with the writes made before it
\* (FSTEventManager, OnlineStateTracker, RemoteStore, FIRFirestore getDocuments).
THEOREM InvariantHolds == Spec => []IInv
<1>1. Init => IInv
  BY InitFits
<1>2. IInv /\ [Next]_vars => IInv'
  BY NextFits
<1>. QED
  BY <1>1, <1>2, PTL DEF Spec

\* The assertions of OnlineStateTracker and RemoteStore that the reads pass cannot fail,
\* whatever the network and the server do.
THEOREM AssertionsHold == Spec => []NoAssertFails
<1>1. IInv => NoAssertFails
  BY DEF IInv
<1>. QED
  BY <1>1, InvariantHolds, PTL

\* No listener waits for a server that has answered or counts as unreachable, or without the
\* ten seconds running unless it joined the attempt of calls that are gone
\* (FSTQueryListener, OnlineStateTracker).
THEOREM WaitsHaveReasons == Spec => []WaitsForGoodReason
<1>1. IInv => WaitsForGoodReason
  BY DEF IInv
<1>. QED
  BY <1>1, InvariantHolds, PTL

-----------------------------------------------------------------------------
(***************************************************************************)
(* The refinement.  A call that is not completed is read from its first    *)
(* event, and that stays its first while events are posted behind it and   *)
(* those of other calls are run.                                           *)
(***************************************************************************)

\* A call as OpenReads sees it, and what an event of a type makes of it.
Rec(status, before, shows) == [status |-> status, before |-> before, shows |-> shows]
StatusOf(type) == IF type = "error" THEN "failed" ELSE "answered"
IsFirst(E, c, j) ==
    /\ j \in DOMAIN E /\ E[j].call = c
    /\ \A i \in DOMAIN E : E[i].call = c => j <= i
EventsOf(E, c) == {i \in DOMAIN E : E[i].call = c}

\* Call c, as OpenReads sees it.
ReadOf(k, E, c) ==
    IF EventsOf(E, c) = {} THEN Rec("asked", k[c], 0)
    ELSE LET e == E[CHOOSE j \in EventsOf(E, c) : \A i \in EventsOf(E, c) : j <= i] IN
         Rec(StatusOf(e.type), k[c], e.shows)
\* Those that are not completed.
ReadsOf(d, n, k, E) == [i \in 1..(n - d) |-> ReadOf(k, E, d + i)]

\* The read r, answered.
WithAnswer(r, status, shows) == [r EXCEPT !.status = status, !.shows = shows]

\* An answered read is the read that was asked, with an answer.
LEMMA RecAnswered ==
    ASSUME NEW s, NEW b, NEW n, NEW t, NEW m, NEW r, r = Rec(s, b, n)
    PROVE  WithAnswer(r, t, m) = Rec(t, b, m)
<1>1. r \in [status : {s}, before : {b}, shows : {n}] /\ r.before = b
  BY DEF Rec
<1>2. Rec(t, b, m) \in [status : {t}, before : {b}, shows : {m}]
  BY DEF Rec
<1>3. PICK q : q = [r EXCEPT !.status = t, !.shows = m]
  OBVIOUS
<1>4. q \in [status : {t}, before : {b}, shows : {m}]
  BY <1>1, <1>3
<1>. QED
  BY <1>1, <1>2, <1>3, <1>4 DEF Rec, WithAnswer

\* A call without an event has been asked.
LEMMA ReadAsked ==
    ASSUME NEW k, NEW E, NEW c, c \notin AnsweredOf(E)
    PROVE  ReadOf(k, E, c) = Rec("asked", k[c], 0)
<1>1. EventsOf(E, c) = {}
  BY DEF EventsOf, AnsweredOf
<1>. QED
  BY <1>1 DEF ReadOf

\* A call with a first event has the answer that is in it.
LEMMA ReadFirst ==
    ASSUME NEW k, NEW E, NEW c, NEW N \in Nat, DOMAIN E = 1..N, NEW j, IsFirst(E, c, j)
    PROVE  ReadOf(k, E, c) = Rec(StatusOf(E[j].type), k[c], E[j].shows)
<1>. DEFINE H == EventsOf(E, c)  m == CHOOSE x \in H : \A i \in H : x <= i
<1>1. j \in H /\ H \subseteq 1..N /\ \A i \in H : j <= i
  BY DEF IsFirst, EventsOf
<1>2. ReadOf(k, E, c) = Rec(StatusOf(E[m].type), k[c], E[m].shows)
  BY <1>1 DEF ReadOf
<1>. HIDE DEF H
<1>3. m \in H /\ \A i \in H : m <= i
  BY <1>1
<1>. HIDE DEF m
<1>4. m <= j /\ j <= m /\ m \in Nat /\ j \in Nat
  BY <1>1, <1>3
<1>5. m = j
  BY <1>4
<1>. QED
  BY <1>2, <1>5

\* A call with an event has a first.
LEMMA FirstEvent ==
    ASSUME NEW E, NEW N \in Nat, DOMAIN E = 1..N, NEW c \in AnsweredOf(E)
    PROVE  \E j \in 1..N : IsFirst(E, c, j)
<1>. DEFINE H == EventsOf(E, c)
<1>1. H \in SUBSET Nat /\ H # {}
  BY DEF EventsOf, AnsweredOf
<1>2. PICK j \in H : \A i \in H : j <= i
  BY <1>1, Least
<1>3. j \in 1..N /\ IsFirst(E, c, j)
  BY <1>2 DEF EventsOf, IsFirst
<1>. QED
  BY <1>3

\* Nothing new is read of call c.
SameRead(k, E, F, c) == ReadOf(k, F, c) = ReadOf(k, E, c)

\* Events posted behind the first do not change what is read, and are read where there
\* was none.
LEMMA ReadPosted ==
    ASSUME NEW k, NEW E, NEW F, NEW cs, NEW type, NEW st, Extended(F, E, cs, type, st), NEW c
    PROVE  /\ c \in AnsweredOf(E) => SameRead(k, E, F, c)
           /\ c \notin AnsweredOf(F) => SameRead(k, E, F, c)
           /\ c \in AnsweredOf(F) \ AnsweredOf(E) =>
                  ReadOf(k, F, c) = Rec(StatusOf(type), k[c], st)
<1>. DEFINE a == Len(E)  b == Len(cs)
<1>0. AnsweredOf(E) \subseteq AnsweredOf(F)
  BY DEF Extended
<1>1. /\ a \in Nat /\ b \in Nat
      /\ DOMAIN E = 1..a /\ DOMAIN F = 1..(a + b)
      /\ \A i \in 1..a : F[i] = E[i]
      /\ \A i \in 1..b : F[a + i].type = type /\ F[a + i].shows = st
      /\ \A j \in DOMAIN F : j \in 1..a \/ \E i \in 1..b : j = a + i
  BY DEF Extended
<1>. HIDE DEF a, b
<1>2. ASSUME c \in AnsweredOf(E) PROVE SameRead(k, E, F, c)
  <2>1. PICK j \in 1..a : IsFirst(E, c, j)
    BY <1>1, <1>2, FirstEvent
  <2>2. ReadOf(k, E, c) = Rec(StatusOf(E[j].type), k[c], E[j].shows)
    BY <1>1, <2>1, ReadFirst
  <2>3. j \in 1..(a + b) /\ F[j] = E[j] /\ F[j].call = c
    BY <1>1, <2>1 DEF IsFirst
  <2>4. \A i \in 1..(a + b) : F[i].call = c => j <= i
    <3>1. TAKE i \in 1..(a + b)
    <3>2. HAVE F[i].call = c
    <3>3. CASE i \in 1..a
      BY <1>1, <2>1, <3>2, <3>3 DEF IsFirst
    <3>4. CASE i \notin 1..a
      BY <1>1, <3>4
    <3>. QED
      BY <3>3, <3>4
  <2>5. IsFirst(F, c, j)
    BY <1>1, <2>3, <2>4 DEF IsFirst
  <2>6. a + b \in Nat
    BY <1>1
  <2>7. ReadOf(k, F, c) = Rec(StatusOf(F[j].type), k[c], F[j].shows)
    BY <1>1, <2>5, <2>6, ReadFirst
  <2>. QED
    BY <2>2, <2>3, <2>7 DEF SameRead
<1>3. ASSUME c \notin AnsweredOf(F) PROVE SameRead(k, E, F, c)
  <2>1. c \notin AnsweredOf(E)
    BY <1>0, <1>3
  <2>. QED
    BY <1>3, <2>1, ReadAsked DEF SameRead
<1>4. ASSUME c \in AnsweredOf(F) \ AnsweredOf(E)
      PROVE  ReadOf(k, F, c) = Rec(StatusOf(type), k[c], st)
  <2>0. a + b \in Nat
    BY <1>1
  <2>1. PICK j \in 1..(a + b) : IsFirst(F, c, j)
    BY <1>1, <1>4, <2>0, FirstEvent
  <2>2. j \notin 1..a
    BY <1>1, <1>4, <2>1 DEF IsFirst, AnsweredOf
  <2>3. F[j].type = type /\ F[j].shows = st
    BY <1>1, <2>2
  <2>4. ReadOf(k, F, c) = Rec(StatusOf(F[j].type), k[c], F[j].shows)
    BY <1>1, <2>0, <2>1, ReadFirst
  <2>. QED
    BY <2>3, <2>4
<1>. QED
  BY <1>2, <1>3, <1>4

\* The event of another call is run.
LEMMA ReadRun ==
    ASSUME NEW k, NEW E \in Seq(Event), E # <<>>, NEW c, Head(E).call # c
    PROVE  ReadOf(k, Tail(E), c) = ReadOf(k, E, c)
<1>. DEFINE N == Len(E)  T == Tail(E)
<1>1. /\ N \in Nat /\ N >= 1 /\ Head(E) = E[1] /\ DOMAIN E = 1..N /\ DOMAIN T = 1..(N - 1)
      /\ \A i \in 1..(N - 1) : T[i] = E[i + 1] /\ i + 1 \in 1..N
      /\ \A j \in 1..N : j = 1 \/ (j - 1 \in 1..(N - 1) /\ T[j - 1] = E[j])
      /\ AnsweredOf(E) = AnsweredOf(T) \cup {Head(E).call}
  BY EventLess
<1>. HIDE DEF N, T
<1>2. CASE c \notin AnsweredOf(E)
  <2>1. c \notin AnsweredOf(T)
    BY <1>1, <1>2
  <2>. QED
    BY <1>2, <2>1, ReadAsked DEF T
<1>3. CASE c \in AnsweredOf(E)
  <2>1. PICK j \in 1..N : IsFirst(E, c, j)
    BY <1>1, <1>3, FirstEvent
  <2>2. j # 1 /\ E[j].call = c
    BY <1>1, <2>1 DEF IsFirst
  <2>3. PICK h \in 1..(N - 1) : h = j - 1 /\ j = h + 1 /\ T[h] = E[j]
    BY <1>1, <2>2
  <2>4. \A i \in 1..(N - 1) : T[i].call = c => h <= i
    <3>1. TAKE i \in 1..(N - 1)
    <3>2. HAVE T[i].call = c
    <3>3. E[i + 1].call = c /\ i + 1 \in DOMAIN E
      BY <1>1, <3>2
    <3>4. j <= i + 1
      BY <2>1, <3>3 DEF IsFirst
    <3>. QED
      BY <1>1, <2>3, <3>4
  <2>5. IsFirst(T, c, h)
    BY <1>1, <2>2, <2>3, <2>4 DEF IsFirst
  <2>6. N - 1 \in Nat
    BY <1>1
  <2>7. ReadOf(k, T, c) = Rec(StatusOf(T[h].type), k[c], T[h].shows)
    BY <1>1, <2>5, <2>6, ReadFirst
  <2>8. ReadOf(k, E, c) = Rec(StatusOf(E[j].type), k[c], E[j].shows)
    BY <1>1, <2>1, ReadFirst
  <2>. QED
    BY <2>3, <2>7, <2>8 DEF T
<1>. QED
  BY <1>2, <1>3

\* A call is waiting in OpenReads as long as it has no event.
LEMMA ReadStatus ==
    ASSUME NEW k, NEW E, NEW N \in Nat, DOMAIN E = 1..N, NEW c
    PROVE  ReadOf(k, E, c).status = "asked" <=> c \notin AnsweredOf(E)
<1>1. CASE c \notin AnsweredOf(E)
  <2>1. ReadOf(k, E, c) = Rec("asked", k[c], 0)
    BY <1>1, ReadAsked
  <2>2. ReadOf(k, E, c).status = "asked"
    BY <2>1 DEF Rec
  <2>. QED
    BY <1>1, <2>2
<1>2. CASE c \in AnsweredOf(E)
  <2>1. PICK j \in 1..N : IsFirst(E, c, j)
    BY <1>2, FirstEvent
  <2>2. ReadOf(k, E, c) = Rec(StatusOf(E[j].type), k[c], E[j].shows)
    BY <2>1, ReadFirst
  <2>3. ReadOf(k, E, c).status = StatusOf(E[j].type)
    BY <2>2 DEF Rec
  <2>. QED
    BY <1>2, <2>3 DEF StatusOf
<1>. QED
  BY <1>1, <1>2

\* An open call older than an answered one is answered.
LEMMA OlderAnswered ==
    ASSUME NEW E, NEW O, FirstsInOrder(E, O), NEW c \in O, NEW x \in AnsweredOf(E), c < x
    PROVE  c \in AnsweredOf(E)
<1>1. PICK j \in DOMAIN E : x = E[j].call
  BY DEF AnsweredOf
<1>2. PICK i \in DOMAIN E : E[i].call = c
  BY <1>1 DEF FirstsInOrder
<1>. QED
  BY <1>2 DEF AnsweredOf

\* What Reads says of the step from Q to R that answers reads.
Answers(Q, R, w) ==
    \E first, last \in DOMAIN Q, status \in {"answered", "failed"}, shows \in 0..w :
        /\ \A i \in DOMAIN Q : i < first => Q[i].status # "asked"
        /\ \A i \in first..last : Q[i].status = "asked"
        /\ status = "answered" => \A i \in first..last : Q[i].before <= shows
        /\ R = [i \in DOMAIN Q |->
                   IF i \in first..last
                   THEN WithAnswer(Q[i], status, shows) ELSE Q[i]]

\* Events that are posted answer calls, if any, without a gap.
LEMMA PostAnswers ==
    ASSUME NEW E, NEW F, NEW cs, NEW type, NEW st \in Nat, Extended(F, E, cs, type, st),
           NEW d \in Nat, NEW n \in Nat, NEW k, NEW w \in Nat, st <= w,
           FirstsInOrder(E, (d + 1)..n), FirstsInOrder(F, (d + 1)..n),
           \A c \in AnsweredOf(F) : c \in Nat /\ k[c] <= st,
           NEW Q, Q = ReadsOf(d, n, k, E), NEW R, R = ReadsOf(d, n, k, F)
    PROVE  R = Q \/ Answers(Q, R, w)
<1>. DEFINE D == 1..(n - d)  A == AnsweredOf(E)  B == AnsweredOf(F)
            N == {i \in D : d + i \in B \ A}
<1>1. DOMAIN Q = D /\ \A i \in D : Q[i] = ReadOf(k, E, d + i) /\ R[i] = ReadOf(k, F, d + i)
  BY DEF ReadsOf
<1>2. Q = [i \in D |-> Q[i]] /\ R = [i \in D |-> R[i]]
  BY DEF ReadsOf
<1>3. \A i \in D : i \in Nat /\ d + i \in (d + 1)..n /\ d + i \in Nat
  OBVIOUS
<1>4. PICK a \in Nat : DOMAIN E = 1..a
  BY DEF Extended
<1>. HIDE DEF D, A, B
<1>5. \A i \in D : Q[i].status = "asked" <=> d + i \notin A
  <2>1. TAKE i \in D
  <2>2. ReadOf(k, E, d + i).status = "asked" <=> d + i \notin A
    BY <1>4, ReadStatus DEF A
  <2>. QED
    BY <1>1, <2>2
<1>6. \A i \in D \ N : R[i] = Q[i]
  <2>1. TAKE i \in D \ N
  <2>2. d + i \in A \/ d + i \notin B
    OBVIOUS
  <2>. PICK c : c = d + i
    OBVIOUS
  <2>3. c \in AnsweredOf(E) \/ c \notin AnsweredOf(F)
    BY <2>2 DEF A, B
  <2>4. SameRead(k, E, F, c)
    BY <2>3, ReadPosted
  <2>. QED
    BY <1>1, <2>4 DEF SameRead
<1>7. \A i \in N : /\ Q[i] = Rec("asked", k[d + i], 0) /\ R[i] = Rec(StatusOf(type), k[d + i], st)
                   /\ k[d + i] <= st
  <2>1. TAKE i \in N
  <2>2. ReadOf(k, F, d + i) = Rec(StatusOf(type), k[d + i], st)
    BY ReadPosted DEF A, B
  <2>3. ReadOf(k, E, d + i) = Rec("asked", k[d + i], 0)
    BY ReadAsked DEF A
  <2>. QED
    BY <1>1, <2>2, <2>3 DEF B
<1>8. CASE N = {}
  BY <1>2, <1>6, <1>8
<1>9. CASE N # {}
  <2>1. PICK first \in N : \A i \in N : first <= i
    BY <1>3, <1>9, Least
  <2>2. PICK last \in N : \A i \in N : i <= last
    <3>1. PICK m \in Nat : D \subseteq 0..m
      <4>1. D \subseteq 0..n
        BY DEF D
      <4>. QED
        BY <4>1
    <3>2. N \in SUBSET (0..m)
      BY <3>1
    <3>. QED
      BY <1>9, <3>1, <3>2, Greatest
  <2>3. first \in D /\ last \in D /\ first \in Nat /\ last \in Nat /\ d + first \in B \ A /\ d + last \in B
    BY <1>3
  <2>4. \A i \in D : i < first => d + i \in A
    <3>1. TAKE i \in D
    <3>2. HAVE i < first
    <3>3. d + i < d + first /\ i \notin N
      BY <1>3, <2>1, <2>3, <3>2
    <3>4. d + i \in B
      BY <1>3, <2>3, <3>3, OlderAnswered DEF B
    <3>. QED
      BY <3>3, <3>4
  <2>5. \A i : i \in first..last <=> i \in N
    <3>1. ASSUME NEW i \in N PROVE i \in first..last
      BY <1>3, <2>1, <2>2, <2>3
    <3>2. ASSUME NEW i \in first..last PROVE i \in N
      <4>1. i \in D
        BY <2>3, <3>2 DEF D
      <4>2. d + i \in B
        <5>1. i = last \/ d + i < d + last
          BY <1>3, <2>3, <3>2, <4>1
        <5>. QED
          BY <1>3, <2>3, <4>1, <5>1, OlderAnswered DEF B
      <4>3. d + i \notin A
        <5>1. i = first \/ d + first < d + i
          BY <1>3, <2>3, <3>2, <4>1
        <5>2. ASSUME d + i \in A, d + first < d + i PROVE FALSE
          BY <1>3, <2>3, <5>2, OlderAnswered DEF A
        <5>. QED
          BY <2>3, <5>1, <5>2
      <4>. QED
        BY <4>1, <4>2, <4>3
    <3>. QED
      BY <3>1, <3>2
  <2>. HIDE DEF N
  <2>6. \A i \in D : i < first => Q[i].status # "asked"
    BY <1>5, <2>4
  <2>7. \A i \in first..last : Q[i].status = "asked" /\ Q[i].before <= st
    <3>1. TAKE i \in first..last
    <3>2. i \in N
      BY <2>5
    <3>3. PICK b : b = k[d + i] /\ Q[i] = Rec("asked", b, 0) /\ b <= st
      BY <1>7, <3>2
    <3>. QED
      BY <3>3 DEF Rec
  <2>8. \A i \in N : R[i] = WithAnswer(Q[i], StatusOf(type), st)
    <3>1. TAKE i \in N
    <3>2. PICK b, q : b = k[d + i] /\ q = Q[i] /\ q = Rec("asked", b, 0)
                      /\ R[i] = Rec(StatusOf(type), b, st)
      BY <1>7
    <3>3. WithAnswer(q, StatusOf(type), st) = Rec(StatusOf(type), b, st)
      BY <3>2, RecAnswered
    <3>. QED
      BY <3>2, <3>3
  <2>9. \A i \in D : R[i] = IF i \in first..last
                            THEN WithAnswer(Q[i], StatusOf(type), st) ELSE Q[i]
    BY <1>6, <2>5, <2>8
  <2>10. R = [i \in D |-> IF i \in first..last
                          THEN WithAnswer(Q[i], StatusOf(type), st) ELSE Q[i]]
    BY <1>2, <2>9
  <2>11. StatusOf(type) \in {"answered", "failed"} /\ st \in 0..w
    BY DEF StatusOf
  <2>12. DOMAIN Q = D
    BY <1>1
  <2>. QED
    BY <2>3, <2>6, <2>7, <2>10, <2>11, <2>12 DEF Answers
<1>. QED
  BY <1>8, <1>9

\* A function from 2 on is a tail, and one that goes further by one is longer by one.
TailOf(R, Q) == Q # <<>> /\ Head(Q) = Q[1] /\ R = Tail(Q)

LEMMA IsTail ==
    ASSUME NEW m \in Nat, m >= 1, NEW T, NEW Q \in [1..m -> T], NEW R \in [1..(m - 1) -> T],
           \A i \in 1..(m - 1) : R[i] = Q[i + 1]
    PROVE  TailOf(R, Q)
<1>1. m - 1 \in Nat
  OBVIOUS
<1>2. Q \in Seq(T) /\ R \in Seq(T) /\ Len(Q) = m /\ Len(R) = m - 1
  BY <1>1
<1>3. Q # <<>> /\ Head(Q) = Q[1]
  BY <1>2
<1>4. Tail(Q) \in Seq(T) /\ Len(Tail(Q)) = m - 1 /\ \A i \in 1..(m - 1) : Tail(Q)[i] = Q[i + 1]
  BY <1>2, <1>3, HeadTailProperties
<1>5. R = Tail(Q)
  <2>1. Len(R) = Len(Tail(Q)) /\ \A i \in 1..Len(R) : R[i] = Tail(Q)[i]
    BY <1>2, <1>4
  <2>. QED
    BY <1>2, <1>4, <2>1, SeqEqual
<1>. QED
  BY <1>3, <1>5 DEF TailOf

LEMMA IsAppend ==
    ASSUME NEW m \in Nat, NEW T, NEW Q \in [1..m -> T], NEW x \in T, NEW R \in [1..(m + 1) -> T],
           R[m + 1] = x, \A i \in 1..m : R[i] = Q[i]
    PROVE  R = Append(Q, x)
<1>1. m + 1 \in Nat
  OBVIOUS
<1>2. Q \in Seq(T) /\ R \in Seq(T) /\ Len(Q) = m /\ Len(R) = m + 1
  BY <1>1
<1>3. /\ Append(Q, x) \in Seq(T) /\ Len(Append(Q, x)) = m + 1
      /\ \A i \in 1..m : Append(Q, x)[i] = Q[i]
      /\ Append(Q, x)[m + 1] = x
  BY <1>2, AppendNumber
<1>4. \A i \in 1..(m + 1) : i = m + 1 \/ i \in 1..m
  OBVIOUS
<1>5. Len(R) = Len(Append(Q, x)) /\ \A i \in 1..Len(R) : R[i] = Append(Q, x)[i]
  BY <1>2, <1>3, <1>4
<1>. QED
  BY <1>2, <1>3, <1>5, SeqEqual

\* The oldest call is completed.
Completed(R, Q) == Q # <<>> /\ Head(Q).status # "asked" /\ R = Tail(Q)
LEMMA RunCompletes ==
    ASSUME NEW E \in Seq(Event), E # <<>>, NEW d \in Nat, NEW n \in Nat, NEW k,
           Head(E).call = d + 1, d + 1 <= n,
           NEW Q, Q = ReadsOf(d, n, k, E)
    PROVE  Completed(ReadsOf(d + 1, n, k, Tail(E)), Q)
<1>1. PICK m \in Nat : m = n - d /\ m >= 1 /\ n - (d + 1) = m - 1
  OBVIOUS
<1>. DEFINE T == {ReadOf(k, E, c) : c \in 1..n}  R == ReadsOf(d + 1, n, k, Tail(E))
<1>2. DOMAIN Q = 1..m /\ \A i \in 1..m : Q[i] = ReadOf(k, E, d + i) /\ d + i \in 1..n
  BY <1>1 DEF ReadsOf
<1>3. Q \in [1..m -> T]
  BY <1>1, <1>2 DEF ReadsOf
<1>4. Head(E).call = d + 1 => AnsweredOf(E) = AnsweredOf(Tail(E)) \cup {d + 1}
  BY EventLess
<1>5. Q[1].status # "asked"
  <2>1. PICK a \in Nat : DOMAIN E = 1..a
    BY EventLess
  <2>2. ReadOf(k, E, d + 1).status = "asked" <=> d + 1 \notin AnsweredOf(E)
    BY <2>1, ReadStatus
  <2>3. 1 \in 1..m
    BY <1>1
  <2>. QED
    BY <1>2, <1>4, <2>2, <2>3
<1>6. \A i \in 1..(m - 1) : Q[i + 1] = ReadOf(k, Tail(E), (d + 1) + i)
  <2>1. TAKE i \in 1..(m - 1)
  <2>2. i + 1 \in 1..m /\ d + (i + 1) = (d + 1) + i /\ d + 1 # (d + 1) + i
    BY <1>1
  <2>3. PICK c : c = (d + 1) + i
    OBVIOUS
  <2>4. ReadOf(k, Tail(E), c) = ReadOf(k, E, c)
    BY <2>2, <2>3, ReadRun
  <2>. QED
    BY <1>2, <2>2, <2>3, <2>4
<1>7. R = [i \in 1..(m - 1) |-> ReadOf(k, Tail(E), (d + 1) + i)]
  BY <1>1 DEF ReadsOf
<1>. HIDE DEF T, R
<1>8. \A i \in 1..(m - 1) : R[i] = Q[i + 1] /\ i + 1 \in 1..m
  BY <1>1, <1>6, <1>7
<1>9. R \in [1..(m - 1) -> T]
  BY <1>3, <1>7, <1>8
<1>10. TailOf(R, Q)
  <2>1. \A i \in 1..(m - 1) : R[i] = Q[i + 1]
    BY <1>8
  <2>2. m >= 1
    BY <1>1
  <2>. QED
    BY <1>3, <1>9, <2>1, <2>2, IsTail
<1>. QED
  BY <1>5, <1>10 DEF R, TailOf, Completed

\* One more call.
Appended(R, Q, x) == R = Append(Q, x)
LEMMA AskAppends ==
    ASSUME NEW E, NEW d \in Nat, NEW n \in Nat, d <= n, NEW k \in Seq(Nat), Len(k) = n,
           NEW x \in Nat, n + 1 \notin AnsweredOf(E),
           NEW Q, Q = ReadsOf(d, n, k, E)
    PROVE  Appended(ReadsOf(d, n + 1, Append(k, x), E), Q, Rec("asked", x, 0))
<1>. DEFINE l == Append(k, x)  T == {ReadOf(l, E, c) : c \in 1..(n + 1)}
            R == ReadsOf(d, n + 1, l, E)
<1>1. PICK m \in Nat : m = n - d /\ (n + 1) - d = m + 1 /\ d + (m + 1) = n + 1
  OBVIOUS
<1>2. Q = [i \in 1..m |-> ReadOf(k, E, d + i)] /\ R = [i \in 1..(m + 1) |-> ReadOf(l, E, d + i)]
  BY <1>1 DEF ReadsOf
<1>3. \A c \in 1..n : l[c] = k[c]
  OBVIOUS
<1>4. l[n + 1] = x
  OBVIOUS
<1>. HIDE DEF l, R
<1>5. \A c \in 1..n : ReadOf(l, E, c) = ReadOf(k, E, c)
  BY <1>3 DEF ReadOf
<1>6. ReadOf(l, E, n + 1) = Rec("asked", x, 0)
  BY <1>4, ReadAsked
<1>7. \A i \in 1..(m + 1) : d + i \in 1..(n + 1)
  BY <1>1
<1>8. \A i \in 1..m : i \in 1..(m + 1) /\ d + i \in 1..n
  BY <1>1
<1>9. R \in [1..(m + 1) -> T]
  BY <1>2, <1>7
<1>10. \A i \in 1..m : R[i] = Q[i]
  BY <1>2, <1>5, <1>8
<1>11. Q \in [1..m -> T]
  BY <1>2, <1>8, <1>9, <1>10
<1>12. m + 1 \in 1..(m + 1) /\ n + 1 \in 1..(n + 1)
  BY <1>1
<1>13. R[m + 1] = Rec("asked", x, 0)
  BY <1>1, <1>2, <1>6, <1>12
<1>14. Rec("asked", x, 0) \in T
  BY <1>6, <1>12
<1>. HIDE DEF T
<1>15. R = Append(Q, Rec("asked", x, 0))
  BY <1>9, <1>10, <1>11, <1>13, <1>14, IsAppend
<1>. QED
  BY <1>15 DEF R, l, Appended

-----------------------------------------------------------------------------
(***************************************************************************)
(* Every step is one of Reads, or none.                                    *)
(***************************************************************************)

\* The open calls are unmuted, so that every event of theirs will be heard.
LEMMA OpenReadsAre ==
    ASSUME IInv
    PROVE  OpenReads = ReadsOf(Len(completed), calls, known, manager.events)
<1>1. PICK d \in Nat, n \in Nat : d = Len(completed) /\ n = calls
  BY Start, Types
<1>2. muted \subseteq 1..d
  BY <1>1, Start, Parts DEF DoneFit
<1>3. PICK E : E = manager.events
  OBVIOUS
<1>4. ASSUME NEW i \in 1..(n - d) PROVE Heard(d + i) = EventsOf(E, d + i)
  <2>1. d + i \notin muted
    BY <1>2
  <2>. QED
    BY <1>3, <2>1 DEF Heard, EventsOf
<1>. DEFINE R(H, c) ==
         IF H = {} THEN Rec("asked", known[c], 0)
         ELSE LET e == E[CHOOSE j \in H : \A k \in H : j <= k] IN
              Rec(StatusOf(e.type), known[c], e.shows)
<1>5. OpenReads = [i \in 1..(n - d) |-> R(Heard(d + i), d + i)]
  BY <1>1, <1>3 DEF OpenReads, Rec, StatusOf
<1>6. \A c : ReadOf(known, E, c) = R(EventsOf(E, c), c)
  BY DEF ReadOf
<1>. HIDE DEF R
<1>7. OpenReads = [i \in 1..(n - d) |-> ReadOf(known, E, d + i)]
  BY <1>4, <1>5, <1>6
<1>. QED
  BY <1>1, <1>3, <1>7 DEF ReadsOf

\* So they are after the step.
LEMMA OpenReadsWillBe ==
    ASSUME IInv'
    PROVE  OpenReads' = ReadsOf(Len(completed'), Len(known'), known', manager'.events)
<1>1. (OpenReads = ReadsOf(Len(completed), calls, known, manager.events))'
  BY OpenReadsAre, PTL
<1>2. calls' = Len(known')
  BY DEF calls
<1>. QED
  BY <1>1, <1>2 DEF ReadsOf, ReadOf, EventsOf, Rec, StatusOf

\* What the refinement needs of the invariant.
LEMMA ReadsFit ==
    ASSUME IInv
    PROVE  /\ FirstsInOrder(manager.events, (Len(completed) + 1)..calls)
           /\ \A c \in AnsweredOf(manager.events) : c \in 1..calls /\ known[c] <= stored
           /\ stored <= written /\ Len(completed) <= calls
  BY Start, Parts DEF EventsFit, TasksFit, DoneFit

\* The step of a party that makes no call, completes none, and writes nothing.
LEMMA QuietStep ==
    ASSUME IInv, IInv', UNCHANGED <<known, written, completed>>, Hears
    PROVE  OpenReads' = OpenReads \/ Answers(OpenReads, OpenReads', written)
<1>1. PICK cs \in Seq(Calls), type \in {"snapshot", "error"} :
          Extended(manager'.events, manager.events, cs, type, stored')
  BY DEF Hears
<1>p. PICK d \in Nat, n \in Nat, w \in Nat : d = Len(completed) /\ n = calls /\ w = written
  BY Start, Types
<1>q. PICK k, E, F, st :
          k = known /\ E = manager.events /\ F = manager'.events /\ st = stored'
  OBVIOUS
<1>2. /\ d = Len(completed) /\ n = calls /\ w = written /\ k = known
      /\ E = manager.events /\ F = manager'.events /\ st = stored'
  BY <1>p, <1>q
<1>3. /\ FirstsInOrder(manager.events, (Len(completed) + 1)..calls)'
      /\ (\A c \in AnsweredOf(manager.events) : c \in 1..calls /\ known[c] <= stored)'
      /\ (stored <= written)' /\ (stored \in Nat)'
  <2>1. (stored \in Nat)'
    BY Start, PTL
  <2>. QED
    BY <2>1, ReadsFit, PTL
<1>4. Len(completed') = d /\ calls' = n /\ Len(known') = n /\ known' = k /\ written' = w
  BY <1>2 DEF calls
<1>5. /\ FirstsInOrder(F, (d + 1)..n)
      /\ \A c \in AnsweredOf(F) : c \in 1..n /\ k[c] <= st
      /\ st <= w /\ st \in Nat
  BY <1>2, <1>3, <1>4 DEF FirstsInOrder, AnsweredOf
<1>6. FirstsInOrder(E, (d + 1)..n)
  BY <1>2, ReadsFit
<1>7. PICK Q : Q = ReadsOf(d, n, k, E) /\ Q = OpenReads
  BY <1>2, OpenReadsAre
<1>8. PICK R : R = ReadsOf(d, n, k, F) /\ R = OpenReads'
  BY <1>2, <1>4, OpenReadsWillBe
<1>9. Extended(F, E, cs, type, st)
  BY <1>1, <1>2
<1>10. \A c \in AnsweredOf(F) : c \in Nat /\ k[c] <= st
  BY <1>5
<1>11. R = Q \/ Answers(Q, R, w)
  BY <1>5, <1>6, <1>7, <1>8, <1>9, <1>10, PostAnswers
<1>. QED
  BY <1>2, <1>7, <1>8, <1>11

\* getDocuments() is Ask.
LEMMA AskQueue ==
    ASSUME IInv, IInv', GetDocuments
    PROVE  OpenReads' = Append(OpenReads, Rec("asked", written, 0)) /\ written' = written
<1>1. PICK d \in Nat, n \in Nat : d = Len(completed) /\ n = calls /\ d <= n
  BY Start, Types, ReadsFit
<1>2. PICK k \in Seq(Nat) : k = known /\ Len(k) = n
  BY <1>1, Start, Types DEF calls
<1>3. PICK x \in Nat : x = written
  BY Start, Types
<1>4. PICK E : E = manager.events
  OBVIOUS
<1>5. /\ known' = Append(k, x) /\ completed' = completed /\ manager' = manager
      /\ written' = written /\ Len(known') = n + 1
  BY <1>2, <1>3 DEF GetDocuments
<1>6. n + 1 \notin AnsweredOf(E)
  <2>1. \A c \in AnsweredOf(E) : c \in 1..n
    BY <1>1, <1>4, ReadsFit
  <2>. QED
    BY <2>1
<1>7. PICK Q : Q = ReadsOf(d, n, k, E) /\ Q = OpenReads
  BY <1>1, <1>2, <1>4, OpenReadsAre
<1>8. OpenReads' = ReadsOf(d, n + 1, Append(k, x), E)
  BY <1>1, <1>4, <1>5, OpenReadsWillBe
<1>9. Appended(ReadsOf(d, n + 1, Append(k, x), E), Q, Rec("asked", x, 0))
  BY <1>1, <1>2, <1>6, <1>7, AskAppends
<1>. QED
  BY <1>3, <1>5, <1>7, <1>8, <1>9 DEF Appended

\* setData() and delete() are Write.
LEMMA WriteQueue ==
    ASSUME IInv, IInv', WriteFeed
    PROVE  OpenReads' = OpenReads /\ written' = written + 1
<1>1. UNCHANGED <<known, completed, manager>> /\ written' = written + 1
  BY DEF WriteFeed
<1>. QED
  BY <1>1, OpenReadsAre, OpenReadsWillBe DEF calls

\* The block of a muted listener is none of Reads' steps.
LEMMA MutedQueue ==
    ASSUME IInv, IInv', UNCHANGED <<known, completed>>, manager.events # <<>>,
           manager' = [manager EXCEPT !.events = Tail(@)], Head(manager.events).call \in muted
    PROVE  OpenReads' = OpenReads
<1>1. PICK d \in Nat, n \in Nat : d = Len(completed) /\ n = calls
  BY Start, Types
<1>2. PICK E \in Seq(Event) : E = manager.events /\ E # <<>>
  BY Start, Types
<1>3. manager'.events = Tail(E)
  BY <1>2, Start, RunFields
<1>4. Head(E).call \in 1..d
  BY <1>1, <1>2, Start, Parts DEF DoneFit
<1>5. \A i \in 1..(n - d) : ReadOf(known, Tail(E), d + i) = ReadOf(known, E, d + i)
  <2>1. TAKE i \in 1..(n - d)
  <2>2. PICK c : c = d + i /\ Head(E).call # c
    BY <1>4
  <2>3. ReadOf(known, Tail(E), c) = ReadOf(known, E, c)
    BY <1>2, <2>2, ReadRun
  <2>. QED
    BY <2>2, <2>3
<1>6. ReadsOf(d, n, known, Tail(E)) = ReadsOf(d, n, known, E)
  BY <1>5 DEF ReadsOf
<1>7. OpenReads = ReadsOf(d, n, known, E)
  BY <1>1, <1>2, OpenReadsAre
<1>8. OpenReads' = ReadsOf(d, n, known, Tail(E))
  BY <1>1, <1>3, OpenReadsWillBe DEF calls
<1>. QED
  BY <1>6, <1>7, <1>8

\* That of an unmuted one is Complete.
LEMMA CompleteQueue ==
    ASSUME IInv, IInv', known' = known, manager.events # <<>>,
           manager' = [manager EXCEPT !.events = Tail(@)],
           Head(manager.events).call = Len(completed) + 1,
           completed' = Append(completed, Head(manager.events).call)
    PROVE  OpenReads # <<>> /\ Head(OpenReads).status # "asked" /\ OpenReads' = Tail(OpenReads)
<1>1. PICK d \in Nat, n \in Nat : d = Len(completed) /\ n = calls
  BY Start, Types
<1>2. PICK E \in Seq(Event) : E = manager.events /\ E # <<>>
  BY Start, Types
<1>3. manager'.events = Tail(E)
  BY <1>2, Start, RunFields
<1>4. Len(completed') = d + 1
  BY <1>1, Start, Types
<1>5. d + 1 <= n
  <2>1. (Len(completed) <= calls)'
    BY ReadsFit, PTL
  <2>. QED
    BY <1>1, <1>4, <2>1 DEF calls
<1>6. Head(E).call = d + 1
  BY <1>1, <1>2
<1>7. PICK k, Q : k = known /\ Q = ReadsOf(d, n, k, E) /\ Q = OpenReads
  BY <1>1, <1>2, OpenReadsAre
<1>8. OpenReads' = ReadsOf(d + 1, n, k, Tail(E))
  BY <1>1, <1>3, <1>4, <1>7, OpenReadsWillBe DEF calls
<1>9. Completed(ReadsOf(d + 1, n, k, Tail(E)), Q)
  BY <1>1, <1>2, <1>5, <1>6, <1>7, RunCompletes
<1>. QED
  BY <1>7, <1>8, <1>9 DEF Completed

\* What Reads says of a step that answers calls, in the words of the lemmas.
LEMMA AnswersIsAnswer ==
    ASSUME Answers(OpenReads, OpenReads', written), written' = written
    PROVE  Queue!Answer
  BY DEF Answers, WithAnswer, Queue!Answer

\* One step of the client is one of Reads, or none.
LEMMA QueueStep ==
    ASSUME IInv, IInv', [Next]_vars
    PROVE  [Queue!Next]_(Queue!vars)
<1>1. ASSUME UNCHANGED <<known, written, completed>>, Hears
      PROVE  [Queue!Next]_(Queue!vars)
  <2>1. CASE OpenReads' = OpenReads
    BY <1>1, <2>1 DEF Queue!vars
  <2>2. CASE Answers(OpenReads, OpenReads', written)
    BY <1>1, <2>2, AnswersIsAnswer DEF Queue!Next
  <2>. QED
    BY <1>1, <2>1, <2>2, QuietStep
<1>2. CASE GetDocuments
  <2>1. Queue!Ask
    BY <1>2, AskQueue DEF Queue!Ask, Queue!Asked, Rec
  <2>. QED
    BY <2>1 DEF Queue!Next
<1>3. CASE WriteFeed
  <2>1. Queue!Write
    BY <1>3, WriteQueue DEF Queue!Write
  <2>. QED
    BY <2>1 DEF Queue!Next
<1>4. CASE ListenerRuns
  <2>1. CASE Head(manager.events).call \in muted
    <3>1. OpenReads' = OpenReads /\ written' = written
      BY <1>4, <2>1, MutedQueue DEF ListenerRuns
    <3>. QED
      BY <3>1 DEF Queue!vars
  <2>2. CASE Head(manager.events).call \notin muted
    <3>1. Head(manager.events).call = Len(completed) + 1
      BY <1>4, <2>2, CompleteStep DEF ListenerRuns
    <3>2. /\ OpenReads # <<>> /\ Head(OpenReads).status # "asked"
          /\ OpenReads' = Tail(OpenReads) /\ written' = written
      BY <1>4, <2>2, <3>1, CompleteQueue DEF ListenerRuns
    <3>3. Queue!Complete
      BY <3>2 DEF Queue!Complete
    <3>. QED
      BY <3>3 DEF Queue!Next
  <2>. QED
    BY <2>1, <2>2
<1>5. CASE Work
  BY <1>1, <1>5, WorkStep DEF Work, app
<1>6. CASE TimerFires
  BY <1>1, <1>6, TimerStep DEF TimerFires, app
<1>7. CASE StreamOpens
  BY <1>1, <1>7, OpenStep DEF StreamOpens, app
<1>8. CASE StreamFails
  BY <1>1, <1>8, FailStep DEF StreamFails, app
<1>9. CASE IdleCloses
  BY <1>1, <1>9, IdleStep DEF IdleCloses, app
<1>10. CASE ServerTakes
  BY <1>1, <1>10, TakeStep DEF ServerTakes, app
<1>11. CASE ServerSnapshot
  BY <1>1, <1>11, SnapshotStep DEF ServerSnapshot, app
<1>12. CASE Receive
  BY <1>1, <1>12, ReceiveStep DEF Receive, app
<1>13. CASE UNCHANGED vars
  <2>1. UNCHANGED <<known, written, completed, manager>> /\ calls' = calls
    BY <1>13 DEF vars, app, calls
  <2>2. OpenReads' = OpenReads
    BY <2>1, OpenReadsAre, OpenReadsWillBe DEF calls
  <2>. QED
    BY <2>1, <2>2 DEF Queue!vars
<1>. QED
  BY <1>2, <1>3, <1>4, <1>5, <1>6, <1>7, <1>8, <1>9, <1>10, <1>11, <1>12, <1>13 DEF Next

\* There are no calls.
LEMMA QueueStarts == Init => Queue!Init
<1>. SUFFICES ASSUME Init PROVE Queue!Init
  OBVIOUS
<1>1. Len(completed) = 0 /\ calls = 0 /\ 1..(0 - 0) = {}
  BY DEF Init, calls
<1>2. OpenReads = <<>>
  BY <1>1 DEF OpenReads
<1>. QED
  BY <1>2 DEF Init, Queue!Init

\* GetDocuments implements Reads: in every run, a call is answered once, calls are answered
\* and completed in the order in which they were made, also when the stream breaks, the
\* server refuses, or requests of earlier calls are still being answered, and no answer but
\* a failure lacks a write that this phone made before the call
\* (FIRFirestore getDocumentsWithSource:, FSTEventManager, FSTView).
THEOREM ReadsImplemented == Spec => ImplementsReads
<1>1. IInv /\ IInv' /\ [Next]_vars => [Queue!Next]_(Queue!vars)
  BY QueueStep
<1>2. Init => Queue!Init
  BY QueueStarts
<1>3. Spec => []IInv
  BY InvariantHolds
<1>. QED
  BY <1>1, <1>2, <1>3, PTL DEF Spec, ImplementsReads, Queue!Spec

=============================================================================
