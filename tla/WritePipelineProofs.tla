------------------------- MODULE WritePipelineProofs -------------------------
(***************************************************************************)
(* No write is lost, none overtakes an older one, and no assertion of the  *)
(* write path fails, for any number of writes and failures and a pipeline  *)
(* of any length.                                                          *)
(*                                                                         *)
(* A response does not say which write it is about.  The code takes it for *)
(* the head of the pipeline; it is, because what the server has answered   *)
(* and has still to answer on this stream are the pipeline, in order       *)
(* (ResponsesMatch), and the pipeline is the oldest part of the queue      *)
(* (PipelineIsOldest), whatever filled it last.                            *)
(***************************************************************************)
EXTENDS WritePipeline, SequenceTheorems, FiniteSetTheorems, TLAPS

-----------------------------------------------------------------------------
(***************************************************************************)
(* The invariant, of the values a step computes with.                      *)
(***************************************************************************)

Grows(q) == \A i, j \in DOMAIN q : i < j => q[i].batchID < q[j].batchID

\* The pipeline p is the oldest part of the queue q.
Oldest(p, q) ==
    /\ p \in Seq(Batch) /\ Len(p) <= MaxPendingWrites /\ Len(p) <= Len(q)
    /\ \A i \in DOMAIN p : p[i] = q[i]

\* The responses and requests of a stream that may write are the pipeline p.
Carries(p, responses, requests) ==
    /\ Len(responses) + Len(requests) = Len(p)
    /\ \A i \in 1..Len(responses) :
           responses[i].type # "handshake" /\ responses[i].write = p[i].write
    /\ \A i \in DOMAIN requests : requests[i] = p[Len(responses) + i]

Greets(s) ==
    \/ s.requests = <<Handshake>> /\ s.responses = <<>>
    \/ s.requests = <<>> /\ s.responses = <<[type |-> "handshake", write |-> 0]>>

Quiet(s) == ~s.handshakeComplete /\ ~s.idle /\ s.requests = <<>> /\ s.responses = <<>>

\* The stream s is one that has been sending the pipeline p.
Fits(p, s) ==
    /\ s \in Stream
    /\ ~IsOpen(s) => Quiet(s)
    /\ s.state \in {"starting", "backoff"} => p # <<>>
    /\ IsOpen(s) /\ ~s.handshakeComplete => p # <<>> /\ ~s.idle /\ Greets(s)
    /\ CanWrite(s) => Carries(p, s.responses, s.requests)
    /\ s.idle => p = <<>>

\* What the responses r say of the server.
Truthful(r, took, newest, never) ==
    \A i \in 1..Len(r) :
        /\ r[i].type = "result" => r[i].write \in took /\ r[i].write <= newest
        /\ r[i].type = "refusal" => r[i].write \in never /\ i = Len(r)

\* The queue holds the latest writes; the older ones are settled.
Suffix(q, n) == Len(q) <= n /\ \A i \in 1..Len(q) : q[i].write = n - Len(q) + i

Settled(n, took, newest, never) ==
    /\ took \cap never = {}
    /\ \A w \in 1..n : w \in never \/ (w \in took /\ w <= newest)

Counters ==
    /\ issued \in 0..MaxWrites /\ failures \in 0..MaxFailures
    /\ refused \in SUBSET (1..MaxWrites)
    /\ taken \in SUBSET (1..MaxWrites) /\ latest \in 0..MaxWrites

Parts ==
    /\ Counters
    /\ queue \in Seq(Batch) /\ nextBatchId \in Nat
    /\ Grows(queue) /\ \A i \in DOMAIN queue : queue[i].batchID < nextBatchId
    /\ Oldest(pipeline, queue) /\ Fits(pipeline, stream)
    /\ pipeline # <<>> => IsStarted(stream)
    /\ Suffix(queue, issued) /\ Truthful(stream.responses, taken, latest, refused)
    /\ Settled(issued - Len(queue), taken, latest, refused)

-----------------------------------------------------------------------------
(***************************************************************************)
(* Batches and streams.                                                    *)
(***************************************************************************)

LEMMA BatchFields ==
    ASSUME NEW b \in Batch
    PROVE  /\ b.batchID \in Nat /\ b.write \in 1..MaxWrites /\ b.write \in Nat
           /\ b \in Request /\ b # Handshake
  BY BoundsAssumption DEF Batch, Request, Handshake, kBatchIdUnknown

LEMMA Requests ==
    /\ Handshake \in Request /\ Handshake.write = 0
    /\ \A r \in Request : r # Handshake => r \in Batch
    /\ Seq(Batch) \subseteq Seq(Request)
<1>1. Batch \subseteq Request
  BY DEF Request
<1>. QED
  BY <1>1, SeqMonotonic DEF Request, Handshake

LEMMA StreamFields ==
    ASSUME NEW s \in Stream
    PROVE  /\ s.state \in {"initial", "starting", "open", "error", "backoff"}
           /\ s.handshakeComplete \in BOOLEAN /\ s.idle \in BOOLEAN
           /\ s.requests \in Seq(Request) /\ s.responses \in Seq(Response)
  BY DEF Stream

LEMMA ClosedStream ==
    ASSUME NEW state \in {"initial", "starting", "error", "backoff"}
    PROVE  /\ Closed(state) \in Stream /\ Closed(state).state = state
           /\ Quiet(Closed(state)) /\ ~IsOpen(Closed(state))
           /\ Closed(state).responses = <<>>
  BY DEF Closed, Stream, Quiet, IsOpen

LEMMA ClosedFits ==
    ASSUME NEW p, NEW state \in {"initial", "starting", "error", "backoff"},
           state \in {"starting", "backoff"} => p # <<>>
    PROVE  Fits(p, Closed(state))
  BY ClosedStream DEF Fits, CanWrite, Quiet

LEMMA QuietIsClosed ==
    ASSUME NEW s \in Stream
    PROVE  Quiet(s) <=> s = Closed(s.state)
  BY DEF Stream, Quiet, Closed

LEMMA StartOf ==
    ASSUME NEW s \in Stream, ~IsStarted(s), NEW t, t = Start(s)
    PROVE  /\ t \in Stream /\ IsStarted(t) /\ ~IsOpen(t)
           /\ t.handshakeComplete = s.handshakeComplete /\ t.idle = s.idle
           /\ t.requests = s.requests /\ t.responses = s.responses
  BY DEF Start, IsStarted, IsOpen, Stream

LEMMA SendIs ==
    ASSUME NEW s \in Stream, NEW r \in Seq(Request), NEW t, t = Send(s, r)
    PROVE  /\ t \in Stream /\ t.state = s.state /\ t.responses = s.responses
           /\ t.handshakeComplete = s.handshakeComplete
           /\ t.requests = s.requests \o r /\ t.idle = (s.idle /\ r = <<>>)
<1>1. s.requests \o r \in Seq(Request) /\ (s.idle /\ r = <<>>) \in BOOLEAN
  BY StreamFields, ConcatProperties
<1>. QED
  BY <1>1 DEF Send, Stream

LEMMA SomethingCarried ==
    ASSUME NEW p, NEW r \in Seq(Response), NEW w \in Seq(Request), Carries(p, r, w), r # <<>>
    PROVE  p # <<>> /\ Len(p) # 0
<1>1. Len(r) \in Nat \ {0} /\ Len(w) \in Nat
  OBVIOUS
<1>. QED
  BY <1>1 DEF Carries

LEMMA TruthfulResponses ==
    ASSUME NEW r \in Seq(Response)
    PROVE  (\A i \in DOMAIN r :
               LET response == r[i] IN
               /\ response.type = "result" => response.write \in taken /\ response.write <= latest
               /\ response.type = "refusal" => response.write \in refused /\ i = Len(r))
           <=> Truthful(r, taken, latest, refused)
<1>1. DOMAIN r = 1..Len(r)
  OBVIOUS
<1>. QED
  BY <1>1 DEF Truthful

LEMMA SuffixQueue ==
    ASSUME NEW q \in Seq(Batch), NEW n \in Nat
    PROVE  (\A i \in DOMAIN q : q[i].write = n - Len(q) + i) <=> Suffix(q, n)
<1>1. PICK l \in Nat : l = Len(q) /\ DOMAIN q = 1..l
  OBVIOUS
<1>2. ASSUME \A i \in DOMAIN q : q[i].write = n - Len(q) + i PROVE l <= n
  <2>1. CASE l = 0
    BY <2>1
  <2>2. CASE l # 0
    <3>1. 1 \in DOMAIN q /\ q[1] \in Batch
      BY <1>1, <2>2
    <3>2. q[1].write \in Nat /\ q[1].write >= 1
      BY <3>1, BatchFields
    <3>3. q[1].write = n - l + 1
      BY <1>1, <1>2, <3>1
    <3>. QED
      BY <3>2, <3>3
  <2>. QED
    BY <2>1, <2>2
<1>. QED
  BY <1>1, <1>2 DEF Suffix

LEMMA SettledWrites ==
    ASSUME NEW q \in Seq(Batch), NEW n \in Nat, Suffix(q, n),
           NEW out, out = {q[i].write : i \in DOMAIN q}
    PROVE  (/\ (1..n) \ (out \cup refused) \subseteq taken
            /\ taken \cap refused = {}
            /\ \A w \in (1..n) \ (out \cup refused) : w <= latest)
           <=> Settled(n - Len(q), taken, latest, refused)
<1>1. PICK l \in Nat : l = Len(q) /\ DOMAIN q = 1..l
  OBVIOUS
<1>2. l <= n /\ \A i \in 1..l : q[i].write = n - l + i
  BY <1>1 DEF Suffix
<1>3. out = (n - l + 1)..n
  <2>1. ASSUME NEW w \in out PROVE w \in (n - l + 1)..n
    <3>1. PICK i \in 1..l : w = q[i].write
      BY <1>1
    <3>. QED
      BY <1>2, <3>1
  <2>2. ASSUME NEW w \in (n - l + 1)..n PROVE w \in out
    <3>1. w - (n - l) \in 1..l /\ n - l + (w - (n - l)) = w
      BY <1>2
    <3>2. q[w - (n - l)].write = w
      BY <1>2, <3>1
    <3>. QED
      BY <1>1, <3>1, <3>2
  <2>. QED
    BY <2>1, <2>2
<1>4. (1..n) \ out = 1..(n - l)
  BY <1>2, <1>3
<1>5. Settled(n - Len(q), taken, latest, refused)
      <=> /\ taken \cap refused = {}
          /\ \A w \in (1..n) \ out : w \in refused \/ (w \in taken /\ w <= latest)
  BY <1>1, <1>4 DEF Settled
<1>. QED
  BY <1>5

LEMMA SplitParts == Parts <=> IInv
<1>1. ASSUME queue \in Seq(Batch), pipeline \in Seq(Batch), stream \in Stream
      PROVE  /\ DOMAIN queue = 1..Len(queue) /\ Len(queue) \in Nat
             /\ DOMAIN pipeline = 1..Len(pipeline) /\ Len(pipeline) \in Nat
             /\ pipeline = <<>> <=> Len(pipeline) = 0
             /\ stream.responses \in Seq(Response) /\ stream.requests \in Seq(Request)
             /\ DOMAIN stream.responses = 1..Len(stream.responses)
             /\ Len(stream.responses) \in Nat /\ Len(stream.requests) \in Nat
             /\ stream.responses = <<>> <=> Len(stream.responses) = 0
  BY <1>1, StreamFields
<1>t. stream \in Stream => (ResultsTrue <=> Truthful(stream.responses, taken, latest, refused))
  BY StreamFields, TruthfulResponses DEF ResultsTrue
<1>s. queue \in Seq(Batch) /\ issued \in Nat => (QueueIsSuffix <=> Suffix(queue, issued))
  BY SuffixQueue DEF QueueIsSuffix
<1>l. /\ queue \in Seq(Batch) /\ issued \in Nat /\ Suffix(queue, issued)
      => (NothingLost <=> Settled(issued - Len(queue), taken, latest, refused))
  BY SettledWrites DEF NothingLost, Outstanding
<1>i. Counters => issued \in Nat
  BY BoundsAssumption DEF Counters
<1>2. ASSUME Parts PROVE IInv
  <2>1. queue \in Seq(Batch) /\ pipeline \in Seq(Batch) /\ stream \in Stream
    BY <1>2 DEF Parts, Oldest, Fits
  <2>2. TypeOK
    BY <1>2, <2>1 DEF Parts, Counters, Oldest, TypeOK
  <2>3. PipelineIsOldest
    BY <1>2 DEF Parts, Grows, Oldest, PipelineIsOldest
  <2>4. ResponsesMatch
    BY <1>1, <1>2, <2>1 DEF Parts, Fits, Carries, ResponsesMatch
  <2>5. HandshakeFirst
    BY <1>2, <2>1, QuietIsClosed DEF Parts, Fits, Greets, HandshakeFirst
  <2>6. stream.idle => IsOpen(stream) /\ pipeline = <<>>
    BY <1>2 DEF Parts, Fits, Quiet
  <2>7. CanWrite(stream) /\ stream.responses # <<>> => pipeline # <<>>
    <3>1. CanWrite(stream) => Carries(pipeline, stream.responses, stream.requests)
      BY <1>2 DEF Parts, Fits
    <3>. QED
      BY <2>1, <3>1, StreamFields, SomethingCarried
  <2>8. pipeline # <<>> => \E i \in DOMAIN queue : queue[i].batchID = Head(pipeline).batchID
    BY <1>1, <1>2, <2>1 DEF Parts, Oldest
  <2>9. NoAssertFails
    BY <1>2, <2>6, <2>7, <2>8 DEF Parts, NoAssertFails
  <2>10. QueueIsSuffix /\ ResultsTrue /\ NothingLost
    BY <1>2, <1>i, <1>l, <1>s, <1>t, <2>1 DEF Parts
  <2>. QED
    BY <2>2, <2>3, <2>4, <2>5, <2>9, <2>10 DEF IInv
<1>3. ASSUME IInv PROVE Parts
  <2>1. /\ queue \in Seq(Batch) /\ pipeline \in Seq(Batch) /\ stream \in Stream
        /\ Len(pipeline) <= MaxPendingWrites /\ nextBatchId \in Nat /\ Counters
    BY <1>3 DEF IInv, TypeOK, Counters
  <2>2. /\ Grows(queue) /\ \A i \in DOMAIN queue : queue[i].batchID < nextBatchId
        /\ Oldest(pipeline, queue)
    BY <1>3, <2>1 DEF IInv, PipelineIsOldest, Grows, Oldest
  <2>3. CanWrite(stream) => Carries(pipeline, stream.responses, stream.requests)
    BY <1>1, <1>3, <2>1 DEF IInv, ResponsesMatch, Carries
  <2>4. /\ ~IsOpen(stream) => Quiet(stream)
        /\ stream.state \in {"starting", "backoff"} => pipeline # <<>>
        /\ IsOpen(stream) /\ ~stream.handshakeComplete =>
              pipeline # <<>> /\ ~stream.idle /\ Greets(stream)
    BY <1>3, <2>1, QuietIsClosed DEF IInv, HandshakeFirst, Greets
  <2>5. /\ stream.idle => pipeline = <<>>
        /\ pipeline # <<>> => IsStarted(stream)
    BY <1>3 DEF IInv, NoAssertFails
  <2>6. /\ Suffix(queue, issued) /\ Truthful(stream.responses, taken, latest, refused)
        /\ Settled(issued - Len(queue), taken, latest, refused)
    BY <1>3, <1>i, <1>l, <1>s, <1>t, <2>1 DEF IInv
  <2>. QED
    BY <2>1, <2>2, <2>3, <2>4, <2>5, <2>6 DEF Parts, Fits
<1>. QED
  BY <1>2, <1>3

-----------------------------------------------------------------------------
(***************************************************************************)
(* FillWritePipeline.                                                      *)
(***************************************************************************)

LEMMA SubSeqIs ==
    ASSUME NEW S, NEW s, NEW m \in Int, NEW n \in Int, \A i \in m..n : s[i] \in S,
           NEW t, t = SubSeq(s, m, n)
    PROVE  /\ t \in Seq(S)
           /\ Len(t) = IF m <= n THEN n - m + 1 ELSE 0
           /\ \A i \in 1..(n - m + 1) : t[i] = s[m + i - 1]
  BY SubSeqProperties

\* What is added to the pipeline are the writes behind it in the queue.
LEMMA AddedIs ==
    ASSUME NEW q \in Seq(Batch), NEW p, Grows(q), Oldest(p, q), NEW a, a = Added(q, p)
    PROVE  /\ a \in Seq(Batch) /\ Len(a) \in Nat
           /\ Len(p) + Len(a) <= Len(q) /\ Len(p) + Len(a) <= MaxPendingWrites
           /\ \A i \in 1..Len(a) : a[i] = q[Len(p) + i]
<1> DEFINE id == LastBatchId(p)
           earlier == {i \in DOMAIN q : q[i].batchID <= id}
           after == SubSeq(q, Len(p) + 1, Len(q))
<1>1. /\ p \in Seq(Batch) /\ Len(p) \in Nat /\ DOMAIN p = 1..Len(p)
      /\ Len(q) \in Nat /\ DOMAIN q = 1..Len(q)
      /\ Len(p) <= Len(q) /\ Len(p) <= MaxPendingWrites /\ MaxPendingWrites \in Nat
  BY BoundsAssumption DEF Oldest
<1>n. PICK m \in Nat, n \in Nat : m = Len(p) /\ n = Len(q) /\ m <= n
  BY <1>1
<1>2. \A i \in DOMAIN q : q[i] \in Batch /\ q[i].batchID \in Nat
  BY BatchFields
<1>3. earlier = 1..Len(p)
  <2>1. CASE p = <<>>
    <3>1. id = -1 /\ Len(p) = 0
      BY <2>1 DEF LastBatchId, kBatchIdUnknown
    <3>2. earlier = {}
      BY <1>2, <3>1
    <3>. QED
      BY <3>1, <3>2
  <2>2. CASE p # <<>>
    <3>1. Len(p) \in DOMAIN p /\ Len(p) \in DOMAIN q
      BY <1>1, <2>2
    <3>2. id = q[Len(p)].batchID
      BY <2>2, <3>1 DEF LastBatchId, Oldest
    <3>3. \A i \in DOMAIN q : q[i].batchID <= id <=> i <= Len(p)
      <4> SUFFICES ASSUME NEW i \in DOMAIN q PROVE q[i].batchID <= id <=> i <= Len(p)
        OBVIOUS
      <4>1. i < Len(p) => q[i].batchID < q[Len(p)].batchID
        BY <3>1 DEF Grows
      <4>2. Len(p) < i => q[Len(p)].batchID < q[i].batchID
        BY <3>1 DEF Grows
      <4>3. q[i].batchID \in Nat /\ q[Len(p)].batchID \in Nat /\ i \in Nat
        BY <1>1, <1>2, <3>1
      <4>. QED
        BY <1>1, <3>2, <4>1, <4>2, <4>3
    <3>. QED
      BY <1>1, <3>3
  <2>. QED
    BY <2>1, <2>2
<1>4. After(q, id) = after
  <2>1. Cardinality(1..m) = IF 1 > m THEN 0 ELSE m - 1 + 1
    BY FS_Interval
  <2>2. Cardinality(1..Len(p)) = Len(p)
    BY <1>n, <2>1
  <2>. QED
    BY <1>3, <2>2 DEF After
<1>5. /\ after \in Seq(Batch) /\ Len(after) = Len(q) - Len(p)
      /\ \A i \in 1..Len(after) : after[i] = q[Len(p) + i]
  <2>1. \A i \in (Len(p) + 1)..Len(q) : q[i] \in Batch
    BY <1>1
  <2>0. m + 1 \in Int /\ n \in Int
    OBVIOUS
  <2>2. \A i \in (m + 1)..n : q[i] \in Batch
    BY <1>n, <2>1
  <2>3. after = SubSeq(q, m + 1, n)
    BY <1>n
  <2> HIDE DEF after
  <2>4. /\ after \in Seq(Batch)
        /\ Len(after) = IF m + 1 <= n THEN n - (m + 1) + 1 ELSE 0
        /\ \A i \in 1..(n - (m + 1) + 1) : after[i] = q[(m + 1) + i - 1]
    BY <2>0, <2>2, <2>3, SubSeqIs
  <2>5. Len(after) = n - m
    BY <1>n, <2>4
  <2>6. ASSUME NEW i \in 1..(n - m) PROVE after[i] = q[m + i]
    <3>1. i \in 1..(n - (m + 1) + 1) /\ (m + 1) + i - 1 = m + i
      OBVIOUS
    <3>. QED
      BY <2>4, <3>1
  <2>. QED
    BY <1>n, <2>4, <2>5, <2>6
<1>6. a = Upto(after, MaxPendingWrites - Len(p))
  BY <1>4 DEF Added
<1> HIDE DEF after
<1>7. PICK room \in Nat, l \in Nat :
        room = MaxPendingWrites - Len(p) /\ l = Len(after) /\ l = n - m
  <2>1. m <= MaxPendingWrites /\ MaxPendingWrites \in Nat
    BY <1>1, <1>n
  <2>2. MaxPendingWrites - m \in Nat /\ n - m \in Nat /\ Len(after) = n - m
    BY <1>n, <1>5, <2>1
  <2>. QED
    BY <1>n, <2>2
<1>8. CASE l <= room
  <2>1. a = after
    BY <1>6, <1>7, <1>8 DEF Upto
  <2>2. m + l <= n /\ m + l <= MaxPendingWrites
    BY <1>1, <1>n, <1>7, <1>8
  <2>. QED
    BY <1>n, <1>5, <1>7, <2>1, <2>2
<1>9. CASE ~(l <= room)
  <2>1. a = SubSeq(after, 1, room)
    BY <1>6, <1>7, <1>9 DEF Upto
  <2>0. 1 \in Int /\ room \in Int
    OBVIOUS
  <2>2. \A i \in 1..room : after[i] \in Batch
    BY <1>5, <1>7, <1>9
  <2>3. /\ a \in Seq(Batch)
        /\ Len(a) = IF 1 <= room THEN room - 1 + 1 ELSE 0
        /\ \A i \in 1..(room - 1 + 1) : a[i] = after[1 + i - 1]
    BY <2>0, <2>1, <2>2, SubSeqIs
  <2>4. Len(a) = room
    BY <2>3
  <2>5. m + room <= n /\ m + room <= MaxPendingWrites
    BY <1>1, <1>n, <1>7, <1>9
  <2>6. ASSUME NEW i \in 1..room PROVE a[i] = q[m + i]
    <3>1. a[i] = after[i]
      BY <2>3
    <3>2. i \in 1..Len(after)
      BY <1>7, <1>9
    <3>. QED
      BY <1>n, <1>5, <3>1, <3>2
  <2>. QED
    BY <1>n, <2>3, <2>4, <2>5, <2>6
<1>. QED
  BY <1>8, <1>9

\* A stream that carries p is sent a.
LEMMA CarriesMore ==
    ASSUME NEW p \in Seq(Batch), NEW a \in Seq(Batch),
           NEW r \in Seq(Response), NEW w \in Seq(Request), Carries(p, r, w)
    PROVE  Carries(p \o a, r, w \o a)
<1> DEFINE f == p \o a
           v == w \o a
<1>1. a \in Seq(Request)
  BY Requests
<1>2. PICK m \in Nat, k \in Nat, l \in Nat, n \in Nat :
        m = Len(r) /\ k = Len(w) /\ DOMAIN w = 1..k /\ l = Len(a) /\ n = Len(p)
  OBVIOUS
<1>3. /\ m + k = n
      /\ \A i \in 1..m : r[i].type # "handshake" /\ r[i].write = p[i].write
      /\ \A i \in 1..k : w[i] = p[m + i]
  BY <1>2 DEF Carries
<1>4. /\ Len(f) = n + l
      /\ \A i \in 1..(n + l) : f[i] = IF i <= n THEN p[i] ELSE a[i - n]
  BY <1>2, ConcatProperties
<1>5. /\ Len(v) = k + l /\ DOMAIN v = 1..(k + l)
      /\ \A i \in 1..(k + l) : v[i] = IF i <= k THEN w[i] ELSE a[i - k]
  <2>1. v \in Seq(Request) /\ Len(v) = k + l
    BY <1>1, <1>2, ConcatProperties
  <2>2. \A i \in 1..(k + l) : v[i] = IF i <= k THEN w[i] ELSE a[i - k]
    BY <1>1, <1>2, ConcatProperties
  <2>. QED
    BY <2>1, <2>2
<1> HIDE DEF f, v
<1>6. ASSUME NEW i \in 1..m
      PROVE  r[i].type # "handshake" /\ r[i].write = f[i].write
  <2>1. i \in 1..(n + l) /\ i <= n
    BY <1>3
  <2>. QED
    BY <1>3, <1>4, <2>1
<1>7. ASSUME NEW i \in 1..(k + l) PROVE v[i] = f[m + i]
  <2>0. m + k = n
    BY <1>3
  <2>1. m + i \in 1..(n + l) /\ (i <= k <=> m + i <= n) /\ (m + i) - n = i - k
    BY <2>0
  <2>2. CASE i <= k
    BY <1>3, <1>4, <1>5, <2>1, <2>2
  <2>3. CASE ~(i <= k)
    <3>1. v[i] = a[i - k] /\ f[m + i] = a[(m + i) - n]
      BY <1>4, <1>5, <2>1, <2>3
    <3>. QED
      BY <2>1, <3>1
  <2>. QED
    BY <2>2, <2>3
<1>8. Len(r) + Len(v) = Len(f)
  <2>1. m + (k + l) = n + l
    BY <1>3
  <2>. QED
    BY <1>2, <1>4, <1>5, <2>1
<1>9. Carries(f, r, v)
  BY <1>2, <1>5, <1>6, <1>7, <1>8 DEF Carries
<1>. QED
  BY <1>9 DEF f, v

\* Whatever the pipeline p and the stream s have come to, filling the pipeline from q
\* leaves them the oldest part of q and a stream that carries it.
LEMMA FillKeeps ==
    ASSUME NEW q \in Seq(Batch), NEW p, NEW s, Grows(q), Oldest(p, q), Fits(p, s),
           FillWritePipeline(q, p, s)
    PROVE  /\ Oldest(pipeline', q) /\ Fits(pipeline', stream')
           /\ pipeline' # <<>> => IsStarted(stream')
           /\ stream'.responses = s.responses
<1> DEFINE a == Added(q, p)
           f == p \o a
           idle == [s EXCEPT !.idle = @ \/ (f = <<>> /\ IsOpen(s))]
           sending == IF CanWrite(s) THEN Send(idle, a) ELSE idle
<1>1. /\ a \in Seq(Batch) /\ Len(a) \in Nat
      /\ Len(p) + Len(a) <= Len(q) /\ Len(p) + Len(a) <= MaxPendingWrites
      /\ \A i \in 1..Len(a) : a[i] = q[Len(p) + i]
  BY AddedIs
<1>2. /\ pipeline' = f
      /\ stream' = IF f # <<>> /\ ~IsStarted(s) THEN Start(sending) ELSE sending
  BY DEF FillWritePipeline
<1>3. /\ p \in Seq(Batch) /\ Len(p) \in Nat /\ DOMAIN p = 1..Len(p)
      /\ Len(q) \in Nat /\ DOMAIN q = 1..Len(q) /\ s \in Stream
  BY DEF Oldest, Fits
<1>4. /\ f \in Seq(Batch) /\ Len(f) = Len(p) + Len(a) /\ DOMAIN f = 1..Len(f)
      /\ f = <<>> <=> p = <<>> /\ a = <<>>
      /\ \A i \in 1..Len(f) : f[i] = IF i <= Len(p) THEN p[i] ELSE a[i - Len(p)]
  <2>1. f \in Seq(Batch) /\ Len(f) = Len(p) + Len(a)
    BY <1>1, <1>3, ConcatProperties
  <2>2. \A i \in 1..Len(f) : f[i] = IF i <= Len(p) THEN p[i] ELSE a[i - Len(p)]
    BY <1>1, <1>3, <2>1, ConcatProperties
  <2>3. f = <<>> <=> p = <<>> /\ a = <<>>
    BY <1>1, <1>3, ConcatEqualIffEmpty
  <2>. QED
    BY <2>1, <2>2, <2>3
<1>5. idle \in Stream /\ idle.state = s.state
      /\ idle.handshakeComplete = s.handshakeComplete
      /\ idle.requests = s.requests /\ idle.responses = s.responses
      /\ idle.idle = (s.idle \/ (f = <<>> /\ IsOpen(s)))
  BY <1>3 DEF Stream
<1> HIDE DEF f, a, idle
<1>6. Oldest(pipeline', q)
  <2>1. ASSUME NEW i \in DOMAIN f PROVE f[i] = q[i]
    <3>1. CASE i <= Len(p)
      BY <1>1, <1>3, <1>4, <3>1 DEF Oldest
    <3>2. CASE ~(i <= Len(p))
      <4>1. /\ i - Len(p) \in 1..Len(a) /\ Len(p) + (i - Len(p)) = i
        BY <1>1, <1>3, <1>4, <3>2
      <4>2. f[i] = a[i - Len(p)]
        BY <1>4, <3>2
      <4>3. a[i - Len(p)] = q[Len(p) + (i - Len(p))]
        BY <1>1, <4>1
      <4>. QED
        BY <4>1, <4>2, <4>3
    <3>. QED
      BY <3>1, <3>2
  <2>. QED
    BY <1>1, <1>2, <1>4, <2>1 DEF Oldest
<1>7. CASE ~IsOpen(s)
  <2>1. Quiet(s) /\ ~CanWrite(s)
    BY <1>7 DEF Fits, CanWrite
  <2>2. sending = idle /\ Quiet(sending) /\ ~IsOpen(sending)
    BY <1>5, <1>7, <2>1 DEF Quiet, IsOpen
  <2>3. CASE f # <<>> /\ ~IsStarted(s)
    <3>1. ~IsStarted(sending) /\ sending \in Stream
      BY <1>5, <2>2, <2>3 DEF IsStarted
    <3>2. stream' = Start(sending)
      BY <1>2, <2>3
    <3>3. /\ stream' \in Stream /\ IsStarted(stream') /\ ~IsOpen(stream') /\ Quiet(stream')
          /\ stream'.responses = sending.responses
      <4> HIDE DEF sending
      <4>1. /\ stream' \in Stream /\ IsStarted(stream') /\ ~IsOpen(stream')
            /\ stream'.handshakeComplete = sending.handshakeComplete
            /\ stream'.idle = sending.idle /\ stream'.requests = sending.requests
            /\ stream'.responses = sending.responses
        BY <3>1, <3>2, StartOf
      <4>. QED
        BY <2>2, <4>1 DEF Quiet
    <3>. QED
      BY <1>2, <1>5, <1>6, <2>2, <2>3, <3>3 DEF Fits, CanWrite, Quiet
  <2>4. CASE ~(f # <<>> /\ ~IsStarted(s))
    <3>1. stream' = idle
      BY <1>2, <2>2, <2>4
    <3>2. s.state \in {"starting", "backoff"} => f # <<>>
      BY <1>4 DEF Fits
    <3>. QED
      BY <3>2, <1>2, <1>5, <1>6, <2>2, <2>4, <3>1 DEF Fits, CanWrite, Quiet, IsStarted
  <2>. QED
    BY <2>3, <2>4
<1>8. CASE IsOpen(s) /\ ~s.handshakeComplete
  <2>1. p # <<>> /\ ~s.idle /\ Greets(s) /\ IsStarted(s) /\ ~CanWrite(s)
    BY <1>8 DEF Fits, IsOpen, IsStarted, CanWrite
  <2>2. stream' = idle /\ f # <<>>
    BY <1>2, <1>4, <2>1
  <2>3. IsOpen(stream') /\ IsStarted(stream') /\ ~stream'.handshakeComplete
        /\ ~stream'.idle /\ Greets(stream') /\ ~CanWrite(stream')
    BY <1>5, <1>8, <2>1, <2>2 DEF IsOpen, IsStarted, CanWrite, Greets
  <2>. QED
    BY <1>2, <1>5, <1>6, <2>2, <2>3 DEF Fits
<1>9. CASE IsOpen(s) /\ s.handshakeComplete
  <2>1. CanWrite(s) /\ IsStarted(s) /\ Carries(p, s.responses, s.requests)
    BY <1>9 DEF Fits, CanWrite, IsOpen, IsStarted
  <2>2. stream' = Send(idle, a)
    BY <1>2, <2>1
  <2>3. a \in Seq(Request)
    BY <1>1, Requests
  <2>0. /\ stream' \in Stream /\ stream'.state = idle.state
        /\ stream'.responses = idle.responses
        /\ stream'.handshakeComplete = idle.handshakeComplete
        /\ stream'.requests = idle.requests \o a
        /\ stream'.idle = (idle.idle /\ a = <<>>)
    <3>1. idle \in Stream
      BY <1>5
    <3>. QED
      BY <2>2, <2>3, <3>1, SendIs
  <2>4. /\ stream' \in Stream /\ stream'.state = s.state
        /\ stream'.responses = s.responses
        /\ stream'.handshakeComplete /\ stream'.requests = s.requests \o a
        /\ stream'.idle = (idle.idle /\ a = <<>>)
    BY <1>5, <1>9, <2>0
  <2>5. /\ IsOpen(stream') /\ CanWrite(stream') /\ IsStarted(stream')
        /\ stream'.handshakeComplete /\ stream'.state \notin {"starting", "backoff"}
    BY <1>9, <2>1, <2>4 DEF IsOpen, CanWrite, IsStarted
  <2>6. stream'.idle => f = <<>>
    BY <1>4, <1>5, <1>9, <2>4 DEF Fits
  <2>7. Carries(f, stream'.responses, stream'.requests)
    <3>1. s.responses \in Seq(Response) /\ s.requests \in Seq(Request)
      BY <1>3, StreamFields
    <3>. QED
      BY <1>1, <1>3, <2>1, <2>4, <3>1, CarriesMore DEF f
  <2>. QED
    BY <1>2, <1>6, <2>4, <2>5, <2>6, <2>7 DEF Fits
<1>. QED
  BY <1>7, <1>8, <1>9

-----------------------------------------------------------------------------
(***************************************************************************)
(* A write leaves the pipeline and the queue; a response arrives.          *)
(***************************************************************************)

LEMMA Grown ==
    ASSUME NEW S, NEW s \in Seq(S), NEW x \in S, NEW t, t = Append(s, x), NEW l, l = Len(s)
    PROVE  /\ t \in Seq(S) /\ Len(t) = l + 1 /\ DOMAIN t = 1..(l + 1)
           /\ t[l + 1] = x /\ \A i \in 1..l : t[i] = s[i]
  OBVIOUS

LEMMA Popped ==
    ASSUME NEW S, NEW s \in Seq(S), s # <<>>, NEW t, t = Tail(s)
    PROVE  /\ t \in Seq(S) /\ Head(s) = s[1] /\ Head(s) \in S
           /\ Len(s) \in Nat /\ Len(s) >= 1 /\ DOMAIN s = 1..Len(s)
           /\ Len(t) = Len(s) - 1 /\ DOMAIN t = 1..(Len(s) - 1)
           /\ \A i \in 1..(Len(s) - 1) : t[i] = s[i + 1]
  OBVIOUS

\* The batch that is removed from the disk is the first one there.
LEMMA RemovedHead ==
    ASSUME NEW q \in Seq(Batch), NEW p, Grows(q), Oldest(p, q), p # <<>>
    PROVE  q # <<>> /\ Head(p) = Head(q) /\ Removed(q, Head(p)) = Tail(q)
<1> DEFINE b == Head(p)
           here(j) == q[j].batchID = b.batchID
           c == CHOOSE j \in DOMAIN q : here(j)
<1>1. /\ p \in Seq(Batch) /\ Len(p) \in Nat /\ Len(p) <= Len(q) /\ Len(p) # 0
      /\ Len(q) \in Nat /\ DOMAIN q = 1..Len(q) /\ 1 \in DOMAIN p /\ b = p[1]
  BY DEF Oldest
<1>2. q # <<>> /\ 1 \in DOMAIN q /\ b = q[1] /\ Head(q) = q[1]
  BY <1>1 DEF Oldest
<1>3. \A j \in DOMAIN q : q[j].batchID \in Nat
  BY BatchFields
<1>4. ASSUME NEW j \in DOMAIN q, here(j) PROVE j = 1
  <2>1. j \in Nat /\ j >= 1
    BY <1>1
  <2>2. 1 < j => q[1].batchID < q[j].batchID
    BY <1>2 DEF Grows
  <2>. QED
    BY <1>2, <1>3, <1>4, <2>1, <2>2
<1>5. \E j \in DOMAIN q : here(j)
  BY <1>2
<1>6. c \in DOMAIN q /\ here(c)
  <2> HIDE DEF here
  <2>. QED
    BY <1>5
<1>7. c = 1
  BY <1>4, <1>6
<1>8. Removed(q, b) = SubSeq(q, 1, c - 1) \o SubSeq(q, c + 1, Len(q))
  BY DEF Removed
<1> HIDE DEF c
<1>9. Removed(q, b) = SubSeq(q, 1, 0) \o SubSeq(q, 2, Len(q))
  BY <1>7, <1>8
<1>10. SubSeq(q, 1, 0) = <<>> /\ SubSeq(q, 2, Len(q)) = Tail(q) /\ Tail(q) \in Seq(Batch)
  BY <1>2, SubSeqEmpty, TailIsSubSeq
<1>11. <<>> \o Tail(q) = Tail(q)
  BY <1>10, ConcatEmptySeq
<1>. QED
  BY <1>2, <1>9, <1>10, <1>11

LEMMA PopOldest ==
    ASSUME NEW q \in Seq(Batch), NEW p, Grows(q), Oldest(p, q), p # <<>>, NEW n,
           \A i \in DOMAIN q : q[i].batchID < n
    PROVE  /\ Tail(q) \in Seq(Batch) /\ Grows(Tail(q)) /\ Oldest(Tail(p), Tail(q))
           /\ \A i \in DOMAIN Tail(q) : Tail(q)[i].batchID < n
<1> DEFINE u == Tail(q)
           v == Tail(p)
<1>1. PICK l \in Nat, m \in Nat :
        l = Len(q) /\ m = Len(p) /\ m # 0 /\ m <= l /\ m <= MaxPendingWrites
  BY DEF Oldest
<1>2. p \in Seq(Batch) /\ q # <<>> /\ DOMAIN p = 1..m /\ DOMAIN q = 1..l
  BY <1>1 DEF Oldest
<1>3. /\ u \in Seq(Batch) /\ Len(u) = l - 1 /\ DOMAIN u = 1..(l - 1)
      /\ \A i \in 1..(l - 1) : u[i] = q[i + 1]
  BY <1>1, <1>2, Popped
<1>4. /\ v \in Seq(Batch) /\ Len(v) = m - 1 /\ DOMAIN v = 1..(m - 1)
      /\ \A i \in 1..(m - 1) : v[i] = p[i + 1]
  BY <1>1, <1>2, Popped
<1> HIDE DEF u, v
<1>5. Grows(u)
  <2> SUFFICES ASSUME NEW i \in DOMAIN u, NEW j \in DOMAIN u, i < j
               PROVE  u[i].batchID < u[j].batchID
    BY DEF Grows
  <2>1. i + 1 \in DOMAIN q /\ j + 1 \in DOMAIN q /\ i + 1 < j + 1
    BY <1>2, <1>3
  <2>2. q[i + 1].batchID < q[j + 1].batchID
    BY <2>1 DEF Grows
  <2>. QED
    BY <1>3, <2>2
<1>6. Oldest(v, u)
  <2>1. ASSUME NEW i \in 1..(m - 1) PROVE v[i] = u[i]
    <3>1. i + 1 \in 1..m /\ i \in 1..(l - 1)
      BY <1>1
    <3>2. p[i + 1] = q[i + 1]
      BY <1>2, <3>1 DEF Oldest
    <3>. QED
      BY <1>3, <1>4, <3>1, <3>2
  <2>2. m - 1 <= l - 1 /\ m - 1 <= MaxPendingWrites
    BY <1>1, BoundsAssumption
  <2>. QED
    BY <1>3, <1>4, <2>1, <2>2 DEF Oldest
<1>7. ASSUME NEW i \in DOMAIN u PROVE u[i].batchID < n
  <2>1. i + 1 \in DOMAIN q /\ u[i] = q[i + 1]
    BY <1>2, <1>3
  <2>. QED
    BY <2>1
<1>. QED
  BY <1>3, <1>5, <1>6, <1>7 DEF u, v

LEMMA PopSuffix ==
    ASSUME NEW q \in Seq(Batch), q # <<>>, NEW n \in Nat, Suffix(q, n),
           NEW took, NEW newest, NEW never, Settled(n - Len(q), took, newest, never),
           Head(q).write \in never \/ (Head(q).write \in took /\ Head(q).write <= newest)
    PROVE  Suffix(Tail(q), n) /\ Settled(n - Len(Tail(q)), took, newest, never)
<1> DEFINE u == Tail(q)
<1>1. PICK l \in Nat : l = Len(q) /\ l >= 1
  OBVIOUS
<1>2. Head(q) = q[1] /\ Len(u) = l - 1 /\ \A i \in 1..(l - 1) : u[i] = q[i + 1]
  BY <1>1, Popped
<1> HIDE DEF u
<1>3. l <= n /\ \A i \in 1..l : q[i].write = n - l + i
  BY <1>1 DEF Suffix
<1>4. Suffix(u, n)
  <2>1. ASSUME NEW i \in 1..(l - 1) PROVE u[i].write = n - (l - 1) + i
    <3>1. i + 1 \in 1..l /\ n - l + (i + 1) = n - (l - 1) + i
      BY <1>1
    <3>. QED
      BY <1>2, <1>3, <3>1
  <2>. QED
    BY <1>1, <1>2, <1>3, <2>1 DEF Suffix
<1>5. Settled(n - (l - 1), took, newest, never)
  <2>1. q[1].write = n - l + 1
    BY <1>1, <1>3
  <2>2. ASSUME NEW w \in 1..(n - (l - 1))
        PROVE  w \in never \/ (w \in took /\ w <= newest)
    <3>1. w \in 1..(n - l) \/ w = n - l + 1
      BY <1>1, <1>3
    <3>2. CASE w \in 1..(n - l)
      BY <1>1, <3>2 DEF Settled
    <3>3. CASE w = n - l + 1
      BY <1>2, <2>1, <3>3
    <3>. QED
      BY <3>1, <3>2, <3>3
  <2>. QED
    BY <2>2 DEF Settled
<1>. QED
  BY <1>2, <1>4, <1>5 DEF u

\* The oldest response is about the head of the pipeline.
LEMMA PopCarried ==
    ASSUME NEW p \in Seq(Batch), NEW r \in Seq(Response), NEW w \in Seq(Request),
           Carries(p, r, w), r # <<>>,
           NEW took, NEW newest, NEW never, Truthful(r, took, newest, never)
    PROVE  /\ Head(r).type # "handshake" /\ Head(r).write = Head(p).write
           /\ Carries(Tail(p), Tail(r), w)
           /\ Tail(r) \in Seq(Response) /\ Truthful(Tail(r), took, newest, never)
           /\ Head(r).type = "result" => Head(r).write \in took /\ Head(r).write <= newest
           /\ Head(r).type = "refusal" => Head(r).write \in never
<1> DEFINE u == Tail(r)
           v == Tail(p)
<1>0. p # <<>>
  BY SomethingCarried
<1>1. PICK m \in Nat, k \in Nat, n \in Nat :
        m = Len(r) /\ m # 0 /\ k = Len(w) /\ DOMAIN w = 1..k /\ n = Len(p)
  OBVIOUS
<1>2. /\ m + k = n
      /\ \A i \in 1..m : r[i].type # "handshake" /\ r[i].write = p[i].write
      /\ \A i \in 1..k : w[i] = p[m + i]
  BY <1>1 DEF Carries
<1>3. /\ u \in Seq(Response) /\ Head(r) = r[1] /\ Len(u) = m - 1
      /\ \A i \in 1..(m - 1) : u[i] = r[i + 1]
  BY <1>1, Popped
<1>4. Head(p) = p[1] /\ Len(v) = n - 1 /\ \A i \in 1..(n - 1) : v[i] = p[i + 1]
  BY <1>0, <1>1, Popped
<1> HIDE DEF u, v
<1>5. 1 \in 1..m /\ m - 1 \in Nat /\ n - 1 \in Nat /\ (m - 1) + k = n - 1
  <2>1. m + k = n
    BY <1>2
  <2>. QED
    BY <1>1, <2>1
<1>6. Carries(v, u, w)
  <2>1. ASSUME NEW i \in 1..(m - 1)
        PROVE  u[i].type # "handshake" /\ u[i].write = v[i].write
    <3>1. i + 1 \in 1..m /\ i \in 1..(n - 1)
      BY <1>5
    <3>. QED
      BY <1>2, <1>3, <1>4, <3>1
  <2>2. ASSUME NEW i \in 1..k PROVE w[i] = v[(m - 1) + i]
    <3>1. (m - 1) + i \in 1..(n - 1) /\ ((m - 1) + i) + 1 = m + i
      BY <1>5
    <3>2. v[(m - 1) + i] = p[((m - 1) + i) + 1]
      BY <1>4, <3>1
    <3>. QED
      BY <1>2, <3>1, <3>2
  <2>. QED
    BY <1>1, <1>3, <1>4, <1>5, <2>1, <2>2 DEF Carries
<1>7. Truthful(u, took, newest, never)
  <2> SUFFICES ASSUME NEW i \in 1..(m - 1)
               PROVE  /\ u[i].type = "result" => u[i].write \in took /\ u[i].write <= newest
                      /\ u[i].type = "refusal" => u[i].write \in never /\ i = m - 1
    BY <1>3 DEF Truthful
  <2>1. i + 1 \in 1..m /\ u[i] = r[i + 1] /\ (i + 1 = m => i = m - 1)
    BY <1>3, <1>5
  <2>. QED
    BY <1>1, <2>1 DEF Truthful
<1>8. /\ r[1].type = "result" => r[1].write \in took /\ r[1].write <= newest
      /\ r[1].type = "refusal" => r[1].write \in never
  BY <1>1, <1>5 DEF Truthful
<1>. QED
  BY <1>2, <1>3, <1>4, <1>5, <1>6, <1>7, <1>8 DEF u, v

\* A step that changes neither the queue nor what was taken of it.
LEMMA StreamChanges ==
    ASSUME Parts, UNCHANGED <<queue, nextBatchId, pipeline, issued, server>>,
           failures' \in 0..MaxFailures,
           Fits(pipeline, stream'), pipeline # <<>> => IsStarted(stream'),
           Truthful(stream'.responses, taken, latest, refused)
    PROVE  Parts'
<1>1. Counters'
  BY DEF Parts, Counters, server
<1>. QED
  BY <1>1 DEF Parts, server

\* A step that ends with FillWritePipeline, for the pipeline p and the stream s.
LEMMA PipelineFills ==
    ASSUME Counters', queue' \in Seq(Batch), nextBatchId' \in Nat, Grows(queue'),
           \A i \in DOMAIN queue' : queue'[i].batchID < nextBatchId',
           NEW p, NEW s, Oldest(p, queue'), Fits(p, s), FillWritePipeline(queue', p, s),
           Suffix(queue', issued'), Truthful(s.responses, taken', latest', refused'),
           Settled(issued' - Len(queue'), taken', latest', refused')
    PROVE  Parts' /\ stream'.responses = s.responses
<1>1. /\ Oldest(pipeline', queue') /\ Fits(pipeline', stream')
      /\ pipeline' # <<>> => IsStarted(stream')
      /\ stream'.responses = s.responses
  BY FillKeeps
<1>. QED
  BY <1>1 DEF Parts

-----------------------------------------------------------------------------
(***************************************************************************)
(* The steps.                                                              *)
(***************************************************************************)

LEMMA Typed ==
    ASSUME Parts
    PROVE  /\ queue \in Seq(Batch) /\ nextBatchId \in Nat /\ pipeline \in Seq(Batch)
           /\ stream \in Stream
           /\ stream.requests \in Seq(Request) /\ stream.responses \in Seq(Response)
           /\ issued \in Nat /\ Len(queue) \in Nat /\ Len(queue) <= issued
           /\ latest \in Nat /\ taken \subseteq 1..MaxWrites /\ refused \subseteq 1..MaxWrites
<1>1. stream \in Stream /\ pipeline \in Seq(Batch) /\ queue \in Seq(Batch)
  BY DEF Parts, Fits, Oldest
<1>2. Counters /\ Suffix(queue, issued)
  BY DEF Parts
<1>. QED
  BY <1>1, <1>2, StreamFields, BoundsAssumption DEF Parts, Counters, Suffix

LEMMA EmptyIsOldest == ASSUME NEW q \in Seq(Batch) PROVE Oldest(<<>>, q)
  BY BoundsAssumption DEF Oldest

LEMMA NothingSaid == ASSUME NEW took, NEW newest, NEW never PROVE Truthful(<<>>, took, newest, never)
  BY DEF Truthful

LEMMA InitParts == Init => Parts
<1> SUFFICES ASSUME Init PROVE Parts
  OBVIOUS
<1>1. stream = Closed("initial") /\ queue = <<>> /\ pipeline = <<>>
  BY DEF Init
<1>2. Counters /\ nextBatchId \in Nat
  BY BoundsAssumption DEF Init, Counters
<1>3. queue \in Seq(Batch) /\ Len(queue) = 0 /\ DOMAIN queue = {}
  BY <1>1
<1>4. Grows(queue) /\ Oldest(pipeline, queue)
  BY <1>1, <1>3, EmptyIsOldest DEF Grows
<1>5. Fits(pipeline, stream) /\ stream.responses = <<>>
  BY <1>1, ClosedFits, ClosedStream
<1>6. Suffix(queue, issued) /\ Settled(issued - Len(queue), taken, latest, refused)
  BY <1>3 DEF Init, Suffix, Settled
<1>. QED
  BY <1>1, <1>2, <1>3, <1>4, <1>5, <1>6, NothingSaid DEF Parts

LEMMA WriteStep ==
    ASSUME Parts, WriteMutations
    PROVE  /\ Parts' /\ stream'.responses = stream.responses
           /\ \E b \in Batch : queue' = Append(queue, b)
<1> DEFINE b == [batchID |-> nextBatchId, write |-> issued']
<1>1. PICK l \in Nat : l = Len(queue) /\ l <= issued /\ issued \in Nat /\ DOMAIN queue = 1..l
  BY Typed
<1>2. /\ issued' = issued + 1 /\ issued' \in 1..MaxWrites /\ UNCHANGED <<server, failures>>
      /\ queue' = Append(queue, b) /\ nextBatchId' = nextBatchId + 1
      /\ FillWritePipeline(queue', pipeline, stream)
  BY <1>1, BoundsAssumption DEF WriteMutations
<1>3. b \in Batch /\ b.batchID = nextBatchId /\ b.write = issued + 1 /\ nextBatchId \in Nat
  BY <1>2, Typed DEF Batch
<1> HIDE DEF b
<1>4. /\ queue' \in Seq(Batch) /\ Len(queue') = l + 1 /\ DOMAIN queue' = 1..(l + 1)
      /\ queue'[l + 1] = b /\ \A i \in 1..l : queue'[i] = queue[i]
  <2>1. queue \in Seq(Batch) /\ queue' = Append(queue, b) /\ l = Len(queue)
    BY <1>1, <1>2, Typed
  <2>. QED
    BY <1>3, <2>1, Grown
<1>5. Counters'
  BY <1>2, BoundsAssumption DEF Parts, Counters, server
<1>6. ASSUME NEW i \in 1..l PROVE queue[i].batchID < nextBatchId /\ queue[i].batchID \in Nat
  <2>1. i \in DOMAIN queue
    BY <1>1
  <2>2. queue[i] \in Batch
    BY <2>1, Typed
  <2>. QED
    BY <2>1, <2>2, BatchFields DEF Parts
<1>7. Grows(queue') /\ \A i \in DOMAIN queue' : queue'[i].batchID < nextBatchId'
  <2>1. ASSUME NEW i \in 1..(l + 1) PROVE i \in 1..l \/ i = l + 1
    OBVIOUS
  <2>2. ASSUME NEW i \in 1..(l + 1), NEW j \in 1..(l + 1), i < j
        PROVE  queue'[i].batchID < queue'[j].batchID
    <3>1. i \in 1..l
      BY <2>2
    <3>2. CASE j \in 1..l
      BY <1>1, <1>4, <2>2, <3>1, <3>2 DEF Parts, Grows
    <3>3. CASE j = l + 1
      BY <1>3, <1>4, <1>6, <3>1, <3>3
    <3>. QED
      BY <2>1, <3>2, <3>3
  <2>3. ASSUME NEW i \in 1..(l + 1) PROVE queue'[i].batchID < nextBatchId'
    <3>1. CASE i \in 1..l
      BY <1>2, <1>3, <1>4, <1>6, <3>1
    <3>2. CASE i = l + 1
      BY <1>2, <1>3, <1>4, <3>2
    <3>. QED
      BY <2>1, <3>1, <3>2
  <2>. QED
    BY <1>4, <2>2, <2>3 DEF Grows
<1>8. Oldest(pipeline, queue')
  <2>1. PICK m \in Nat : m = Len(pipeline) /\ DOMAIN pipeline = 1..m
    BY Typed
  <2>2. m <= l /\ m <= MaxPendingWrites /\ \A i \in 1..m : pipeline[i] = queue[i]
    BY <1>1, <2>1 DEF Parts, Oldest
  <2>3. m <= l + 1 /\ \A i \in 1..m : i \in 1..l
    BY <2>2
  <2>. QED
    BY <1>4, <2>1, <2>2, <2>3, Typed DEF Oldest
<1>9. Suffix(queue', issued')
  <2>1. ASSUME NEW i \in 1..(l + 1) PROVE queue'[i].write = issued' - (l + 1) + i
    <3>1. CASE i \in 1..l
      <4>1. queue[i].write = issued - l + i
        BY <1>1, <3>1 DEF Parts, Suffix
      <4>. QED
        BY <1>1, <1>2, <1>4, <3>1, <4>1
    <3>2. CASE i = l + 1
      BY <1>1, <1>2, <1>3, <1>4, <3>2
    <3>. QED
      BY <3>1, <3>2
  <2>. QED
    BY <1>1, <1>2, <1>4, <2>1 DEF Suffix
<1>10. issued' - Len(queue') = issued - Len(queue)
  BY <1>1, <1>2, <1>4
<1>. QED
  BY <1>2, <1>3, <1>4, <1>5, <1>7, <1>8, <1>9, <1>10, PipelineFills DEF Parts, server

LEMMA OpenStep ==
    ASSUME Parts, StreamOpens
    PROVE  Parts' /\ queue' = queue /\ stream'.responses = <<>>
<1> DEFINE s == [stream EXCEPT !.state = "open"]
<1>1. stream.state = "starting" /\ stream \in Stream /\ ~IsOpen(stream)
  BY Typed DEF StreamOpens, IsOpen
<1>2. Quiet(stream) /\ pipeline # <<>>
  BY <1>1 DEF Parts, Fits
<1>3. /\ s \in Stream /\ s.state = "open" /\ ~s.handshakeComplete /\ ~s.idle
      /\ s.requests = <<>> /\ s.responses = <<>>
  BY <1>1, <1>2 DEF Stream, Quiet
<1> HIDE DEF s
<1>4. <<Handshake>> \in Seq(Request) /\ <<>> \o <<Handshake>> = <<Handshake>>
  BY Requests
<1>5. stream' = Send(s, <<Handshake>>)
  BY DEF StreamOpens, s
<1>6. /\ stream' \in Stream /\ stream'.state = s.state /\ stream'.responses = s.responses
      /\ stream'.handshakeComplete = s.handshakeComplete
      /\ stream'.requests = s.requests \o <<Handshake>>
      /\ stream'.idle = (s.idle /\ <<Handshake>> = <<>>)
  BY <1>3, <1>4, <1>5, SendIs
<1>7. /\ stream'.state = "open" /\ stream'.responses = <<>> /\ ~stream'.handshakeComplete
      /\ stream'.requests = <<Handshake>> /\ ~stream'.idle
  BY <1>3, <1>4, <1>6
<1>8. Fits(pipeline, stream') /\ IsStarted(stream')
  BY <1>2, <1>6, <1>7 DEF Fits, IsOpen, IsStarted, CanWrite, Greets
<1>9. UNCHANGED <<queue, nextBatchId, pipeline, issued, server>> /\ failures' \in 0..MaxFailures
  BY DEF StreamOpens, Parts, Counters
<1>. QED
  BY <1>7, <1>8, <1>9, NothingSaid, StreamChanges

LEMMA HandshakeStep ==
    ASSUME Parts, HandshakeCompletes
    PROVE  Parts' /\ queue' = queue /\ stream'.responses = <<>>
<1> DEFINE s == [stream EXCEPT !.handshakeComplete = TRUE, !.responses = Tail(@)]
           greeting == [type |-> "handshake", write |-> 0]
<1>1. stream \in Stream /\ pipeline \in Seq(Batch) /\ pipeline \in Seq(Request)
  BY Typed, Requests
<1>2. /\ stream.state = "open" /\ ~stream.handshakeComplete /\ stream.responses # <<>>
  BY DEF HandshakeCompletes, IsOpen
<1>3. /\ pipeline # <<>> /\ ~stream.idle /\ stream.requests = <<>>
      /\ stream.responses = <<greeting>>
  BY <1>2 DEF Parts, Fits, IsOpen, Greets
<1>4. Tail(<<greeting>>) = <<>> /\ <<>> \in Seq(Response)
  OBVIOUS
<1>5. Tail(stream.responses) = <<>>
  BY <1>3, <1>4
<1>6. /\ s \in Stream /\ s.state = "open" /\ s.handshakeComplete /\ ~s.idle
      /\ s.requests = <<>> /\ s.responses = <<>>
  BY <1>1, <1>2, <1>3, <1>4, <1>5 DEF Stream
<1>7. stream' = Send(s, pipeline)
  BY DEF HandshakeCompletes
<1> HIDE DEF s
<1>8. /\ stream' \in Stream /\ stream'.state = s.state /\ stream'.responses = s.responses
      /\ stream'.handshakeComplete = s.handshakeComplete
      /\ stream'.requests = s.requests \o pipeline
      /\ stream'.idle = (s.idle /\ pipeline = <<>>)
  <2>1. s \in Stream /\ pipeline \in Seq(Request)
    BY <1>1, <1>6
  <2>. QED
    BY <1>7, <2>1, SendIs
<1>9. <<>> \o pipeline = pipeline
  BY <1>1, ConcatEmptySeq
<1>10. /\ stream'.state = "open" /\ stream'.responses = <<>> /\ stream'.handshakeComplete
       /\ stream'.requests = pipeline /\ ~stream'.idle
  BY <1>6, <1>8, <1>9
<1>11. Carries(pipeline, <<>>, pipeline)
  <2>1. PICK m \in Nat : m = Len(pipeline) /\ DOMAIN pipeline = 1..m
    BY <1>1
  <2>2. \A i \in 1..m : 0 + i = i
    OBVIOUS
  <2>. QED
    BY <2>1, <2>2 DEF Carries
<1>12. Fits(pipeline, stream') /\ IsStarted(stream')
  BY <1>8, <1>10, <1>11 DEF Fits, IsOpen, IsStarted, CanWrite
<1>13. UNCHANGED <<queue, nextBatchId, pipeline, issued, server>> /\ failures' \in 0..MaxFailures
  BY DEF HandshakeCompletes, Parts, Counters
<1>. QED
  BY <1>10, <1>12, <1>13, NothingSaid, StreamChanges

LEMMA BackoffStep ==
    ASSUME Parts, BackoffElapses
    PROVE  Parts' /\ queue' = queue /\ stream'.responses = <<>>
<1>1. stream.state = "backoff" /\ stream \in Stream /\ ~IsOpen(stream)
  BY Typed DEF BackoffElapses, IsOpen
<1>2. Quiet(stream) /\ pipeline # <<>>
  BY <1>1 DEF Parts, Fits
<1>3. stream = Closed("backoff")
  BY <1>1, <1>2, QuietIsClosed
<1>4. stream' = Closed("starting")
  BY <1>3 DEF BackoffElapses, Start, Closed
<1>5. Fits(pipeline, stream') /\ IsStarted(stream') /\ stream'.responses = <<>>
  BY <1>2, <1>4, ClosedFits, ClosedStream DEF IsStarted
<1>6. UNCHANGED <<queue, nextBatchId, pipeline, issued, server>> /\ failures' \in 0..MaxFailures
  BY DEF BackoffElapses, Parts, Counters
<1>. QED
  BY <1>5, <1>6, NothingSaid, StreamChanges

LEMMA BreakStep ==
    ASSUME Parts, StreamBreaks
    PROVE  Parts' /\ queue' = queue /\ stream'.responses = <<>>
<1>1. Start(Closed("error")) = Closed("backoff")
  <2>1. Closed("error").state = "error"
    BY DEF Closed
  <2>2. Start(Closed("error")) = [Closed("error") EXCEPT !.state = "backoff"]
    BY <2>1 DEF Start
  <2>. QED
    BY <2>2 DEF Closed
<1>2. IF pipeline # <<>> THEN stream' = Closed("backoff") ELSE stream' = Closed("error")
  BY <1>1 DEF StreamBreaks
<1>3. /\ Fits(pipeline, stream') /\ stream'.responses = <<>>
      /\ pipeline # <<>> => IsStarted(stream')
  BY <1>2, ClosedFits, ClosedStream DEF IsStarted
<1>4. UNCHANGED <<queue, nextBatchId, pipeline, issued, server>> /\ failures' \in 0..MaxFailures
  BY BoundsAssumption DEF StreamBreaks, Parts, Counters
<1>. QED
  BY <1>3, <1>4, NothingSaid, StreamChanges

LEMMA IdleStep ==
    ASSUME Parts, IdleTimeout
    PROVE  Parts' /\ queue' = queue /\ stream'.responses = <<>>
<1>1. pipeline = <<>> /\ stream' = Closed("initial")
  BY DEF IdleTimeout, Parts, Fits
<1>2. Fits(pipeline, stream') /\ stream'.responses = <<>>
  BY <1>1, ClosedFits, ClosedStream
<1>3. UNCHANGED <<queue, nextBatchId, pipeline, issued, server>> /\ failures' \in 0..MaxFailures
  BY DEF IdleTimeout, Parts, Counters
<1>. QED
  BY <1>1, <1>2, <1>3, NothingSaid, StreamChanges

LEMMA RestartStep ==
    ASSUME Parts, Restart
    PROVE  Parts' /\ queue' = queue /\ stream'.responses = <<>>
<1>1. /\ queue' = queue /\ UNCHANGED <<issued, server>>
      /\ nextBatchId' = LastBatchId(queue) + 1
      /\ FillWritePipeline(queue', <<>>, Closed("initial"))
  BY DEF Restart
<1>2. Counters'
  BY <1>1, BoundsAssumption DEF Restart, Parts, Counters, server
<1>3. nextBatchId' \in Nat /\ \A i \in DOMAIN queue : queue[i].batchID < nextBatchId'
  <2>1. PICK l \in Nat : l = Len(queue) /\ DOMAIN queue = 1..l
    BY Typed
  <2>2. \A i \in 1..l : queue[i].batchID \in Nat
    BY <2>1, Typed, BatchFields
  <2>3. CASE queue = <<>>
    BY <1>1, <2>3 DEF LastBatchId, kBatchIdUnknown
  <2>4. CASE queue # <<>>
    <3>1. nextBatchId' = queue[l].batchID + 1 /\ l \in 1..l
      BY <1>1, <2>1, <2>4, Typed DEF LastBatchId
    <3>2. ASSUME NEW i \in 1..l PROVE queue[i].batchID < nextBatchId'
      <4>1. i < l => queue[i].batchID < queue[l].batchID
        BY <2>1, <3>1 DEF Parts, Grows
      <4>2. i = l \/ i < l
        OBVIOUS
      <4>. QED
        BY <2>2, <3>1, <4>1, <4>2
    <3>. QED
      BY <2>1, <2>2, <3>1, <3>2
  <2>. QED
    BY <2>3, <2>4
<1>4. Oldest(<<>>, queue') /\ Fits(<<>>, Closed("initial"))
  BY <1>1, Typed, EmptyIsOldest, ClosedFits
<1>5. Truthful(Closed("initial").responses, taken', latest', refused')
  BY ClosedStream, NothingSaid
<1>6. /\ queue' \in Seq(Batch) /\ Grows(queue') /\ Suffix(queue', issued')
      /\ Settled(issued' - Len(queue'), taken', latest', refused')
      /\ \A i \in DOMAIN queue' : queue'[i].batchID < nextBatchId'
  BY <1>1, <1>3 DEF Parts, server
<1>. QED
  <2>1. Parts' /\ stream'.responses = Closed("initial").responses
    BY <1>1, <1>2, <1>3, <1>4, <1>5, <1>6, PipelineFills
  <2>. QED
    BY <1>1, <2>1, ClosedStream

\* The head of the pipeline is given up or acknowledged; the stream goes on as s.
LEMMA HeadRemoved ==
    ASSUME Parts, pipeline # <<>>, UNCHANGED <<nextBatchId, issued, server, failures>>,
           queue' = Removed(queue, Head(pipeline)),
           \/ Head(pipeline).write \in refused
           \/ Head(pipeline).write \in taken /\ Head(pipeline).write <= latest,
           NEW s, Fits(Tail(pipeline), s), Truthful(s.responses, taken, latest, refused),
           FillWritePipeline(queue', Tail(pipeline), s)
    PROVE  /\ Parts' /\ queue # <<>> /\ queue' = Tail(queue)
           /\ stream'.responses = s.responses
<1>1. /\ queue \in Seq(Batch) /\ Grows(queue) /\ Oldest(pipeline, queue) /\ issued \in Nat
      /\ \A i \in DOMAIN queue : queue[i].batchID < nextBatchId
      /\ Suffix(queue, issued) /\ Settled(issued - Len(queue), taken, latest, refused)
  BY Typed DEF Parts
<1>2. queue # <<>> /\ Head(pipeline) = Head(queue) /\ queue' = Tail(queue)
  BY <1>1, RemovedHead
<1>3. /\ Tail(queue) \in Seq(Batch) /\ Grows(Tail(queue))
      /\ Oldest(Tail(pipeline), Tail(queue))
      /\ \A i \in DOMAIN Tail(queue) : Tail(queue)[i].batchID < nextBatchId
  BY <1>1, PopOldest
<1>4. /\ Suffix(Tail(queue), issued)
      /\ Settled(issued - Len(Tail(queue)), taken, latest, refused)
  BY <1>1, <1>2, PopSuffix
<1>5. Counters' /\ nextBatchId' \in Nat
  BY DEF Parts, Counters, server
<1>6. /\ queue' \in Seq(Batch) /\ Grows(queue') /\ Oldest(Tail(pipeline), queue')
      /\ \A i \in DOMAIN queue' : queue'[i].batchID < nextBatchId'
      /\ Suffix(queue', issued') /\ Settled(issued' - Len(queue'), taken', latest', refused')
      /\ Truthful(s.responses, taken', latest', refused')
  BY <1>2, <1>3, <1>4 DEF server
<1>. QED
  BY <1>2, <1>5, <1>6, PipelineFills

\* What the client hears from a stream that may write.
LEMMA Heard ==
    ASSUME Parts, CanWrite(stream), stream.responses # <<>>,
           NEW response, response = Head(stream.responses), response.type # "handshake"
    PROVE  /\ pipeline # <<>> /\ response.write = Head(pipeline).write
           /\ Carries(Tail(pipeline), Tail(stream.responses), stream.requests)
           /\ Tail(stream.responses) \in Seq(Response)
           /\ Truthful(Tail(stream.responses), taken, latest, refused)
           /\ response.type = "result" => response.write \in taken /\ response.write <= latest
           /\ response.type = "refusal" => response.write \in refused
<1>1. PICK r \in Seq(Response), w \in Seq(Request) : r = stream.responses /\ w = stream.requests
  BY Typed
<1>2. /\ pipeline \in Seq(Batch) /\ Carries(pipeline, r, w)
      /\ Truthful(r, taken, latest, refused) /\ r # <<>>
  BY <1>1, Typed DEF Parts, Fits
<1>3. pipeline # <<>>
  BY <1>2, SomethingCarried
<1>4. /\ Head(r).write = Head(pipeline).write
      /\ Carries(Tail(pipeline), Tail(r), w)
      /\ Tail(r) \in Seq(Response) /\ Truthful(Tail(r), taken, latest, refused)
      /\ Head(r).type = "result" => Head(r).write \in taken /\ Head(r).write <= latest
      /\ Head(r).type = "refusal" => Head(r).write \in refused
  BY <1>2, PopCarried
<1>. QED
  BY <1>1, <1>3, <1>4

LEMMA ResultStep ==
    ASSUME Parts, MutationResult
    PROVE  /\ Parts' /\ queue # <<>> /\ queue' = Tail(queue)
           /\ stream'.responses = Tail(stream.responses)
<1> DEFINE s == [stream EXCEPT !.responses = Tail(@)]
           response == Head(stream.responses)
<1>1. /\ CanWrite(stream) /\ stream.responses # <<>> /\ response.type = "result"
      /\ queue' = Removed(queue, Head(pipeline))
      /\ FillWritePipeline(queue', Tail(pipeline), s)
      /\ UNCHANGED <<nextBatchId, issued, server, failures>>
  BY DEF MutationResult
<1>2. /\ pipeline # <<>> /\ response.write = Head(pipeline).write
      /\ Carries(Tail(pipeline), Tail(stream.responses), stream.requests)
      /\ Tail(stream.responses) \in Seq(Response)
      /\ Truthful(Tail(stream.responses), taken, latest, refused)
      /\ response.write \in taken /\ response.write <= latest
  <2> HIDE DEF response
  <2>1. response = Head(stream.responses)
    BY DEF response
  <2>2. response.type # "handshake" /\ response.type = "result"
    BY <1>1
  <2>. QED
    BY <1>1, <2>1, <2>2, Heard
<1>3. /\ s \in Stream /\ s.state = stream.state /\ s.idle = stream.idle
      /\ s.handshakeComplete = stream.handshakeComplete
      /\ s.responses = Tail(stream.responses) /\ s.requests = stream.requests
  BY <1>2, Typed DEF Stream
<1> HIDE DEF s
<1>4. ~s.idle /\ IsOpen(s) /\ s.handshakeComplete
  BY <1>1, <1>2, <1>3 DEF Parts, Fits, CanWrite, IsOpen
<1>5. Fits(Tail(pipeline), s)
  BY <1>2, <1>3, <1>4 DEF Fits, IsOpen
<1>6. Truthful(s.responses, taken, latest, refused)
  BY <1>2, <1>3
<1>7. Head(pipeline).write \in taken /\ Head(pipeline).write <= latest
  BY <1>2
<1>. QED
  BY <1>1, <1>2, <1>3, <1>5, <1>6, <1>7, HeadRemoved

LEMMA RefusalStep ==
    ASSUME Parts, StreamRefuses
    PROVE  Parts' /\ queue # <<>> /\ queue' = Tail(queue) /\ stream'.responses = <<>>
<1> DEFINE s == Closed("initial")
           response == Head(stream.responses)
<1>1. /\ CanWrite(stream) /\ stream.responses # <<>> /\ response.type = "refusal"
      /\ queue' = Removed(queue, Head(pipeline))
      /\ FillWritePipeline(queue', Tail(pipeline), s)
      /\ UNCHANGED <<nextBatchId, issued, server, failures>>
  BY DEF StreamRefuses
<1>2. pipeline # <<>> /\ response.write = Head(pipeline).write /\ response.write \in refused
  <2> HIDE DEF response
  <2>1. response = Head(stream.responses)
    BY DEF response
  <2>2. response.type # "handshake" /\ response.type = "refusal"
    BY <1>1
  <2>. QED
    BY <1>1, <2>1, <2>2, Heard
<1>3. Fits(Tail(pipeline), s) /\ s.responses = <<>>
  BY ClosedFits, ClosedStream
<1> HIDE DEF s
<1>4. Truthful(s.responses, taken, latest, refused)
  BY <1>3, NothingSaid
<1>. QED
  BY <1>1, <1>2, <1>3, <1>4, HeadRemoved

\* A stream that carries p answers its next request with x.
LEMMA Answered ==
    ASSUME NEW p \in Seq(Batch), NEW r \in Seq(Response), NEW w \in Seq(Request),
           Carries(p, r, w), w # <<>>,
           NEW x \in Response, x.type # "handshake", x.write = Head(w).write
    PROVE  /\ Carries(p, Append(r, x), Tail(w))
           /\ Len(r) + 1 \in 1..Len(p) /\ Head(w) = p[Len(r) + 1]
           /\ Append(r, x) \in Seq(Response) /\ Tail(w) \in Seq(Request)
<1> DEFINE u == Append(r, x)
           v == Tail(w)
<1>1. PICK m \in Nat, k \in Nat, n \in Nat :
        m = Len(r) /\ k = Len(w) /\ k # 0 /\ DOMAIN w = 1..k /\ n = Len(p)
  OBVIOUS
<1>2. /\ m + k = n
      /\ \A i \in 1..m : r[i].type # "handshake" /\ r[i].write = p[i].write
      /\ \A i \in 1..k : w[i] = p[m + i]
  BY <1>1 DEF Carries
<1>3. /\ u \in Seq(Response) /\ Len(u) = m + 1 /\ u[m + 1] = x
      /\ \A i \in 1..m : u[i] = r[i]
  BY <1>1, Grown
<1>4. /\ v \in Seq(Request) /\ Head(w) = w[1] /\ Len(v) = k - 1 /\ DOMAIN v = 1..(k - 1)
      /\ \A i \in 1..(k - 1) : v[i] = w[i + 1]
  BY <1>1, Popped
<1> HIDE DEF u, v
<1>5. m + 1 \in 1..n /\ (m + 1) + (k - 1) = n /\ 1 \in 1..k
  <2>1. m + k = n /\ k # 0
    BY <1>1, <1>2
  <2>. QED
    BY <2>1
<1>6. Head(w) = p[m + 1]
  BY <1>2, <1>4, <1>5
<1>7. Carries(p, u, v)
  <2>1. ASSUME NEW i \in 1..(m + 1)
        PROVE  u[i].type # "handshake" /\ u[i].write = p[i].write
    <3>1. CASE i \in 1..m
      BY <1>2, <1>3, <3>1
    <3>2. CASE i = m + 1
      BY <1>3, <1>6, <3>2
    <3>. QED
      BY <3>1, <3>2
  <2>2. ASSUME NEW i \in 1..(k - 1) PROVE v[i] = p[(m + 1) + i]
    <3>1. i + 1 \in 1..k /\ m + (i + 1) = (m + 1) + i
      BY <1>1
    <3>2. v[i] = w[i + 1]
      BY <1>4
    <3>3. w[i + 1] = p[m + (i + 1)]
      BY <1>2, <3>1
    <3>. QED
      BY <3>1, <3>2, <3>3
  <2>3. Len(u) + Len(v) = Len(p)
    BY <1>1, <1>3, <1>4, <1>5
  <2>. QED
    BY <1>3, <1>4, <2>1, <2>2, <2>3 DEF Carries
<1>. QED
  BY <1>1, <1>3, <1>4, <1>5, <1>6, <1>7 DEF u, v

LEMMA StillTruthful ==
    ASSUME NEW r \in Seq(Response), NEW x \in Response,
           NEW took, NEW newest, NEW never, Truthful(r, took, newest, never),
           \A i \in 1..Len(r) : r[i].type # "refusal",
           NEW tookNow, NEW newestNow, took \subseteq tookNow,
           \A i \in 1..Len(r) : r[i].type = "result" => r[i].write <= newestNow,
           x.type = "result" => x.write \in tookNow /\ x.write <= newestNow,
           x.type = "refusal" => x.write \in never
    PROVE  Truthful(Append(r, x), tookNow, newestNow, never)
<1> DEFINE u == Append(r, x)
<1>1. PICK m \in Nat : m = Len(r)
  OBVIOUS
<1>2. Len(u) = m + 1 /\ u[m + 1] = x /\ \A i \in 1..m : u[i] = r[i]
  BY <1>1, Grown
<1> HIDE DEF u
<1>3. ASSUME NEW i \in 1..(m + 1)
      PROVE  /\ u[i].type = "result" => u[i].write \in tookNow /\ u[i].write <= newestNow
             /\ u[i].type = "refusal" => u[i].write \in never /\ i = m + 1
  <2>1. CASE i \in 1..m
    BY <1>1, <1>2, <2>1 DEF Truthful
  <2>2. CASE i = m + 1
    BY <1>2, <2>2
  <2>. QED
    BY <2>1, <2>2
<1>4. Truthful(u, tookNow, newestNow, never)
  BY <1>2, <1>3 DEF Truthful
<1>. QED
  BY <1>4 DEF u

\* The server's answers, and its next request, are the writes that are off the queue plus
\* one, plus two, and so on.
LEMMA Turn ==
    ASSUME Parts, CanWrite(stream), stream.requests # <<>>,
           NEW request, request = Head(stream.requests)
    PROVE  /\ request \in Batch
           /\ request.write = issued - Len(queue) + Len(stream.responses) + 1
           /\ Len(stream.responses) \in Nat
           /\ \A i \in 1..Len(stream.responses) :
                  /\ stream.responses[i].type # "handshake"
                  /\ stream.responses[i].write = issued - Len(queue) + i
<1>1. PICK r \in Seq(Response), w \in Seq(Request), m \in Nat, n \in Nat, l \in Nat :
        /\ r = stream.responses /\ w = stream.requests /\ m = Len(r)
        /\ n = Len(pipeline) /\ DOMAIN pipeline = 1..n /\ l = Len(queue)
  BY Typed
<1>2. pipeline \in Seq(Batch) /\ Carries(pipeline, r, w) /\ w # <<>>
  BY <1>1, Typed DEF Parts, Fits
<1>3. request = pipeline[m + 1] /\ m + 1 \in 1..n
  <2>1. request \in Request /\ Head(w) = request
    BY <1>1, <1>2
  <2>2. request.write \in 0..MaxWrites
    BY <2>1, BoundsAssumption DEF Request, Batch, Handshake
  <2> DEFINE x == [type |-> "result", write |-> request.write]
  <2>3. x \in Response /\ x.type # "handshake" /\ x.write = Head(w).write
    BY <2>1, <2>2 DEF Response
  <2> HIDE DEF x
  <2>. QED
    BY <1>1, <1>2, <2>1, <2>3, Answered
<1>4. n <= l /\ \A i \in 1..n : pipeline[i] = queue[i]
  BY <1>1 DEF Parts, Oldest
<1>5. \A i \in 1..l : queue[i].write = issued - l + i
  BY <1>1 DEF Parts, Suffix
<1>6. \A i \in 1..m : r[i].type # "handshake" /\ r[i].write = pipeline[i].write
  BY <1>1, <1>2 DEF Carries
<1>7. \A i \in 1..n : pipeline[i].write = issued - l + i
  BY <1>4, <1>5
<1>8. request \in Batch /\ request.write = issued - l + (m + 1)
  BY <1>1, <1>2, <1>3, <1>7
<1>9. issued - l + (m + 1) = issued - l + m + 1
  BY Typed
<1>10. \A i \in 1..m : r[i].type # "handshake" /\ r[i].write = issued - l + i
  <2>1. \A i \in 1..m : i \in 1..n
    BY <1>3
  <2>. QED
    BY <1>6, <1>7, <2>1
<1>. QED
  BY <1>1, <1>8, <1>9, <1>10

\* The server answers its next request with x.
LEMMA ReplyFields ==
    ASSUME stream \in Stream, stream.requests # <<>>, NEW type \in {"handshake", "result", "refusal"},
           Respond(type), NEW x, x = [type |-> type, write |-> Head(stream.requests).write]
    PROVE  /\ x \in Response /\ x.type = type /\ x.write = Head(stream.requests).write
           /\ stream' \in Stream /\ stream'.state = stream.state
           /\ stream'.handshakeComplete = stream.handshakeComplete
           /\ stream'.idle = stream.idle
           /\ stream'.requests = Tail(stream.requests)
           /\ stream'.responses = Append(stream.responses, x)
<1>1. PICK r \in Seq(Response), w \in Seq(Request) : r = stream.responses /\ w = stream.requests
  BY StreamFields
<1>2. Head(w) \in Request /\ Tail(w) \in Seq(Request)
  BY <1>1
<1>3. Head(w).write \in 0..MaxWrites
  BY <1>2, BoundsAssumption DEF Request, Batch, Handshake
<1>4. x \in Response /\ x.type = type /\ x.write = Head(stream.requests).write
  BY <1>1, <1>3 DEF Response
<1>5. Append(r, x) \in Seq(Response)
  BY <1>4
<1>6. stream' = [stream EXCEPT !.requests = Tail(w), !.responses = Append(r, x)]
  BY <1>1 DEF Respond
<1>7. /\ stream' \in Stream /\ stream'.state = stream.state
      /\ stream'.handshakeComplete = stream.handshakeComplete /\ stream'.idle = stream.idle
      /\ stream'.requests = Tail(w) /\ stream'.responses = Append(r, x)
  BY <1>2, <1>5, <1>6 DEF Stream
<1>. QED
  BY <1>1, <1>4, <1>7

\* A handshake is answered.
LEMMA GreetingStep ==
    ASSUME Parts, ServerAnswers, ~CanWrite(stream)
    PROVE  /\ Parts' /\ queue' = queue /\ taken' = taken
           /\ stream.responses = <<>> /\ stream'.responses = <<[type |-> "handshake", write |-> 0]>>
<1> DEFINE request == Head(stream.requests)
           x == [type |-> "handshake", write |-> 0]
<1>1. /\ stream \in Stream /\ stream.requests # <<>>
      /\ UNCHANGED <<queue, nextBatchId, pipeline, issued, refused, failures>>
  BY Typed DEF ServerAnswers
<1>2. IsOpen(stream) /\ ~stream.handshakeComplete
  BY <1>1 DEF Parts, Fits, Quiet, CanWrite
<1>3. /\ pipeline # <<>> /\ ~stream.idle
      /\ stream.requests = <<Handshake>> /\ stream.responses = <<>>
  BY <1>1, <1>2 DEF Parts, Fits, Greets
<1>4. Head(<<Handshake>>) = Handshake /\ Tail(<<Handshake>>) = <<>>
  OBVIOUS
<1>5. request = Handshake /\ request.write = 0 /\ Tail(stream.requests) = <<>>
  BY <1>3, <1>4, Requests
<1>6. Respond("handshake") /\ UNCHANGED <<taken, latest>>
  BY <1>5 DEF ServerAnswers
<1>7. x = [type |-> "handshake", write |-> Head(stream.requests).write]
  BY <1>5
<1>8. /\ x \in Response /\ x.type = "handshake"
      /\ stream' \in Stream /\ stream'.state = stream.state
      /\ stream'.handshakeComplete = stream.handshakeComplete
      /\ stream'.idle = stream.idle
      /\ stream'.requests = Tail(stream.requests)
      /\ stream'.responses = Append(stream.responses, x)
  <2> HIDE DEF x
  <2>. QED
    BY <1>1, <1>6, <1>7, ReplyFields
<1> HIDE DEF request
<1>9. Append(<<>>, x) = <<x>> /\ Len(<<x>>) = 1 /\ <<x>>[1] = x
  OBVIOUS
<1>10. stream'.requests = <<>> /\ stream'.responses = <<x>>
  BY <1>3, <1>5, <1>8, <1>9
<1>11. Truthful(<<x>>, taken, latest, refused)
  <2>1. \A i \in 1..Len(<<x>>) : i = 1
    BY <1>9
  <2>. QED
    BY <1>8, <1>9, <2>1 DEF Truthful
<1>12. Fits(pipeline, stream') /\ IsStarted(stream')
  <2>1. IsOpen(stream') /\ ~CanWrite(stream') /\ IsStarted(stream')
        /\ ~stream'.handshakeComplete /\ ~stream'.idle
        /\ stream'.state \notin {"starting", "backoff"}
    BY <1>2, <1>3, <1>8 DEF IsOpen, CanWrite, IsStarted
  <2>2. Greets(stream')
    BY <1>10 DEF Greets
  <2>. QED
    BY <1>3, <1>8, <2>1, <2>2 DEF Fits
<1>13. failures' \in 0..MaxFailures
  BY <1>1 DEF Parts, Counters
<1>14. UNCHANGED <<queue, nextBatchId, pipeline, issued, server>>
  BY <1>1, <1>6 DEF server
<1>15. Truthful(stream'.responses, taken, latest, refused)
  BY <1>10, <1>11
<1>16. Parts'
  BY <1>12, <1>13, <1>14, <1>15, StreamChanges
<1>. QED
  BY <1>1, <1>3, <1>6, <1>10, <1>16

\* A write is answered with a result or a refusal: the latest answer, and the only refusal.
LEMMA ReplyStep ==
    ASSUME Parts, ServerAnswers, CanWrite(stream),
           NEW request, request = Head(stream.requests)
    PROVE  /\ Parts' /\ queue' = queue /\ Len(stream.responses) < Len(queue)
           /\ \E x \in Response :
                  /\ stream'.responses = Append(stream.responses, x)
                  /\ \/ x.type = "result" /\ taken' = taken \cup {request.write}
                     \/ x.type = "refusal" /\ taken' = taken
<1>1. /\ stream \in Stream /\ stream.requests # <<>> /\ ~Refusal
      /\ UNCHANGED <<queue, nextBatchId, pipeline, issued, refused, failures>>
      /\ stream.responses \in Seq(Response) /\ stream.requests \in Seq(Request)
  BY Typed DEF ServerAnswers
<1>2. PICK r \in Seq(Response), w \in Seq(Request), m \in Nat, l \in Nat :
        /\ r = stream.responses /\ w = stream.requests /\ m = Len(r) /\ DOMAIN r = 1..m
        /\ l = Len(queue) /\ l <= issued
  BY <1>1, Typed
<1>3. /\ request \in Batch /\ request.write = issued - l + m + 1
      /\ \A i \in 1..m : r[i].type # "handshake" /\ r[i].write = issued - l + i
  BY <1>1, <1>2, Turn
<1>4. /\ request # Handshake /\ request.write \in 1..MaxWrites
      /\ issued \in Nat /\ latest \in Nat
  BY <1>3, BatchFields, Typed
<1>5. PICK type \in {"result", "refusal"} :
        /\ Respond(type)
        /\ type = "result" => /\ request.write \notin refused
                              /\ taken' = taken \cup {request.write}
                              /\ latest' = request.write
        /\ type = "refusal" => /\ request.write \in refused
                               /\ taken' = taken /\ latest' = latest
  <2>1. \/ /\ request = Handshake
           /\ Respond("handshake")
           /\ UNCHANGED <<taken, latest>>
        \/ /\ request # Handshake /\ request.write \notin refused
           /\ Respond("result")
           /\ taken' = taken \cup {request.write}
           /\ latest' = request.write
        \/ /\ request # Handshake /\ request.write \in refused
           /\ Respond("refusal")
           /\ UNCHANGED <<taken, latest>>
    BY DEF ServerAnswers
  <2> DEFINE replies(type) ==
        /\ Respond(type)
        /\ type = "result" => /\ request.write \notin refused
                              /\ taken' = taken \cup {request.write}
                              /\ latest' = request.write
        /\ type = "refusal" => /\ request.write \in refused
                               /\ taken' = taken /\ latest' = latest
  <2>2. CASE request.write \notin refused
    <3>1. replies("result")
      BY <1>4, <2>1, <2>2
    <3>. QED
      BY <3>1
  <2>3. CASE request.write \in refused
    <3>1. replies("refusal")
      BY <1>4, <2>1, <2>3
    <3>. QED
      BY <3>1
  <2>. QED
    BY <2>2, <2>3
<1> DEFINE x == [type |-> type, write |-> Head(stream.requests).write]
<1>6. /\ x \in Response /\ x.type = type /\ x.write = request.write
      /\ stream' \in Stream /\ stream'.state = stream.state
      /\ stream'.handshakeComplete = stream.handshakeComplete
      /\ stream'.idle = stream.idle
      /\ stream'.requests = Tail(w) /\ stream'.responses = Append(r, x)
  <2>1. x = [type |-> type, write |-> Head(stream.requests).write]
    OBVIOUS
  <2> HIDE DEF x
  <2>2. type \in {"handshake", "result", "refusal"}
    OBVIOUS
  <2>. QED
    BY <1>1, <1>2, <1>5, <2>1, <2>2, ReplyFields
<1> HIDE DEF x
<1>7. /\ pipeline \in Seq(Batch) /\ Carries(pipeline, r, w) /\ w # <<>>
      /\ Truthful(r, taken, latest, refused) /\ x.type # "handshake"
      /\ x.write = Head(w).write
  BY <1>1, <1>2, <1>6, Typed DEF Parts, Fits
<1>8. Carries(pipeline, Append(r, x), Tail(w)) /\ m + 1 \in 1..Len(pipeline)
  BY <1>2, <1>6, <1>7, Answered
<1>9. Truthful(Append(r, x), taken', latest', refused)
  <2>1. \A i \in 1..m : r[i].type # "refusal"
    BY <1>1, <1>2 DEF Refusal
  <2>2. taken \subseteq taken'
    BY <1>5
  <2>3. ASSUME NEW i \in 1..m, r[i].type = "result" PROVE r[i].write <= latest'
    <3>1. r[i].write <= latest
      BY <1>2, <1>7, <2>3 DEF Truthful
    <3>2. r[i].write = issued - l + i /\ request.write = issued - l + m + 1
      BY <1>3
    <3>3. issued - l + i <= issued - l + m + 1
      BY <1>4
    <3>. QED
      BY <1>5, <3>1, <3>2, <3>3
  <2>4. /\ x.type = "result" => x.write \in taken' /\ x.write <= latest'
        /\ x.type = "refusal" => x.write \in refused
    BY <1>4, <1>5, <1>6
  <2>. QED
    BY <1>2, <1>6, <1>7, <2>1, <2>2, <2>3, <2>4, StillTruthful
<1>10. Settled(issued - l, taken', latest', refused)
  <2>1. Settled(issued - l, taken, latest, refused)
    BY <1>2 DEF Parts
  <2>2. CASE type = "refusal"
    BY <1>5, <2>1, <2>2
  <2>3. CASE type = "result"
    <3>1. taken' \cap refused = {}
      BY <1>5, <2>1, <2>3 DEF Settled
    <3>2. ASSUME NEW v \in 1..(issued - l)
          PROVE  v \in refused \/ (v \in taken' /\ v <= latest')
      <4>1. v \in refused \/ v \in taken'
        BY <1>5, <2>1, <2>3 DEF Settled
      <4>2. v <= issued - l + m + 1
        BY <1>4, <1>2
      <4>. QED
        BY <1>3, <1>5, <2>3, <4>1, <4>2
    <3>. QED
      BY <3>1, <3>2 DEF Settled
  <2>. QED
    BY <2>2, <2>3
<1>11. Counters'
  <2>1. Counters
    BY DEF Parts
  <2>2. taken' \in SUBSET (1..MaxWrites)
    BY <1>4, <1>5, <2>1 DEF Counters
  <2>3. latest' \in 0..MaxWrites
    BY <1>4, <1>5, <2>1 DEF Counters
  <2>. QED
    BY <1>1, <2>1, <2>2, <2>3 DEF Counters
<1>12. ~stream.idle /\ pipeline # <<>>
  <2>1. pipeline # <<>>
    BY <1>2, <1>8
  <2>. QED
    BY <2>1 DEF Parts, Fits
<1>13. Fits(pipeline, stream') /\ IsStarted(stream')
  <2>1. /\ IsOpen(stream') /\ stream'.handshakeComplete /\ IsStarted(stream')
        /\ ~stream'.idle /\ stream'.state \notin {"starting", "backoff"}
    BY <1>6, <1>12 DEF CanWrite, IsOpen, IsStarted
  <2>2. Carries(pipeline, stream'.responses, stream'.requests)
    BY <1>6, <1>8
  <2>. QED
    BY <1>6, <2>1, <2>2 DEF Fits
<1>14. Truthful(stream'.responses, taken', latest', refused)
  BY <1>6, <1>9
<1>15. Parts'
  BY <1>1, <1>2, <1>10, <1>11, <1>13, <1>14 DEF Parts
<1>16. stream'.responses = Append(stream.responses, x) /\ x \in Response
  BY <1>2, <1>6
<1>17. \/ x.type = "result" /\ taken' = taken \cup {request.write}
       \/ x.type = "refusal" /\ taken' = taken
  BY <1>5, <1>6
<1>18. Len(stream.responses) < Len(queue)
  <2>1. PICK n \in Nat : n = Len(pipeline) /\ n <= l
    BY <1>2, <1>7 DEF Parts, Oldest
  <2>2. m + 1 <= n
    BY <1>8, <2>1
  <2>3. m < l
    BY <2>1, <2>2
  <2>. QED
    BY <1>2, <2>3
<1>. QED
  BY <1>1, <1>15, <1>16, <1>17, <1>18

LEMMA NextParts == Parts /\ [Next]_vars => Parts'
<1> SUFFICES ASSUME Parts, [Next]_vars PROVE Parts'
  OBVIOUS
<1>1. ASSUME ServerAnswers PROVE Parts'
  BY <1>1, GreetingStep, ReplyStep
<1>2. ASSUME UNCHANGED vars PROVE Parts'
  BY <1>2 DEF vars, server, Parts, Counters
<1>. QED
  BY <1>1, <1>2, WriteStep, OpenStep, HandshakeStep, BackoffStep, BreakStep, IdleStep,
     RestartStep, RefusalStep, ResultStep DEF Next, Client

-----------------------------------------------------------------------------
(***************************************************************************)
(* The theorems.                                                           *)
(***************************************************************************)

\* The inductive invariant: the stream carries the pipeline, and the pipeline is the
\* oldest part of the queue.
THEOREM InvariantHolds == Spec => []IInv
<1>1. Spec => []Parts
  BY InitParts, NextParts, PTL DEF Spec
<1>. QED
  BY <1>1, SplitParts, PTL

\* The assertions of RemoteStore and FSTLocalStore.
THEOREM AssertionsHold == Spec => []NoAssertFails
<1>1. IInv => NoAssertFails
  BY DEF IInv
<1>. QED
  BY <1>1, InvariantHolds, PTL

\* A write that is off the queue was taken, unless the server refused it.
THEOREM WritesArrive == Spec => []NothingLost
<1>1. IInv => NothingLost
  BY DEF IInv
<1>. QED
  BY <1>1, InvariantHolds, PTL

\* No write overtakes an older one, however often some are sent again.
THEOREM WritesInOrder == Spec => InOrder
<1> DEFINE Step == \A w \in taken' \ taken : \A v \in 1..(w - 1) : v \in taken \cup refused
<1>1. Parts /\ [Next]_vars => [Step]_vars
  <2> SUFFICES ASSUME Parts, [Next]_vars, taken' # taken PROVE Step
    BY DEF vars, server
  <2>1. ServerAnswers
    BY DEF Next, Client, WriteMutations, StreamOpens, HandshakeCompletes, BackoffElapses,
           StreamRefuses, MutationResult, StreamBreaks, IdleTimeout, Restart, vars, server
  <2>2. CanWrite(stream)
    BY <2>1, GreetingStep
  <2> DEFINE request == Head(stream.requests)
  <2>3. taken' = taken \cup {request.write}
    BY <2>1, <2>2, ReplyStep
  <2>4. PICK r \in Seq(Response), m \in Nat, l \in Nat :
          /\ r = stream.responses /\ m = Len(r) /\ DOMAIN r = 1..m
          /\ l = Len(queue) /\ l <= issued /\ issued \in Nat
    BY Typed
  <2>5. /\ request.write = issued - l + m + 1
        /\ \A i \in 1..m : r[i].type # "handshake" /\ r[i].write = issued - l + i
    BY <2>1, <2>2, <2>4, Turn DEF ServerAnswers
  <2> HIDE DEF request
  <2>6. ASSUME NEW v \in 1..(request.write - 1) PROVE v \in taken \cup refused
    <3>1. v \in 1..(issued - l) \/ v \in (issued - l + 1)..(issued - l + m)
      BY <2>4, <2>5
    <3>2. CASE v \in 1..(issued - l)
      BY <2>4, <3>2 DEF Parts, Settled
    <3>3. CASE v \in (issued - l + 1)..(issued - l + m)
      <4>1. v - (issued - l) \in 1..m /\ issued - l + (v - (issued - l)) = v
        BY <2>4, <3>3
      <4>2. PICK i \in 1..m : r[i].write = v /\ r[i].type # "handshake"
        BY <2>5, <4>1
      <4>3. r[i].type # "refusal"
        BY <2>1, <2>4 DEF ServerAnswers, Refusal
      <4>4. r[i].type = "result"
        <5>1. r[i] \in Response
          BY <2>4
        <5>. QED
          BY <4>2, <4>3, <5>1 DEF Response
      <4>. QED
        BY <2>4, <4>2, <4>4 DEF Parts, Truthful
    <3>. QED
      BY <3>1, <3>2, <3>3
  <2>. QED
    BY <2>3, <2>6
<1>2. Spec => []Parts
  BY InitParts, NextParts, PTL DEF Spec
<1>. QED
  BY <1>1, <1>2, PTL DEF Spec, InOrder

-----------------------------------------------------------------------------
(***************************************************************************)
(* The write path implements WriteQueue.                                   *)
(***************************************************************************)

\* How many results there are among the responses r.
ResultsOf(r) == Cardinality({i \in DOMAIN r : r[i].type = "result"})

\* All are results but for a refusal at the end, or a lone handshake.
LEMMA CountResults ==
    ASSUME NEW r \in Seq(Response), NEW n \in Nat, n <= Len(r),
           \A i \in 1..Len(r) : r[i].type = "result" <=> i <= n
    PROVE  ResultsOf(r) = n
<1>1. DOMAIN r = 1..Len(r) /\ Len(r) \in Nat
  OBVIOUS
<1>2. {i \in DOMAIN r : r[i].type = "result"} = 1..n
  BY <1>1
<1>3. Cardinality(1..n) = IF 1 > n THEN 0 ELSE n - 1 + 1
  BY FS_Interval
<1>4. Cardinality(1..n) = n
  BY <1>3
<1>. QED
  BY <1>2, <1>4 DEF ResultsOf

LEMMA NoResults == ResultsOf(<<>>) = 0 /\ ResultsOf(<<[type |-> "handshake", write |-> 0]>>) = 0
<1> DEFINE x == [type |-> "handshake", write |-> 0]
<1>1. x.type # "result"
  OBVIOUS
<1> HIDE DEF x
<1>2. DOMAIN <<>> = {} /\ DOMAIN <<x>> = {1} /\ <<x>>[1] = x
  OBVIOUS
<1>3. {i \in DOMAIN <<x>> : <<x>>[i].type = "result"} = {}
  BY <1>1, <1>2
<1>4. {i \in DOMAIN <<>> : <<>>[i].type = "result"} = {}
  BY <1>2
<1>5. Cardinality({}) = 0
  BY FS_EmptySet
<1>6. ResultsOf(<<>>) = 0
  BY <1>4, <1>5 DEF ResultsOf
<1>7. ResultsOf(<<x>>) = 0
  BY <1>3, <1>5 DEF ResultsOf
<1>. QED
  BY <1>6, <1>7 DEF x

\* The responses, without an old one at the head or with a new one at the end.
LEMMA CountChanges ==
    ASSUME NEW r \in Seq(Response), Truthful(r, taken, latest, refused),
           \A i \in 1..Len(r) : r[i].type # "handshake"
    PROVE  /\ ResultsOf(r) \in 0..Len(r)
           /\ r # <<>> /\ Head(r).type = "result" =>
                 ResultsOf(r) > 0 /\ ResultsOf(Tail(r)) = ResultsOf(r) - 1
           /\ r # <<>> /\ Head(r).type = "refusal" => ResultsOf(r) = 0
           /\ ~(\E i \in DOMAIN r : r[i].type = "refusal") => ResultsOf(r) = Len(r)
           /\ \A x \in Response : ~(\E i \in DOMAIN r : r[i].type = "refusal") =>
                 /\ x.type = "result" => ResultsOf(Append(r, x)) = ResultsOf(r) + 1
                 /\ x.type = "refusal" => ResultsOf(Append(r, x)) = ResultsOf(r)
<1>1. PICK m \in Nat : m = Len(r) /\ DOMAIN r = 1..m
  OBVIOUS
<1>2. ASSUME NEW i \in 1..m
      PROVE  /\ r[i].type \in {"result", "refusal"}
             /\ r[i].type = "refusal" => i = m
  <2>1. r[i] \in Response
    BY <1>1
  <2>. QED
    BY <1>1, <2>1 DEF Response, Truthful
<1>3. PICK n \in 0..m :
        /\ \A i \in 1..m : r[i].type = "result" <=> i <= n
        /\ (\E i \in 1..m : r[i].type = "refusal") <=> n # m
        /\ n = m \/ n = m - 1
  <2>1. CASE \E i \in 1..m : r[i].type = "refusal"
    <3>1. r[m].type = "refusal" /\ m >= 1
      BY <1>2, <2>1
    <3>2. m - 1 \in 0..m /\ m - 1 # m
      BY <3>1
    <3>3. \A i \in 1..m : r[i].type = "result" <=> i <= m - 1
      BY <1>2, <3>1
    <3>. QED
      BY <2>1, <3>2, <3>3
  <2>2. CASE ~(\E i \in 1..m : r[i].type = "refusal")
    <3>1. \A i \in 1..m : r[i].type = "result" <=> i <= m
      BY <1>2, <2>2
    <3>. QED
      BY <2>2, <3>1
  <2>. QED
    BY <2>1, <2>2
<1>4. ResultsOf(r) = n
  BY <1>1, <1>3, CountResults
<1>5. ASSUME r # <<>>, Head(r).type = "result"
      PROVE  ResultsOf(r) > 0 /\ ResultsOf(Tail(r)) = ResultsOf(r) - 1
  <2> DEFINE u == Tail(r)
  <2>1. /\ u \in Seq(Response) /\ Head(r) = r[1] /\ Len(u) = m - 1 /\ m >= 1
        /\ \A i \in 1..(m - 1) : u[i] = r[i + 1]
    BY <1>1, <1>5, Popped
  <2> HIDE DEF u
  <2>2. 1 <= n
    BY <1>3, <1>5, <2>1
  <2>3. ASSUME NEW i \in 1..(m - 1) PROVE u[i].type = "result" <=> i <= n - 1
    <3>1. i + 1 \in 1..m /\ (i + 1 <= n <=> i <= n - 1)
      OBVIOUS
    <3>. QED
      BY <1>3, <2>1, <3>1
  <2>4. n - 1 \in Nat /\ n - 1 <= m - 1
    BY <2>2
  <2>5. ResultsOf(u) = n - 1
    BY <2>1, <2>3, <2>4, CountResults
  <2>. QED
    BY <1>4, <2>2, <2>5 DEF u
<1>6. ASSUME r # <<>>, Head(r).type = "refusal" PROVE n = 0
  <2>1. Head(r) = r[1] /\ 1 \in 1..m
    BY <1>1, <1>6, Popped
  <2>2. r[1].type # "result"
    BY <1>6, <2>1
  <2>. QED
    BY <1>3, <2>1, <2>2
<1>7. ASSUME NEW x \in Response, n = m
      PROVE  /\ x.type = "result" => ResultsOf(Append(r, x)) = n + 1
             /\ x.type = "refusal" => ResultsOf(Append(r, x)) = n
  <2> DEFINE u == Append(r, x)
  <2>1. /\ u \in Seq(Response) /\ Len(u) = m + 1 /\ u[m + 1] = x
        /\ \A i \in 1..m : u[i] = r[i]
    BY <1>1, Grown
  <2> HIDE DEF u
  <2>2. ASSUME NEW i \in 1..(m + 1) PROVE i \in 1..m \/ i = m + 1
    OBVIOUS
  <2>3. \A i \in 1..m : u[i].type = "result"
    BY <1>3, <1>7, <2>1
  <2>4. ASSUME x.type = "result" PROVE ResultsOf(u) = n + 1
    <3>1. \A i \in 1..(m + 1) : u[i].type = "result"
      BY <2>1, <2>2, <2>3, <2>4
    <3>2. \A i \in 1..(m + 1) : u[i].type = "result" <=> i <= m + 1
      BY <3>1
    <3>. QED
      BY <1>7, <2>1, <3>2, CountResults
  <2>5. ASSUME x.type = "refusal" PROVE ResultsOf(u) = n
    <3>1. u[m + 1].type # "result"
      BY <2>1, <2>5
    <3>2. \A i \in 1..(m + 1) : u[i].type = "result" <=> i <= m
      BY <2>2, <2>3, <3>1
    <3>. QED
      BY <1>7, <2>1, <3>2, CountResults
  <2>. QED
    BY <2>4, <2>5 DEF u
<1>. QED
  BY <1>1, <1>3, <1>4, <1>5, <1>6, <1>7

Mapped == <<[i \in DOMAIN queue |-> queue[i].write], Cardinality(Results)>>

\* The writes of the queue q.
WritesOf(q) == [i \in DOMAIN q |-> q[i].write]

LEMMA WritesOfChanges ==
    ASSUME NEW q \in Seq(Batch)
    PROVE  /\ WritesOf(q) \in Seq(1..MaxWrites) /\ Len(WritesOf(q)) = Len(q)
           /\ q # <<>> => WritesOf(q) # <<>> /\ WritesOf(Tail(q)) = Tail(WritesOf(q))
           /\ \A b \in Batch : WritesOf(Append(q, b)) = Append(WritesOf(q), b.write)
<1>1. ASSUME NEW r \in Seq(Batch)
      PROVE  /\ WritesOf(r) \in Seq(1..MaxWrites) /\ Len(WritesOf(r)) = Len(r)
             /\ \A i \in 1..Len(r) : WritesOf(r)[i] = r[i].write
  <2>1. DOMAIN r = 1..Len(r) /\ Len(r) \in Nat
    OBVIOUS
  <2>2. \A i \in DOMAIN r : r[i].write \in 1..MaxWrites
    BY BatchFields
  <2>. QED
    BY <2>1, <2>2 DEF WritesOf
<1>2. ASSUME q # <<>> PROVE WritesOf(q) # <<>> /\ WritesOf(Tail(q)) = Tail(WritesOf(q))
  <2>1. PICK l \in Nat : l = Len(q) /\ l >= 1
    BY <1>2
  <2>2. /\ Tail(q) \in Seq(Batch) /\ Len(Tail(q)) = l - 1
        /\ \A i \in 1..(l - 1) : Tail(q)[i] = q[i + 1]
    BY <1>2, <2>1, Popped
  <2>3. PICK t \in Seq(1..MaxWrites), u \in Seq(1..MaxWrites) : t = WritesOf(q) /\ u = WritesOf(Tail(q))
    BY <1>1, <2>2
  <2>4. /\ Len(t) = l /\ \A i \in 1..l : t[i] = q[i].write
        /\ Len(u) = l - 1 /\ \A i \in 1..(l - 1) : u[i] = Tail(q)[i].write
    BY <1>1, <2>1, <2>2, <2>3
  <2>5. t # <<>>
    BY <2>1, <2>4
  <2>6. /\ Tail(t) \in Seq(1..MaxWrites) /\ Len(Tail(t)) = l - 1
        /\ \A i \in 1..(l - 1) : Tail(t)[i] = t[i + 1]
    BY <2>4, <2>5, Popped
  <2>7. ASSUME NEW i \in 1..(l - 1) PROVE u[i] = Tail(t)[i]
    <3>1. i + 1 \in 1..l
      BY <2>1
    <3>. QED
      BY <2>2, <2>4, <2>6, <3>1
  <2>8. u = Tail(t)
    BY <2>4, <2>6, <2>7, SeqEqual
  <2>. QED
    BY <2>3, <2>5, <2>8
<1>3. ASSUME NEW b \in Batch PROVE WritesOf(Append(q, b)) = Append(WritesOf(q), b.write)
  <2>1. PICK l \in Nat : l = Len(q)
    OBVIOUS
  <2>2. /\ Append(q, b) \in Seq(Batch) /\ Len(Append(q, b)) = l + 1
        /\ Append(q, b)[l + 1] = b /\ \A i \in 1..l : Append(q, b)[i] = q[i]
    BY <2>1, Grown
  <2>3. PICK t \in Seq(1..MaxWrites), u \in Seq(1..MaxWrites) :
          t = WritesOf(q) /\ u = WritesOf(Append(q, b))
    BY <1>1, <2>2
  <2>4. /\ Len(t) = l /\ \A i \in 1..l : t[i] = q[i].write
        /\ Len(u) = l + 1 /\ \A i \in 1..(l + 1) : u[i] = Append(q, b)[i].write
    BY <1>1, <2>1, <2>2, <2>3
  <2>5. b.write \in 1..MaxWrites
    BY BatchFields
  <2>6. /\ Append(t, b.write) \in Seq(1..MaxWrites) /\ Len(Append(t, b.write)) = l + 1
        /\ Append(t, b.write)[l + 1] = b.write
        /\ \A i \in 1..l : Append(t, b.write)[i] = t[i]
    BY <2>4, <2>5, Grown
  <2>7. ASSUME NEW i \in 1..(l + 1) PROVE u[i] = Append(t, b.write)[i]
    <3>1. CASE i \in 1..l
      BY <2>2, <2>4, <2>6, <3>1
    <3>2. CASE i = l + 1
      BY <2>2, <2>4, <2>6, <3>2
    <3>3. i \in 1..l \/ i = l + 1
      OBVIOUS
    <3>. QED
      BY <3>1, <3>2, <3>3
  <2>8. u = Append(t, b.write)
    BY <2>4, <2>6, <2>7, SeqEqual
  <2>. QED
    BY <2>3, <2>8
<1>. QED
  BY <1>1, <1>2, <1>3

\* What the mapping is, on both sides of a step.
LEMMA MappedIs ==
    /\ Mapped = <<WritesOf(queue), ResultsOf(stream.responses)>>
    /\ Mapped' = <<WritesOf(queue'), ResultsOf(stream'.responses)>>
  BY DEF Mapped, WritesOf, ResultsOf, Results

LEMMA QueueInit == Init => Queue!Init
<1> SUFFICES ASSUME Init PROVE Queue!Init
  OBVIOUS
<1>1. queue = <<>> /\ DOMAIN queue = {} /\ stream.responses = <<>> /\ DOMAIN <<>> = {}
  BY ClosedStream DEF Init
<1>2. [i \in DOMAIN queue |-> queue[i].write] = <<>>
  BY <1>1
<1>3. Results = {} /\ Cardinality({}) = 0
  BY <1>1, FS_EmptySet DEF Results
<1>. QED
  BY <1>2, <1>3 DEF Queue!Init

\* A step after which nothing the server said is on its way: the queue begins again.
LEMMA NothingHeard ==
    ASSUME queue' = queue,
           stream'.responses \in {<<>>, <<[type |-> "handshake", write |-> 0]>>}
    PROVE  [Queue!Next]_Mapped
<1>1. ResultsOf(stream'.responses) = 0
  BY NoResults
<1>2. /\ [i \in DOMAIN queue |-> queue[i].write]' = [i \in DOMAIN queue |-> queue[i].write]
      /\ Cardinality(Results)' = 0
  BY <1>1 DEF ResultsOf, Results
<1>. QED
  BY <1>2 DEF Queue!Next, Queue!BeginAgain

\* What the client may hear, all of it results but the last.
LEMMA AllHeard ==
    ASSUME Parts, CanWrite(stream)
    PROVE  /\ Truthful(stream.responses, taken, latest, refused)
           /\ \A i \in 1..Len(stream.responses) : stream.responses[i].type # "handshake"
<1>1. Carries(pipeline, stream.responses, stream.requests)
  BY DEF Parts, Fits
<1>. QED
  BY <1>1 DEF Parts, Carries

LEMMA QueueStep == Parts /\ [Next]_vars => [Queue!Next]_Mapped
<1> SUFFICES ASSUME Parts, [Next]_vars PROVE [Queue!Next]_Mapped
  OBVIOUS
<1> DEFINE Q == WritesOf(queue)
           n == ResultsOf(stream.responses)
<1>q. /\ [i \in DOMAIN queue |-> queue[i].write] = Q /\ Cardinality(Results) = n
      /\ [i \in DOMAIN queue |-> queue[i].write]' = WritesOf(queue')
      /\ Cardinality(Results)' = ResultsOf(stream'.responses)
  BY DEF WritesOf, ResultsOf, Results
<1>t. queue \in Seq(Batch) /\ stream.responses \in Seq(Response)
  BY Typed
<1> HIDE DEF Q, n
<1>1. ASSUME WriteMutations PROVE [Queue!Next]_Mapped
  <2>1. PICK b \in Batch : queue' = Append(queue, b)
    BY <1>1, WriteStep
  <2>2. WritesOf(queue') = Append(Q, b.write) /\ b.write \in 1..MaxWrites
    BY <1>t, <2>1, WritesOfChanges, BatchFields DEF Q
  <2>3. ResultsOf(stream'.responses) = n
    BY <1>1, WriteStep DEF n
  <2>. QED
    BY <1>q, <2>2, <2>3 DEF Queue!Next, Queue!Enqueue
<1>2. ASSUME StreamOpens \/ HandshakeCompletes \/ BackoffElapses \/ StreamBreaks
             \/ IdleTimeout \/ Restart
      PROVE  [Queue!Next]_Mapped
  <2>1. queue' = queue /\ stream'.responses = <<>>
    BY <1>2, OpenStep, HandshakeStep, BackoffStep, BreakStep, IdleStep, RestartStep
  <2>. QED
    BY <2>1, NothingHeard
<1>3. ASSUME StreamRefuses PROVE [Queue!Next]_Mapped
  <2>1. queue # <<>> /\ queue' = Tail(queue) /\ stream'.responses = <<>>
    BY <1>3, RefusalStep
  <2>2. n = 0
    BY <1>3, <1>t, AllHeard, CountChanges DEF StreamRefuses, n
  <2>3. ResultsOf(stream'.responses) = 0
    BY <2>1, NoResults
  <2>4. Q # <<>> /\ WritesOf(queue') = Tail(Q)
    BY <1>t, <2>1, WritesOfChanges DEF Q
  <2>. QED
    BY <1>q, <2>2, <2>3, <2>4 DEF Queue!Next, Queue!Refuse
<1>4. ASSUME MutationResult PROVE [Queue!Next]_Mapped
  <2>1. /\ queue # <<>> /\ queue' = Tail(queue)
        /\ stream'.responses = Tail(stream.responses)
    BY <1>4, ResultStep
  <2>2. n > 0 /\ ResultsOf(stream'.responses) = n - 1
    BY <1>4, <1>t, <2>1, AllHeard, CountChanges DEF MutationResult, n
  <2>3. WritesOf(queue') = Tail(Q)
    BY <1>t, <2>1, WritesOfChanges DEF Q
  <2>. QED
    BY <1>q, <2>2, <2>3 DEF Queue!Next, Queue!Acknowledge
<1>5. ASSUME ServerAnswers, ~CanWrite(stream) PROVE [Queue!Next]_Mapped
  <2>1. queue' = queue /\ stream'.responses = <<[type |-> "handshake", write |-> 0]>>
    BY <1>5, GreetingStep
  <2>. QED
    BY <2>1, NothingHeard
<1>6. ASSUME ServerAnswers, CanWrite(stream) PROVE [Queue!Next]_Mapped
  <2>1. /\ queue' = queue /\ Len(stream.responses) < Len(queue)
        /\ \E x \in Response : /\ stream'.responses = Append(stream.responses, x)
                               /\ x.type = "result" \/ x.type = "refusal"
    BY <1>6, ReplyStep
  <2>2. PICK x \in Response : /\ stream'.responses = Append(stream.responses, x)
                              /\ x.type = "result" \/ x.type = "refusal"
    BY <2>1
  <2>3. ~(\E i \in DOMAIN stream.responses : stream.responses[i].type = "refusal")
    BY <1>6 DEF ServerAnswers, Refusal
  <2>4. /\ n = Len(stream.responses)
        /\ x.type = "result" => ResultsOf(stream'.responses) = n + 1
        /\ x.type = "refusal" => ResultsOf(stream'.responses) = n
    BY <1>6, <1>t, <2>2, <2>3, AllHeard, CountChanges DEF n
  <2>5. WritesOf(queue') = Q /\ n < Len(Q)
    BY <1>t, <2>1, <2>4, WritesOfChanges DEF Q
  <2>6. CASE x.type = "result"
    BY <1>q, <2>4, <2>5, <2>6 DEF Queue!Next, Queue!Take
  <2>7. CASE x.type = "refusal"
    BY <1>q, <2>4, <2>5, <2>7 DEF Mapped
  <2>. QED
    BY <2>2, <2>6, <2>7
<1>7. ASSUME UNCHANGED vars PROVE [Queue!Next]_Mapped
  BY <1>7 DEF vars, Mapped, Results
<1>. QED
  BY <1>1, <1>2, <1>3, <1>4, <1>5, <1>6, <1>7 DEF Next, Client

\* What the server took and the client has not heard of are the results under way: the
\* write path keeps the promise FeedSync relies on for each of its phones.
THEOREM QueueImplemented == Spec => ImplementsQueue
<1>1. Parts /\ [Next]_vars => [Queue!Next]_(Queue!vars)
  BY QueueStep DEF Mapped, Queue!vars
<1>2. Spec => []Parts
  BY InitParts, NextParts, PTL DEF Spec
<1>. QED
  BY <1>1, <1>2, QueueInit, PTL DEF Spec, ImplementsQueue, Queue!Spec

=============================================================================
