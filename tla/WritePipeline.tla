---------------------------- MODULE WritePipeline ----------------------------
(***************************************************************************)
(* How the Firestore client of one phone sends its writes: the mutation    *)
(* queue on disk, the write pipeline (the oldest writes, in memory), the   *)
(* write stream and the server at its other end.                           *)
(*                                                                         *)
(* A stream carries a handshake and then the pipeline.  When it breaks the *)
(* whole pipeline is sent again on the next one; the handshake carries no  *)
(* stream token, so the server cannot tell that it has taken some of it    *)
(* already.  Everything here runs on the client's worker queue, one        *)
(* operation after another; the network and the server interleave.         *)
(*                                                                         *)
(* What a closed stream had in flight is gone, and a stream's status is    *)
(* read after the responses sent before it.                                *)
(***************************************************************************)
EXTENDS Integers, Sequences, FiniteSets

CONSTANTS
    MaxPendingWrites,  \* kMaxPendingWrites, 10 in the code
    MaxWrites,         \* bound on the writes of a run
    MaxFailures        \* bound on broken connections and restarts

ASSUME BoundsAssumption ==
    MaxPendingWrites \in Nat \ {0} /\ MaxWrites \in Nat /\ MaxFailures \in Nat

VARIABLES
    queue,        \* FSTMutationQueue, on disk: batches not acknowledged, by batch id
    nextBatchId,  \* next_batch_id_
    pipeline,     \* write_pipeline_: the batches being sent, in memory
    stream,       \* the write stream
    issued,       \* how many writes the app has made; a write is its number
    refused,      \* the writes the server will not accept
    taken,        \* history: the writes the server took, at least once
    latest,       \* the server's document: the last write it took, 0 for none
    failures      \* broken connections and restarts so far

server == <<refused, taken, latest>>
vars == <<queue, nextBatchId, pipeline, stream, issued, server, failures>>

Batch == [batchID : Nat, write : 1..MaxWrites]
kBatchIdUnknown == -1

\* The requests on the wire are batches and the handshake; a response carries the
\* number of its write, which the code does not have and does not need.
Handshake == [batchID |-> kBatchIdUnknown, write |-> 0]
Request == Batch \cup {Handshake}
Response == [type : {"handshake", "result", "refusal"}, write : 0..MaxWrites]
Stream == [state : {"initial", "starting", "open", "error", "backoff"},
           handshakeComplete : BOOLEAN, idle : BOOLEAN,
           requests : Seq(Request), responses : Seq(Response)]

Closed(state) == [state |-> state, handshakeComplete |-> FALSE, idle |-> FALSE,
                  requests |-> <<>>, responses |-> <<>>]

-----------------------------------------------------------------------------
(***************************************************************************)
(* The steps of RemoteStore, on a stream s.                                *)
(***************************************************************************)

IsOpen(s) == s.state = "open"
IsStarted(s) == s.state \in {"starting", "backoff", "open"}
CanWrite(s) == IsOpen(s) /\ s.handshakeComplete

\* Start(): at once, or after the backoff if the last stream ended in an error.
Start(s) == [s EXCEPT !.state = IF @ = "error" THEN "backoff" ELSE "starting"]

\* Mutant: the idle timer goes on.
SendKeepsIdle(s, requests) == [s EXCEPT !.requests = @ \o requests]

\* Write(): every request cancels the idle timer.
Send(s, requests) ==
    [s EXCEPT !.requests = @ \o requests, !.idle = @ /\ requests = <<>>]

LastBatchId(p) == IF p = <<>> THEN kBatchIdUnknown ELSE p[Len(p)].batchID

\* nextMutationBatchAfterBatchID(), until the pipeline is full.
After(q, id) ==
    LET earlier == Cardinality({i \in DOMAIN q : q[i].batchID <= id})
    IN SubSeq(q, earlier + 1, Len(q))
Upto(q, n) == IF Len(q) <= n THEN q ELSE SubSeq(q, 1, n)
\* What there is room for.
Added(q, p) == Upto(After(q, LastBatchId(p)), MaxPendingWrites - Len(p))

\* FillWritePipeline() from the queue q, the pipeline p and the stream s.
FillWritePipeline(q, p, s) ==
    LET added == Added(q, p)
        filled == p \o added
        idle == [s EXCEPT !.idle = @ \/ (filled = <<>> /\ IsOpen(s))]
        sending == IF CanWrite(s) THEN Send(idle, added) ELSE idle
    IN /\ pipeline' = filled
       /\ stream' = IF filled # <<>> /\ ~IsStarted(s) THEN Start(sending) ELSE sending

\* RemoveMutationBatch().
Removed(q, b) ==
    LET i == CHOOSE i \in DOMAIN q : q[i].batchID = b.batchID
    IN SubSeq(q, 1, i - 1) \o SubSeq(q, i + 1, Len(q))

-----------------------------------------------------------------------------
Init ==
    /\ queue = <<>> /\ nextBatchId = 0 /\ pipeline = <<>>
    /\ stream = Closed("initial")
    /\ issued = 0 /\ refused \in SUBSET (1..MaxWrites)
    /\ taken = {} /\ latest = 0
    /\ failures = 0

\* writeMutations: the batch goes to disk, then into the pipeline if there is room.
WriteMutations ==
    /\ issued < MaxWrites
    /\ issued' = issued + 1
    /\ queue' = Append(queue, [batchID |-> nextBatchId, write |-> issued'])
    /\ nextBatchId' = nextBatchId + 1
    /\ FillWritePipeline(queue', pipeline, stream)
    /\ UNCHANGED <<server, failures>>

-----------------------------------------------------------------------------
(***************************************************************************)
(* The stream opens.                                                       *)
(***************************************************************************)

\* Mutant: the handshake is not waited for.
OpensWithPipeline ==
    /\ stream.state = "starting"
    /\ stream' = Send([stream EXCEPT !.state = "open", !.handshakeComplete = TRUE],
                      <<Handshake>> \o pipeline)
    /\ UNCHANGED <<queue, nextBatchId, pipeline, issued, server, failures>>

\* The token arrives, the gRPC call starts and counts as open at once.
StreamOpens ==
    /\ stream.state = "starting"
    /\ stream' = Send([stream EXCEPT !.state = "open"], <<Handshake>>)
    /\ UNCHANGED <<queue, nextBatchId, pipeline, issued, server, failures>>

\* The first response completes the handshake; the whole pipeline is sent.
HandshakeCompletes ==
    /\ IsOpen(stream) /\ ~stream.handshakeComplete /\ stream.responses # <<>>
    /\ stream' = Send([stream EXCEPT !.handshakeComplete = TRUE,
                                     !.responses = Tail(@)], pipeline)
    /\ UNCHANGED <<queue, nextBatchId, pipeline, issued, server, failures>>

BackoffElapses ==
    /\ stream.state = "backoff"
    /\ stream' = Start([stream EXCEPT !.state = "initial"])
    /\ UNCHANGED <<queue, nextBatchId, pipeline, issued, server, failures>>

-----------------------------------------------------------------------------
(***************************************************************************)
(* The stream closes.                                                      *)
(***************************************************************************)

\* Mutant: a broken connection counts as a refusal of the oldest write.
BreaksRefusing ==
    /\ stream.state \in {"starting", "open"}
    /\ failures < MaxFailures
    /\ failures' = failures + 1
    /\ IF pipeline = <<>>
       THEN stream' = Closed("error") /\ UNCHANGED <<queue, pipeline>>
       ELSE /\ queue' = Removed(queue, Head(pipeline))
            /\ FillWritePipeline(queue', Tail(pipeline), Closed("initial"))
    /\ UNCHANGED <<nextBatchId, issued, server>>

\* Mutant: nobody starts the stream again.
BreaksQuietly ==
    /\ stream.state \in {"starting", "open"}
    /\ failures < MaxFailures
    /\ failures' = failures + 1
    /\ stream' = Closed("error")
    /\ UNCHANGED <<queue, nextBatchId, pipeline, issued, server>>

\* A connection that breaks, at any time: before the handshake, while writes are under
\* way, between a write and its response.  No write is given up for it.
StreamBreaks ==
    /\ stream.state \in {"starting", "open"}
    /\ failures < MaxFailures
    /\ failures' = failures + 1
    /\ stream' = IF pipeline # <<>> THEN Start(Closed("error")) ELSE Closed("error")
    /\ UNCHANGED <<queue, nextBatchId, pipeline, issued, server>>

\* The server ends the stream because it will never accept a write: the oldest one in
\* the pipeline is taken to be meant and given up, and there is no backoff.
StreamRefuses ==
    /\ CanWrite(stream) /\ stream.responses # <<>>
    /\ Head(stream.responses).type = "refusal"
    /\ queue' = Removed(queue, Head(pipeline))
    /\ FillWritePipeline(queue', Tail(pipeline), Closed("initial"))
    /\ UNCHANGED <<nextBatchId, issued, server, failures>>

\* Sixty seconds without a write: Stop().
IdleTimeout ==
    /\ stream.idle
    /\ stream' = Closed("initial")
    /\ UNCHANGED <<queue, nextBatchId, pipeline, issued, server, failures>>

-----------------------------------------------------------------------------
\* A response to a write is taken to be about the oldest one in the pipeline.
MutationResult ==
    /\ CanWrite(stream) /\ stream.responses # <<>>
    /\ Head(stream.responses).type = "result"
    /\ queue' = Removed(queue, Head(pipeline))
    /\ FillWritePipeline(queue', Tail(pipeline), [stream EXCEPT !.responses = Tail(@)])
    /\ UNCHANGED <<nextBatchId, issued, server, failures>>

\* Mutant: batch ids start over although there are batches on disk.
RestartFromZero ==
    /\ failures < MaxFailures
    /\ failures' = failures + 1
    /\ nextBatchId' = 0
    /\ FillWritePipeline(queue, <<>>, Closed("initial"))
    /\ UNCHANGED <<queue, issued, server>>

\* The process dies; LoadNextBatchIdFromDb and EnableNetwork start over from the disk.
Restart ==
    /\ failures < MaxFailures
    /\ failures' = failures + 1
    /\ nextBatchId' = LastBatchId(queue) + 1
    /\ FillWritePipeline(queue, <<>>, Closed("initial"))
    /\ UNCHANGED <<queue, issued, server>>

-----------------------------------------------------------------------------
(***************************************************************************)
(* The server.                                                             *)
(***************************************************************************)

Refusal == \E i \in DOMAIN stream.responses : stream.responses[i].type = "refusal"

Respond(type) ==
    stream' = [stream EXCEPT
                  !.requests = Tail(@),
                  !.responses = Append(@, [type |-> type,
                                           write |-> Head(stream.requests).write])]

\* It takes the requests of a stream in order and answers each; the first one it
\* refuses ends the stream.
ServerAnswers ==
    /\ stream.requests # <<>> /\ ~Refusal
    /\ LET request == Head(stream.requests) IN
       \/ /\ request = Handshake
          /\ Respond("handshake")
          /\ UNCHANGED <<taken, latest>>
       \/ /\ request # Handshake /\ request.write \notin refused
          /\ Respond("result")
          /\ taken' = taken \cup {request.write}
          /\ latest' = request.write
       \/ /\ request # Handshake /\ request.write \in refused
          /\ Respond("refusal")
          /\ UNCHANGED <<taken, latest>>
    /\ UNCHANGED <<queue, nextBatchId, pipeline, issued, refused, failures>>

-----------------------------------------------------------------------------
Client == StreamOpens \/ HandshakeCompletes \/ BackoffElapses \/ StreamRefuses
          \/ MutationResult

Next == Client \/ WriteMutations \/ StreamBreaks \/ IdleTimeout \/ Restart \/ ServerAnswers

Spec == Init /\ [][Next]_vars

\* The worker queue runs what is due and the server answers; failures are bounded by
\* MaxFailures, so that the connection works in the end.
FairSpec == Spec /\ WF_vars(Client) /\ WF_vars(ServerAnswers)

-----------------------------------------------------------------------------
(***************************************************************************)
(* Properties.                                                             *)
(***************************************************************************)

\* The values every variable takes.
TypeOK ==
    /\ queue \in Seq(Batch) /\ nextBatchId \in Nat
    /\ pipeline \in Seq(Batch) /\ Len(pipeline) <= MaxPendingWrites
    /\ stream \in Stream
    /\ issued \in 0..MaxWrites /\ refused \in SUBSET (1..MaxWrites)
    /\ taken \in SUBSET (1..MaxWrites) /\ latest \in 0..MaxWrites
    /\ failures \in 0..MaxFailures

\* The pipeline is the oldest part of the queue and batch ids grow, also across
\* restarts: RemoteStore removes from the disk what it takes off the pipeline.
PipelineIsOldest ==
    /\ \A i, j \in DOMAIN queue : i < j => queue[i].batchID < queue[j].batchID
    /\ \A i \in DOMAIN queue : queue[i].batchID < nextBatchId
    /\ Len(pipeline) <= Len(queue)
    /\ \A i \in DOMAIN pipeline : pipeline[i] = queue[i]

\* A result or refusal is about the write at the head of the pipeline, though it does not
\* say which: what the server answered and what it has still to answer are the pipeline.
ResponsesMatch ==
    CanWrite(stream) =>
        LET answered == Len(stream.responses) IN
        /\ answered + Len(stream.requests) = Len(pipeline)
        /\ \A i \in 1..answered : /\ stream.responses[i].type # "handshake"
                                  /\ stream.responses[i].write = pipeline[i].write
        /\ \A i \in DOMAIN stream.requests : stream.requests[i] = pipeline[answered + i]

\* Before that an open stream has its handshake under way and nothing else, and there
\* is a write it was opened for, from the start; one that is not open has nothing under
\* way at all.
HandshakeFirst ==
    /\ ~IsOpen(stream) => stream = Closed(stream.state)
    /\ stream.state \in {"starting", "backoff"} => pipeline # <<>>
    /\ IsOpen(stream) /\ ~stream.handshakeComplete =>
          /\ pipeline # <<>> /\ ~stream.idle
          /\ \/ stream.requests = <<Handshake>> /\ stream.responses = <<>>
             \/ /\ stream.requests = <<>>
                /\ stream.responses = <<[type |-> "handshake", write |-> 0]>>

\* Writes leave the queue at its head only; results are about writes the server has,
\* and no older than its document; a refusal is the last thing a stream says.
QueueIsSuffix == \A i \in DOMAIN queue : queue[i].write = issued - Len(queue) + i
ResultsTrue ==
    \A i \in DOMAIN stream.responses :
        LET response == stream.responses[i] IN
        /\ response.type = "result" => response.write \in taken /\ response.write <= latest
        /\ response.type = "refusal" => response.write \in refused
                                       /\ i = Len(stream.responses)

\* The asserts of RemoteStore and FSTLocalStore: a stream is stopped for idleness only
\* when nothing waits for it, no response comes to an empty pipeline, a batch given up
\* or acknowledged is on disk, and there is a stream, or one to come, for every write.
NoAssertFails ==
    /\ stream.idle => IsOpen(stream) /\ pipeline = <<>>
    /\ CanWrite(stream) /\ stream.responses # <<>> => pipeline # <<>>
    /\ pipeline # <<>> =>
          /\ IsStarted(stream)
          /\ \E i \in DOMAIN queue : queue[i].batchID = Head(pipeline).batchID

\* The promises to whoever wrote: a write that is off the queue was taken by the server
\* unless the server refused it, and a refused one was never taken; the server's document
\* is never older than a write off the queue, however often older ones are sent again.
Outstanding == {queue[i].write : i \in DOMAIN queue}
NothingLost ==
    /\ (1..issued) \ (Outstanding \cup refused) \subseteq taken
    /\ taken \cap refused = {}
    /\ \A w \in (1..issued) \ (Outstanding \cup refused) : w <= latest

\* The inductive invariant.
IInv ==
    /\ TypeOK /\ PipelineIsOldest /\ ResponsesMatch /\ HandshakeFirst
    /\ QueueIsSuffix /\ ResultsTrue /\ NoAssertFails /\ NothingLost

\* A write is taken for the first time only after every older one, accepted or refused,
\* has been answered.
InOrder ==
    [][\A w \in taken' \ taken : \A v \in 1..(w - 1) : v \in taken \cup refused]_vars

\* Every write leaves the queue.
EveryWriteSettles == \A w \in 1..MaxWrites : w \in Outstanding ~> w \notin Outstanding

(***************************************************************************)
(* The pipeline implements the abstract queue: the writes the server took  *)
(* and the client has not heard of are those whose results are under way.  *)
(***************************************************************************)
Results == {i \in DOMAIN stream.responses : stream.responses[i].type = "result"}
Queue == INSTANCE WriteQueue WITH
    Writes <- 1..MaxWrites,
    queue <- [i \in DOMAIN queue |-> queue[i].write],
    sent <- Cardinality(Results)
ImplementsQueue == Queue!Spec

=============================================================================
