----------------------------- MODULE WriteQueue -----------------------------
(***************************************************************************)
(* What a Firestore client promises about the writes of one phone: they    *)
(* reach the server in the order they were made, each at least once, and a *)
(* write leaves the queue only when the server has taken or refused it.    *)
(* A connection that breaks makes the server see the oldest ones again.    *)
(***************************************************************************)
EXTENDS Naturals, Sequences

CONSTANT Writes    \* everything a phone may write

VARIABLES
    queue,         \* writes not yet acknowledged, oldest first
    sent           \* how many of them the server took since the last connection began

vars == <<queue, sent>>

TypeOK == queue \in Seq(Writes) /\ sent \in 0..Len(queue)

Init == queue = <<>> /\ sent = 0

Enqueue == \E w \in Writes : queue' = Append(queue, w) /\ UNCHANGED sent

\* The server takes the next write: queue[sent + 1].
Take == sent < Len(queue) /\ sent' = sent + 1 /\ UNCHANGED queue

\* The client hears of the oldest one.
Acknowledge == sent > 0 /\ queue' = Tail(queue) /\ sent' = sent - 1

\* The server refuses a write for good; everything before it was acknowledged.
Refuse == sent = 0 /\ queue # <<>> /\ queue' = Tail(queue) /\ UNCHANGED sent

\* A broken connection or a new process: the next write to be taken is the oldest.
BeginAgain == sent' = 0 /\ UNCHANGED queue

Next == Enqueue \/ Take \/ Acknowledge \/ Refuse \/ BeginAgain

Spec == Init /\ [][Next]_vars

=============================================================================
