---------------------------- MODULE GetDocuments ----------------------------
(***************************************************************************)
(* How Firestore answers getDocuments() on the "feeds" collection: a       *)
(* listener that is removed when its first snapshot reaches the main queue. *)
(*                                                                         *)
(* All calls of the app are for one query, so they share one watch target, *)
(* one view and one vector of listeners.  A listener waits until the view  *)
(* is in sync with the server or the client counts as offline, which a     *)
(* failed connection or a ten-second timer decides.  Three parties         *)
(* interleave: the main queue (calls, completions), the worker queue (the  *)
(* rest of the client) and the network.                                    *)
(*                                                                         *)
(* The server sends a snapshot of a target only when all of it is known    *)
(* (CURRENT and the global snapshot are one message here), and answers     *)
(* every request to watch or unwatch.  Documents in limbo are left out.    *)
(***************************************************************************)
EXTENDS Integers, Sequences, FiniteSets, SequencesExt

CONSTANTS
    MaxCalls,    \* bound on the calls of a run
    MaxWrites,   \* bound on this phone's writes
    MaxChanges,  \* bound on the news of a watched target
    MaxFaults    \* bound on refusals, and on breaks of a connection that has spoken

ASSUME BoundsAssumption ==
    MaxCalls \in Nat /\ MaxWrites \in Nat /\ MaxChanges \in Nat /\ MaxFaults \in Nat

VARIABLES
    known,      \* per call made: how many writes of this phone came before it
    written,    \* how many writes this phone has made
    stored,     \* how many of them the local store has
    tasks,      \* the worker queue: what the main queue asked of it, in order
    manager,    \* FSTEventManager, the view, and the main queue it posts to
    tracker,    \* OnlineStateTracker
    watch,      \* the watch stream, with the server at its other end
    muted,      \* calls whose listener is muted
    completed,  \* history: the calls whose completion has run, in order
    changes,    \* news of the target so far
    faults,     \* refusals and breaks so far
    refused,    \* history: the server has refused the query on this stream
    orphan      \* history: the connection attempt is that of calls answered offline

app == <<known, written, muted, completed>>
bounds == <<changes, faults>>
vars == <<app, stored, tasks, manager, tracker, watch, bounds, refused, orphan>>

Calls == 1..MaxCalls
calls == Len(known)
Task == [op : {"listen", "remove", "write"}, number : Nat]   \* of the call, or the write
ListenTask(c) == [op |-> "listen", number |-> c]
RemoveTask(c) == [op |-> "remove", number |-> c]
WriteTask(n) == [op |-> "write", number |-> n]
Event == [call : Calls, type : {"snapshot", "error"}, shows : Nat]
Manager == [listeners : Seq(Calls),   \* QueryListenersInfo::listeners
            raised : SUBSET Calls,    \* those with raised_initial_event_
            synced : BOOLEAN,         \* FSTView.current: the snapshot is not from_cache
            online : {"Unknown", "Online", "Offline"},
            events : Seq(Event)]      \* posted to the main queue, not yet run
Tracker == [failed : BOOLEAN,         \* watch_stream_failures_ # 0
            timer : BOOLEAN]          \* online_state_timer_
Watch == [state : {"stopped", "starting", "open"},   \* starting: connecting or backing off
          idle : BOOLEAN,                            \* idleness_timer_
          asked : Seq({"watch", "unwatch"}),         \* requests the server has not read
          replies : Seq({"added", "removed", "refused", "snapshot"}),
          outstanding : Int,                         \* outstanding_responses_
          server : {"none", "watching", "told"}]     \* what it does for this target

Stream(state) == [state |-> state, idle |-> FALSE, asked |-> <<>>, replies |-> <<>>,
                  outstanding |-> 0, server |-> "none"]

Init ==
    /\ known = <<>> /\ written = 0 /\ stored = 0 /\ tasks = <<>>
    /\ manager = [listeners |-> <<>>, raised |-> {}, synced |-> FALSE,
                  online |-> "Unknown", events |-> <<>>]
    /\ tracker = [failed |-> FALSE, timer |-> FALSE]
    /\ watch = Stream("stopped")
    /\ muted = {} /\ completed = <<>>
    /\ changes = 0 /\ faults = 0 /\ refused = FALSE /\ orphan = FALSE

-----------------------------------------------------------------------------
(***************************************************************************)
(* Listeners.  m is the manager, n what the local store has.               *)
(***************************************************************************)

\* The members of q that are in S, in order.
Among(q, S) ==
    LET among[n \in 0..Len(q)] ==
            IF n = 0 THEN <<>>
            ELSE IF q[n] \in S THEN Append(among[n - 1], q[n]) ELSE among[n - 1]
    IN among[Len(q)]

\* OnEvent of the listeners cs: the main queue will hear.
Post(m, cs, type, n) ==
    [m EXCEPT !.raised = @ \cup Range(cs),
              !.events = @ \o [i \in DOMAIN cs |->
                                 [call |-> cs[i], type |-> type, shows |-> n]]]

\* Mutant: a call made offline waits as well.
ReadyInSync(m) == m.synced

\* ShouldRaiseInitialEvent: the view is in sync, or there is no hope of that.
Ready(m) == m.synced \/ m.online = "Offline"

\* handleViewSnapshots: a listener with its first event behind it hears everything.
Deliver(m, n) ==
    Post(m, Among(m.listeners, IF Ready(m) THEN Range(m.listeners) ELSE m.raised),
         "snapshot", n)

\* applyChangedOnlineState: a view in sync is not when offline; then those who have
\* waited get what there is.
Broadcast(m, state, n) ==
    LET lost == state = "Offline" /\ m.synced
        told == IF lost THEN Deliver([m EXCEPT !.synced = FALSE], n) ELSE m
        now == [told EXCEPT !.online = state]
        waiting == Among(m.listeners, Range(m.listeners) \ told.raised)
    IN IF state = m.online THEN m
       ELSE IF state = "Offline" THEN Post(now, waiting, "snapshot", n) ELSE now

\* HandleWatchStreamStart: ten seconds to find out, unless the last attempt failed.
Started(t) == [t EXCEPT !.timer = @ \/ ~t.failed]
Settled == [failed |-> FALSE, timer |-> FALSE]

\* Mutant: the timer of the first attempt runs on.
FailedKeepingTimer(t) == [t EXCEPT !.failed = TRUE]

\* HandleWatchStreamFailure when not online: one failure is enough.
Failed(t) == [failed |-> TRUE, timer |-> FALSE]

Send(s, request) ==
    [s EXCEPT !.asked = Append(@, request), !.outstanding = @ + 1, !.idle = FALSE]

-----------------------------------------------------------------------------
(***************************************************************************)
(* The main queue.                                                         *)
(***************************************************************************)

\* getDocuments(): a listener is on its way to the worker queue.
GetDocuments ==
    /\ calls < MaxCalls
    /\ known' = Append(known, written)
    /\ tasks' = Append(tasks, ListenTask(calls + 1))
    /\ UNCHANGED <<written, muted, completed, stored, manager, tracker, watch, bounds,
                   refused, orphan>>

\* setData() or delete().
WriteFeed ==
    /\ written < MaxWrites
    /\ written' = written + 1
    /\ tasks' = Append(tasks, WriteTask(written + 1))
    /\ UNCHANGED <<known, muted, completed, stored, manager, tracker, watch, bounds,
                   refused, orphan>>

\* Mutant: the listener hears on until it is removed.
ListenerRunsUnmuted ==
    LET event == Head(manager.events) IN
    /\ manager.events # <<>>
    /\ manager' = [manager EXCEPT !.events = Tail(@)]
    /\ completed' = Append(completed, event.call)
    /\ tasks' = Append(tasks, RemoveTask(event.call))
    /\ UNCHANGED <<known, written, stored, tracker, watch, muted, bounds, refused, orphan>>

\* The listener's block: mute it, ask the worker queue to remove it, complete the call.
\* An error has removed it already.
ListenerRuns ==
    LET event == Head(manager.events) IN
    /\ manager.events # <<>>
    /\ manager' = [manager EXCEPT !.events = Tail(@)]
    /\ \/ event.call \in muted /\ UNCHANGED <<tasks, muted, completed>>
       \/ /\ event.call \notin muted
          /\ completed' = Append(completed, event.call)
          /\ \/ /\ event.type = "snapshot"
                /\ muted' = muted \cup {event.call}
                /\ tasks' = Append(tasks, RemoveTask(event.call))
             \/ event.type = "error" /\ UNCHANGED <<tasks, muted>>
    /\ UNCHANGED <<known, written, stored, tracker, watch, bounds, refused, orphan>>

-----------------------------------------------------------------------------
(***************************************************************************)
(* The worker queue.                                                       *)
(***************************************************************************)

\* addListener: the first one makes the view from the local store and watches the
\* target; a later one gets the snapshot there is.
AddListener(c) ==
    LET first == manager.listeners = <<>>
        joined == [manager EXCEPT !.listeners = Append(@, c)] IN
    /\ manager' = IF Ready(joined) THEN Post(joined, <<c>>, "snapshot", stored) ELSE joined
    /\ \/ first /\ watch.state = "stopped"
          /\ watch' = Stream("starting") /\ tracker' = Started(tracker)
       \/ first /\ watch.state = "open"
          /\ watch' = Send(watch, "watch") /\ UNCHANGED tracker
       \/ (~first \/ watch.state = "starting") /\ UNCHANGED <<watch, tracker>>
    /\ UNCHANGED <<stored, orphan>>

\* removeListener: the last one takes the view and the target with it; without an open
\* stream nothing is known of the server any more.
RemoveListener(c) ==
    LET left == Among(manager.listeners, Range(manager.listeners) \ {c})
        last == manager.listeners # <<>> /\ left = <<>>
        without == [manager EXCEPT !.listeners = left, !.raised = @ \ {c},
                                   !.synced = @ /\ ~last] IN
    /\ \/ ~last
          /\ manager' = without /\ UNCHANGED <<watch, tracker, orphan>>
       \/ last /\ watch.state = "open"
          /\ manager' = without
          /\ watch' = [Send(watch, "unwatch") EXCEPT !.idle = TRUE]
          /\ UNCHANGED <<tracker, orphan>>
       \/ last /\ watch.state # "open"
          /\ manager' = Broadcast(without, "Unknown", stored)
          /\ tracker' = Settled /\ orphan' = TRUE
          /\ UNCHANGED watch
    /\ UNCHANGED stored

\* writeMutations: the view shows the write at once.
ApplyWrite ==
    /\ stored' = stored + 1
    /\ manager' = Deliver(manager, stored')
    /\ UNCHANGED <<watch, tracker, orphan>>

Work ==
    /\ tasks # <<>>
    /\ tasks' = Tail(tasks)
    /\ \/ Head(tasks).op = "listen" /\ AddListener(Head(tasks).number)
       \/ Head(tasks).op = "remove" /\ RemoveListener(Head(tasks).number)
       \/ Head(tasks).op = "write" /\ ApplyWrite
    /\ UNCHANGED <<app, bounds, refused>>

\* The ten seconds are over.
TimerFires ==
    /\ tracker.timer
    /\ tracker' = [tracker EXCEPT !.timer = FALSE]
    /\ manager' = Broadcast(manager, "Offline", stored)
    /\ UNCHANGED <<app, stored, tasks, watch, bounds, refused, orphan>>

-----------------------------------------------------------------------------
(***************************************************************************)
(* The watch stream.                                                       *)
(***************************************************************************)

\* OnWatchStreamOpen.
StreamOpens ==
    /\ watch.state = "starting"
    /\ watch' = IF manager.listeners = <<>> THEN Stream("open")
                ELSE Send(Stream("open"), "watch")
    /\ UNCHANGED <<app, stored, tasks, manager, tracker, bounds, refused, orphan>>

\* OnWatchStreamClose with an error: with somebody listening, one failed attempt means
\* offline and the next begins; else nothing is known.
StreamFails ==
    /\ watch.state # "stopped"
    /\ \/ manager.online = "Online" /\ faults < MaxFaults /\ faults' = faults + 1
       \/ manager.online # "Online" /\ UNCHANGED faults
    /\ \/ /\ manager.listeners # <<>> /\ manager.online = "Online"
          /\ manager' = Broadcast(manager, "Unknown", stored)
          /\ tracker' = Started(tracker)
          /\ watch' = Stream("starting")
       \/ /\ manager.listeners # <<>> /\ manager.online # "Online"
          /\ manager' = Broadcast(manager, "Offline", stored)
          /\ tracker' = Failed(tracker)
          /\ watch' = Stream("starting")
       \/ /\ manager.listeners = <<>>
          /\ manager' = Broadcast(manager, "Unknown", stored)
          /\ tracker' = Settled
          /\ watch' = Stream("stopped")
    /\ orphan' = FALSE /\ refused' = FALSE
    /\ UNCHANGED <<app, stored, tasks, changes>>

\* A minute without a target: the client closes the stream.
IdleCloses ==
    /\ watch.idle
    /\ manager' = Broadcast(manager, "Unknown", stored)
    /\ tracker' = Settled
    /\ watch' = Stream("stopped")
    /\ orphan' = FALSE /\ refused' = FALSE
    /\ UNCHANGED <<app, stored, tasks, bounds>>

\* The server reads a request; it may refuse to show the collection.
ServerTakes ==
    LET reply(r, s) == watch' = [watch EXCEPT !.asked = Tail(@), !.server = s,
                                              !.replies = Append(@, r)] IN
    /\ watch.asked # <<>>
    /\ \/ Head(watch.asked) = "watch" /\ reply("added", "watching")
          /\ UNCHANGED <<faults, refused>>
       \/ Head(watch.asked) = "watch" /\ reply("refused", "none")
          /\ faults < MaxFaults /\ faults' = faults + 1 /\ refused' = TRUE
       \/ Head(watch.asked) = "unwatch" /\ reply("removed", "none")
          /\ UNCHANGED <<faults, refused>>
    /\ UNCHANGED <<app, stored, tasks, manager, tracker, changes, orphan>>

\* It has sent all of the collection, or news of it.
ServerSnapshot ==
    /\ \/ watch.server = "watching" /\ UNCHANGED changes
       \/ watch.server = "told" /\ changes < MaxChanges /\ changes' = changes + 1
    /\ watch' = [watch EXCEPT !.server = "told", !.replies = Append(@, "snapshot")]
    /\ UNCHANGED <<app, stored, tasks, manager, tracker, faults, refused, orphan>>

\* OnWatchStreamChange: the client is online, whatever the message says; a snapshot is
\* for the listeners of now only if every request has been answered.
Receive ==
    LET reply == Head(watch.replies)
        online == Broadcast(manager, "Online", stored)
        read == [watch EXCEPT !.replies = Tail(@)]
        current == reply = "snapshot" /\ watch.outstanding = 0 /\ manager.listeners # <<>>
        rejected == reply = "refused" /\ manager.listeners # <<>> IN
    /\ watch.replies # <<>>
    /\ tracker' = Settled
    /\ \/ /\ reply \in {"added", "removed"}
          /\ watch' = [read EXCEPT !.outstanding = @ - 1]
          /\ manager' = online
       \/ /\ current
          /\ watch' = read
          /\ manager' = Deliver([online EXCEPT !.synced = TRUE], stored)
       \/ /\ rejected
          /\ watch' = [read EXCEPT !.outstanding = 0]
          /\ manager' = [Post(online, online.listeners, "error", stored)
                           EXCEPT !.listeners = <<>>, !.raised = {}, !.synced = FALSE]
       \/ /\ reply \in {"snapshot", "refused"} /\ ~current /\ ~rejected
          /\ watch' = read
          /\ manager' = online
    /\ orphan' = FALSE
    /\ UNCHANGED <<app, stored, tasks, bounds, refused>>

-----------------------------------------------------------------------------
Connect == StreamOpens \/ (watch.state = "starting" /\ StreamFails)
Serve == ServerTakes \/ ServerSnapshot \/ Receive \/ (watch.asked # <<>> /\ StreamFails)

Next ==
    \/ GetDocuments \/ WriteFeed \/ ListenerRuns \/ Work \/ TimerFires
    \/ StreamOpens \/ StreamFails \/ IdleCloses \/ ServerTakes \/ ServerSnapshot \/ Receive

Spec == Init /\ [][Next]_vars

\* The queues and the timer run; a connection attempt succeeds or fails; an open stream
\* is served or breaks while the server owes it something.
FairSpec ==
    Spec /\ WF_vars(ListenerRuns) /\ WF_vars(Work) /\ WF_vars(TimerFires)
         /\ WF_vars(Connect) /\ WF_vars(Serve)

-----------------------------------------------------------------------------
(***************************************************************************)
(* Properties.                                                             *)
(***************************************************************************)

\* The values every variable takes.
TypeOK ==
    /\ known \in Seq(0..MaxWrites) /\ calls <= MaxCalls
    /\ written \in 0..MaxWrites /\ stored \in 0..MaxWrites
    /\ tasks \in Seq(Task) /\ manager \in Manager /\ tracker \in Tracker /\ watch \in Watch
    /\ muted \in SUBSET Calls /\ completed \in Seq(Calls)
    /\ changes \in Nat /\ faults \in Nat /\ refused \in BOOLEAN /\ orphan \in BOOLEAN

Listening == Range(manager.listeners)
Waiting == Listening \ manager.raised

\* The assertions of OnlineStateTracker and RemoteStore: no timer runs when one is
\* started, or when the state is no longer unknown; the stream is not stopped as idle
\* while a target needs it.
NoAssertFails ==
    /\ tracker.timer => manager.online = "Unknown" /\ ~tracker.failed
    /\ manager.online = "Online" => ~tracker.failed
    /\ watch.state = "stopped" => ~tracker.timer /\ manager.listeners = <<>>
    /\ watch.idle => watch.state = "open" /\ manager.listeners = <<>>

\* Nobody waits for a server that has answered or cannot be reached, and to wait for an
\* unknown one means to have the ten seconds running - or to have joined an attempt
\* whose timer was cancelled with the calls it was made for.
WaitsForGoodReason ==
    Waiting # {} =>
        /\ ~manager.synced /\ manager.online # "Offline" /\ watch.state # "stopped"
        /\ manager.online = "Unknown" => tracker.timer \/ orphan

\* The replies that OnWatchStreamChange counts.
Counted(replies) == {i \in DOMAIN replies : replies[i] \in {"added", "removed"}}

\* Replies to requests of calls long gone are told from those to today's - until the
\* server refuses: that reply is not counted when nobody listens any more.
RequestsMatch ==
    ~refused => watch.outstanding =
        Len(watch.asked) + Cardinality(Counted(watch.replies))

(***************************************************************************)
(* Why: a stream that is not open has nothing of the server, and while the *)
(* client does not know whether there is one, somebody will tell.          *)
(***************************************************************************)
StreamKnown ==
    /\ watch.state # "open" => watch = Stream(watch.state)
    /\ watch.state = "stopped" => manager.online = "Unknown" /\ tracker = Settled
    /\ watch.state # "stopped" /\ manager.online = "Unknown" => tracker.timer \/ orphan
    /\ "refused" \in Range(watch.replies) => refused

(***************************************************************************)
(* Where a call is: on its way to the worker queue, waiting, in an event,  *)
(* or completed; and that calls pass there in order.                       *)
(***************************************************************************)
Joined == {c \in 1..calls : ListenTask(c) \notin Range(tasks)}
Open == (Len(completed) + 1)..calls
Answered == {manager.events[i].call : i \in DOMAIN manager.events}

\* The worker queue: writes and calls in the order in which they were made.
Queued(task, i) == \E j \in DOMAIN tasks : j < i /\ tasks[j] = task
TasksInOrder ==
    /\ \A i, j \in DOMAIN tasks : tasks[i] = tasks[j] => i = j
    /\ \A i \in DOMAIN tasks :
          LET task == tasks[i] IN
          /\ task.op = "remove" => task.number \in muted
          /\ task.op = "write" =>
                /\ task.number \in (stored + 1)..written
                /\ \A n \in (stored + 1)..(task.number - 1) : Queued(WriteTask(n), i)
          /\ task.op = "listen" =>
                /\ task.number \in Open
                /\ \A n \in (stored + 1)..known[task.number] : Queued(WriteTask(n), i)
                /\ \A c \in Open \ Joined : c < task.number => Queued(ListenTask(c), i)
                /\ \A c \in Joined : c < task.number
    /\ stored <= written
    /\ \A n \in (stored + 1)..written : WriteTask(n) \in Range(tasks)
    /\ \A c \in Joined : known[c] <= stored

ListenersInOrder ==
    /\ \A i, j \in DOMAIN manager.listeners : i < j => manager.listeners[i] < manager.listeners[j]
    /\ manager.raised \subseteq Listening /\ Listening \subseteq Joined
    /\ Waiting \subseteq Open \ Answered
    /\ Open \cap Joined \subseteq Waiting \cup Answered

\* The main queue: the first events of the open calls come in the order of the calls,
\* and an error is the last a call hears.
EventsInOrder ==
    LET events == manager.events IN
    /\ Answered \subseteq Joined
    /\ \A j \in DOMAIN events : \A c \in Open :
          c < events[j].call => \E i \in DOMAIN events : i < j /\ events[i].call = c
    /\ \A i \in DOMAIN events :
          events[i].type = "error" =>
              /\ events[i].call \notin Listening
              /\ \A j \in DOMAIN events : events[j].call = events[i].call => j <= i
    /\ \A j \in DOMAIN events : events[j].shows <= stored

CompletedInOrder ==
    /\ Len(completed) <= calls /\ 1..Len(completed) \subseteq Joined
    /\ \A i \in DOMAIN completed : completed[i] = i
    /\ muted \subseteq 1..Len(completed)
    /\ \A c \in (1..Len(completed)) \ muted : c \notin Answered \cup Listening

CallsInOrder == TasksInOrder /\ ListenersInOrder /\ EventsInOrder /\ CompletedInOrder

\* The inductive invariant.
IInv ==
    /\ TypeOK /\ NoAssertFails /\ WaitsForGoodReason /\ RequestsMatch
    /\ StreamKnown /\ CallsInOrder

\* The events of call c that will not be dropped.
Heard(c) == {i \in DOMAIN manager.events : manager.events[i].call = c /\ c \notin muted}

\* The calls not yet completed, oldest first: with their first event, if there is one.
OpenReads ==
    [i \in 1..(calls - Len(completed)) |->
        LET c == Len(completed) + i IN
        IF Heard(c) = {} THEN [status |-> "asked", before |-> known[c], shows |-> 0]
        ELSE LET e == manager.events[CHOOSE j \in Heard(c) : \A k \in Heard(c) : j <= k] IN
             [status |-> IF e.type = "error" THEN "failed" ELSE "answered",
              before |-> known[c], shows |-> e.shows]]

\* Calls are answered in order, once, with this phone's own writes: what MainFeed's
\* queue of requests assumes.
Queue == INSTANCE Reads WITH reads <- OpenReads
ImplementsReads == Queue!Spec

\* Every call is completed, server or no server, unless an earlier one was refused: the
\* miscounted reply then hides every snapshot for as long as the stream stays open.
EveryCallAnswered == \A c \in Calls : (c <= calls) ~> (c \in Range(completed) \/ refused)

=============================================================================
