---------------------------- MODULE FeedCatalogue ----------------------------
(***************************************************************************)
(* What the app promises its users about the shared list of feeds, however *)
(* many phones save and delete: a feed is posted once and, once removed,   *)
(* stays removed.  A save whose phone has not heard of its success may be  *)
(* posted again.  The promise ends for an id two phones took because they  *)
(* saved in the same second.                                               *)
(***************************************************************************)
CONSTANT Ids   \* the feeds that may ever be saved

VARIABLES
    status,       \* per feed, what the shared list says of it
    unconfirmed   \* feeds whose saver is still waiting to hear of it

vars == <<status, unconfirmed>>

Init == status = [id \in Ids |-> "absent"] /\ unconfirmed = {}

\* A phone begins to post a feed, once.
Announce(id) ==
    /\ status[id] = "absent" /\ id \notin unconfirmed
    /\ unconfirmed' = unconfirmed \cup {id}
    /\ UNCHANGED status

\* The feed appears, or comes back because its saver tried once more.
Post(id) ==
    /\ id \in unconfirmed /\ status[id] \in {"absent", "removed"}
    /\ status' = [status EXCEPT ![id] = "posted"]
    /\ UNCHANGED unconfirmed

Confirm(id) ==
    /\ id \in unconfirmed /\ status[id] # "absent"
    /\ unconfirmed' = unconfirmed \ {id}
    /\ UNCHANGED status

Remove(id) ==
    /\ status[id] = "posted"
    /\ status' = [status EXCEPT ![id] = "removed"]
    /\ UNCHANGED unconfirmed

\* A second phone takes the id: nothing is promised of it any more.
Share(id) ==
    /\ status' = [status EXCEPT ![id] = "shared"]
    /\ unconfirmed' = unconfirmed \ {id}

Next == \E id \in Ids : Announce(id) \/ Post(id) \/ Confirm(id) \/ Remove(id) \/ Share(id)

Spec == Init /\ [][Next]_vars

=============================================================================
