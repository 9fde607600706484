-------------------------------- MODULE Reads --------------------------------
(***************************************************************************)
(* What the home screen relies on when it calls getDocuments(): every call *)
(* is answered once, calls are answered and completed in the order they    *)
(* were made, and an answer shows at least the writes this phone had made  *)
(* before the call.                                                        *)
(***************************************************************************)
EXTENDS Naturals, Sequences

VARIABLES
    written,   \* how many writes this phone has made
    reads      \* the calls not yet completed, oldest first

vars == <<written, reads>>

Asked(n) == [status |-> "asked", before |-> n, shows |-> 0]

Init == written = 0 /\ reads = <<>>

Write == written' = written + 1 /\ UNCHANGED reads

Ask == reads' = Append(reads, Asked(written)) /\ UNCHANGED written

\* Firestore answers the oldest calls that wait, all of them with the same documents,
\* or fails them.
Answer ==
    \E first, last \in DOMAIN reads, status \in {"answered", "failed"}, shows \in 0..written :
        /\ \A i \in DOMAIN reads : i < first => reads[i].status # "asked"
        /\ \A i \in first..last : reads[i].status = "asked"
        /\ status = "answered" => \A i \in first..last : reads[i].before <= shows
        /\ reads' = [i \in DOMAIN reads |->
                        IF i \in first..last
                        THEN [reads[i] EXCEPT !.status = status, !.shows = shows] ELSE reads[i]]
        /\ UNCHANGED written

\* The completion handler of the oldest call runs.
Complete ==
    /\ reads # <<>> /\ Head(reads).status # "asked"
    /\ reads' = Tail(reads)
    /\ UNCHANGED written

Next == Write \/ Ask \/ Answer \/ Complete

Spec == Init /\ [][Next]_vars

=============================================================================
