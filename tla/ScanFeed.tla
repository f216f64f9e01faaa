------------------------------ MODULE ScanFeed ------------------------------
(***************************************************************************)
(* What a scan promises its clients, without saying how: a feed of         *)
(* numbered events that only grows until it is over, and for each client a *)
(* place in it that never moves back and a view that is never behind it.   *)
(* (The introduction of src/src/scans.rs and the watch of src/README.md.)  *)
(***************************************************************************)
EXTENDS Integers, Sequences

CONSTANTS Hosts, Clients

VARIABLES
    feed,   \* every event said so far
    over,   \* whether the scan is over
    place,  \* the number up to which each client has missed nothing
    view    \* what each client holds of each host

vars == <<feed, over, place, view>>

\* `held` is no older, of every host, than the first n events say.
Covers(held, events, n) ==
    \A i \in 1..n : events[i].kind = "host" => held[events[i].host] >= events[i].doc

Init ==
    /\ feed = <<>>
    /\ over = FALSE
    /\ place = [c \in Clients |-> 0]
    /\ view = [c \in Clients |-> [h \in Hosts |-> 0]]

\* The last event said is the one that says how the scan ended.
Ended == feed # <<>> /\ feed[Len(feed)].kind = "finished"

Say ==
    /\ ~over /\ ~Ended
    /\ Len(feed') = Len(feed) + 1
    /\ \A i \in 1..Len(feed) : feed'[i] = feed[i]
    /\ UNCHANGED <<over, place, view>>

Finish ==
    /\ ~over /\ Ended
    /\ over' = TRUE
    /\ UNCHANGED <<feed, place, view>>

\* A client hears more: its place may move on, and whatever it is told, its
\* view still covers its place.
Hear(c) ==
    /\ \A d \in Clients \ {c} : place'[d] = place[d] /\ view'[d] = view[d]
    /\ place'[c] >= place[c] /\ place'[c] <= Len(feed)
    /\ Covers(view'[c], feed, place'[c])
    /\ UNCHANGED <<feed, over>>

Next == Say \/ Finish \/ \E c \in Clients : Hear(c)

Spec == Init /\ [][Next]_vars
=============================================================================
