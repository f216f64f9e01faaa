--------------------------- MODULE SessionPromise ---------------------------
(***************************************************************************)
(* What a connection promises, without tasks or a lock: one frame is       *)
(* written at a time, an answer's frames come in their order, to its last  *)
(* and none after, and the connection is over only when everything asked   *)
(* has been answered, or else because the client went or wrote what is no  *)
(* text.  (`speak` and `frame` in src/src/stdio.rs.)                       *)
(***************************************************************************)
EXTENDS Naturals, Sequences

CONSTANT Lines

VARIABLES
    kind,       \* what each line is
    asked,      \* lines the client has written
    said,       \* halves of frames, as they were written
    writing,    \* lines whose frame is half written
    frames,     \* whole frames of each answer
    over,       \* lines nothing more is said of
    gone,       \* the client has gone
    how         \* serving, returned, or failed

vars == <<kind, asked, said, writing, frames, over, gone, how>>

Init ==
    /\ asked = {} /\ said = <<>> /\ writing = {} /\ over = {}
    /\ frames = [r \in Lines |-> 0]
    /\ gone = FALSE
    /\ how = "serving"

Ask(r) ==
    /\ r \notin asked
    /\ asked' = asked \cup {r}
    /\ UNCHANGED <<kind, said, writing, frames, over, gone, how>>

Go ==
    /\ ~gone /\ gone' = TRUE
    /\ UNCHANGED <<kind, asked, said, writing, frames, over, how>>

Says(r, part) == said' = Append(said, [of |-> r, frame |-> frames[r] + 1, part |-> part])

\* A frame is begun when no other is under way, to a client that is there.
Begin(r) ==
    /\ r \in asked \ over /\ kind[r] # "garbled"
    /\ writing = {} /\ ~gone /\ how # "returned"
    /\ Says(r, "head")
    /\ writing' = {r}
    /\ UNCHANGED <<kind, asked, frames, over, gone, how>>

\* It is finished before another, and only a watch has a frame after it.
Finish(r, final) ==
    /\ writing = {r} /\ ~gone
    /\ final \/ kind[r] = "watch"
    /\ Says(r, "tail")
    /\ frames' = [frames EXCEPT ![r] = @ + 1]
    /\ writing' = {}
    /\ over' = IF final THEN over \cup {r} ELSE over
    /\ UNCHANGED <<kind, asked, gone, how>>

\* An answer is left where it is for no other reason than these.
Abandon(r) ==
    /\ gone \/ how = "failed"
    /\ r \in asked \ over
    /\ over' = over \cup {r}
    /\ writing' = writing \ {r}
    /\ UNCHANGED <<kind, asked, said, frames, gone, how>>

Return ==
    /\ how = "serving" /\ how' = "returned"
    /\ gone \/ asked \subseteq over
    /\ UNCHANGED <<kind, asked, said, writing, frames, over, gone>>

Fail ==
    /\ how = "serving" /\ how' = "failed"
    /\ gone \/ \E r \in asked : kind[r] = "garbled"
    /\ UNCHANGED <<kind, asked, said, writing, frames, over, gone>>

Next ==
    \/ \E r \in Lines :
          \/ Ask(r) \/ Begin(r) \/ Abandon(r)
          \/ \E final \in BOOLEAN : Finish(r, final)
    \/ Go \/ Return \/ Fail

Spec == Init /\ [][Next]_vars

=============================================================================
