--------------------------- MODULE RegistryPromise ---------------------------
(***************************************************************************)
(* What a name promises, without saying how: one run is at it at a time,   *)
(* its record is written by that run and thrown away under none, the scan  *)
(* a name finds is not taken away while the process lives, and a client is *)
(* told that a run is over once it is and its report is there.             *)
(* (Recorded and Scans in src/src/scans.rs.)                               *)
(***************************************************************************)
EXTENDS Naturals

CONSTANTS Names, Sittings, Hosts, Nothing, QuickEnds

VARIABLES
    phase,      \* what has become of each sitting
    at,         \* the name it is a run of
    under,      \* the sitting a name finds
    record,     \* what the record of a name holds
    told        \* sittings a client was told are over

vars == <<phase, at, under, record, told>>

Init ==
    /\ phase = [s \in Sittings |-> "idle"]
    /\ at = [s \in Sittings |-> Nothing]
    /\ under = [n \in Names |-> Nothing]
    /\ record = [n \in Names |-> {}]
    /\ told = {}

\* Nobody is at the name.
Free(n) == \A s \in Sittings : phase[s] = "going" => at[s] # n

Becomes(s, from, to) ==
    /\ phase[s] \in from
    /\ phase' = [phase EXCEPT ![s] = to]

\* A name has one run at a time.
Start(s, n) ==
    /\ Free(n)
    /\ Becomes(s, {"idle"}, "going")
    /\ at' = [at EXCEPT ![s] = n]
    /\ UNCHANGED <<under, record, told>>

\* A name finds its scan, from the time that is filed.
Show(s) ==
    /\ phase[s] \in {"going"} \cup IF QuickEnds THEN {"done", "broken"} ELSE {}
    /\ under' = [under EXCEPT ![at[s]] = s]
    /\ UNCHANGED <<phase, at, record, told>>

\* Only a run that is going adds to the record of its name.
Note(s, h) ==
    /\ phase[s] = "going"
    /\ record' = [record EXCEPT ![at[s]] = @ \cup {h}]
    /\ UNCHANGED <<phase, at, under, told>>

\* It ends once, with a report to keep or with none.
End(s) ==
    /\ Becomes(s, {"going"}, "done") \/ Becomes(s, {"going"}, "broken")
    /\ UNCHANGED <<at, under, record, told>>

Keep(s) ==
    /\ Becomes(s, {"done"}, "kept")
    /\ UNCHANGED <<at, under, record, told>>

\* Whoever is told of the end of a scan that a name finds may have its report.
TellOver(n) ==
    /\ under[n] \in Sittings /\ phase[under[n]] \in {"kept", "broken"}
    /\ told' = told \cup {under[n]}
    /\ UNCHANGED <<phase, at, under, record>>

\* No record is thrown away under a run.
Prune(n) ==
    /\ Free(n)
    /\ record' = [record EXCEPT ![n] = {}]
    /\ UNCHANGED <<phase, at, under, told>>

\* What is on disk, and what clients know, outlives the process.
Die ==
    /\ phase' = [s \in Sittings |-> IF phase[s] = "idle" THEN "idle" ELSE "lost"]
    /\ under' = [n \in Names |-> Nothing]
    /\ UNCHANGED <<at, record, told>>

Next ==
    \/ \E s \in Sittings :
          \/ \E n \in Names : Start(s, n)
          \/ \E h \in Hosts : Note(s, h)
          \/ Show(s) \/ End(s) \/ Keep(s)
    \/ \E n \in Names : TellOver(n) \/ Prune(n)
    \/ Die

Spec == Init /\ [][Next]_vars

=============================================================================
