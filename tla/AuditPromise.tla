----------------------------- MODULE AuditPromise -----------------------------
(***************************************************************************)
(* What an audit promises its callers of each entry by itself: all of it   *)
(* is there or it does not count, it is never taken out again, and it is   *)
(* there by the time its caller is told so (src/src/audit.rs, and the      *)
(* fifth step of src/src/policy.rs, which lets a scan start on that word). *)
(* What else is on its line is not said here.                              *)
(***************************************************************************)
CONSTANT Calls      \* calls of Audit::write, each of one entry

VARIABLES
    entries,        \* the entries that are there to be read
    told            \* what each caller was told: nothing yet, Ok or Err

vars == <<entries, told>>

Init ==
    /\ entries = {}
    /\ told = [c \in Calls |-> "nothing"]

Enter(c) ==
    /\ c \notin entries
    /\ told[c] = "nothing"
    /\ entries' = entries \cup {c}
    /\ UNCHANGED told

TellOk(c) ==
    /\ c \in entries
    /\ told[c] = "nothing"
    /\ told' = [told EXCEPT ![c] = "ok"]
    /\ UNCHANGED entries

TellErr(c) ==
    /\ c \notin entries
    /\ told[c] = "nothing"
    /\ told' = [told EXCEPT ![c] = "err"]
    /\ UNCHANGED entries

Next == \E c \in Calls : Enter(c) \/ TellOk(c) \/ TellErr(c)

Spec == Init /\ [][Next]_vars

=============================================================================
