----------------------------- MODULE GatePromise -----------------------------
(***************************************************************************)
(* What the gate promises, without saying how: a scan has a slot and a     *)
(* line in the audit before it is on the wire, whoever is turned away for  *)
(* room arrived at a moment with none, and whoever is turned away is       *)
(* written down and told.  (The order set out at the head of               *)
(* src/src/policy.rs, and Scans::reserve in src/src/scans.rs.)             *)
(***************************************************************************)
EXTENDS Integers, FiniteSets

CONSTANTS Requests, Ceiling

VARIABLES
    turn,       \* how far the gate has let each request
    written,    \* the lines of the audit
    told        \* what each client was told

vars == <<turn, written, told>>

\* The requests that have a slot.
Inside == {r \in Requests : turn[r] \in {"inside", "running"}}

Init ==
    /\ turn = [r \in Requests |-> "asking"]
    /\ written = {}
    /\ told = [r \in Requests |-> "none"]

Moves(r, from, to) ==
    /\ turn[r] = from
    /\ turn' = [turn EXCEPT ![r] = to]

\* Room is looked at and taken in one step.
Admit(r) ==
    /\ Cardinality(Inside) < Ceiling
    /\ Moves(r, "asking", "inside")
    /\ UNCHANGED <<written, told>>

TurnAway(r) ==
    /\ Cardinality(Inside) >= Ceiling
    /\ Moves(r, "asking", "outside")
    /\ UNCHANGED <<written, told>>

\* A client is told once, and of no room only if there was none.
Tell(r, why) ==
    /\ turn[r] \in {"inside", "outside"} /\ told[r] = "none"
    /\ why = "capacity" => turn[r] = "outside"
    /\ why = "scope" => turn[r] = "inside"
    /\ told' = [told EXCEPT ![r] = why]
    /\ UNCHANGED turn

\* A refusal is written down in the step that tells it, any other is only told.
Refuse(r, why) ==
    /\ why \in {"capacity", "scope"}
    /\ Tell(r, why)
    /\ <<"started", r>> \notin written
    /\ written' = written \cup {<<"refused", r>>}

Fail(r, why) ==
    /\ why \in {"unwritable", "failed"}
    /\ Tell(r, why)
    /\ UNCHANGED written

\* What was not turned away is written down, once, and then runs.
WriteDown(r) ==
    /\ turn[r] = "inside" /\ told[r] = "none"
    /\ {<<"started", r>>, <<"refused", r>>} \cap written = {}
    /\ written' = written \cup {<<"started", r>>}
    /\ UNCHANGED <<turn, told>>

Run(r) ==
    /\ <<"started", r>> \in written /\ told[r] = "none"
    /\ Moves(r, "inside", "running")
    /\ told' = [told EXCEPT ![r] = "started"]
    /\ UNCHANGED written

End(r) ==
    /\ Moves(r, "running", "inside")
    /\ UNCHANGED <<written, told>>

\* A slot is given back by whoever has it; who has none leaves with an answer.
Leave(r) ==
    /\ \/ Moves(r, "inside", "gone")
       \/ Moves(r, "outside", "gone") /\ told[r] # "none"
    /\ UNCHANGED <<written, told>>

Next == \E r \in Requests :
    \/ Admit(r) \/ TurnAway(r) \/ WriteDown(r) \/ Run(r) \/ End(r) \/ Leave(r)
    \/ \E why \in {"capacity", "scope", "unwritable", "failed"} : Refuse(r, why) \/ Fail(r, why)

Spec == Init /\ [][Next]_vars

=============================================================================
