-------------------------------- MODULE Gate --------------------------------
(***************************************************************************)
(* The one gate every scan goes through: claiming a slot, judging where a  *)
(* request reaches, recording it, writing it down and only then starting   *)
(* it (src/src/policy.rs, src/src/start.rs, and Scans::reserve, start,     *)
(* resume, file and the end of follow in src/src/scans.rs).                *)
(*                                                                         *)
(* Requests are answered concurrently, each on a task of its own, and a    *)
(* task is dropped at an await when its connection fails.  What a request  *)
(* reaches is a set of addresses; what is written in the audit is which    *)
(* request a line is about and whether it was started or refused.          *)
(***************************************************************************)
EXTENDS Integers, FiniteSets

CONSTANTS
    Requests,       \* requests to start or resume a scan
    Addresses,      \* addresses a request may name
    Allowed,        \* Scope.allowed; every address where no list is given
    Denied,         \* Scope.denied
    Ceiling,        \* Scans.ceiling
    Old,            \* a record an earlier process left behind
    Nobody          \* the owner of a record nobody has open

ASSUME GateAssumption ==
    /\ Allowed \subseteq Addresses /\ Denied \subseteq Addresses
    /\ Ceiling \in Nat
    /\ Old \notin Requests /\ Nobody \notin Requests

Kinds   == {"scan", "listen"}
Records == Requests \cup {Old}
Phases  == {"idle", "load", "claim", "find", "room", "read", "permit", "journal",
            "record", "launch", "running", "ended", "over", "leave", "done"}
Answers == {"none", "started", "capacity", "scope", "unwritable", "failed"}

VARIABLES
    taken,      \* Scans.taken
    lines,      \* the audit: which requests it says were started, refused
    made,       \* records that exist
    plan,       \* what a record says its scan is: kind and addresses
    open,       \* who has a record's journal open
    pc,         \* where each request is
    loaded,     \* the count `reserve` last loaded
    held,       \* whether the request holds a Slot
    how,        \* whether it is a start, or the resumption of which record
    kind,       \* the kind of scan
    reach,      \* the addresses it resolved to
    dialled,    \* ghost: the addresses its scan was started on
    answer      \* what its client is told

gate    == <<taken, lines, made, plan, open>>
request == <<pc, loaded, held, how, kind, reach, dialled, answer>>
vars    == <<gate, request>>

Started(r) == <<"started", r>>
Refused(r) == <<"refused", r>>

TypeOK ==
    /\ taken \in Nat
    /\ lines \subseteq {"started", "refused"} \X Requests
    /\ made \subseteq Records
    /\ plan \in [Records -> [kind : Kinds, reach : SUBSET Addresses]]
    /\ open \in [Records -> Requests \cup {Nobody}]
    /\ pc \in [Requests -> Phases]
    /\ loaded \in [Requests -> Nat]
    /\ held \in [Requests -> BOOLEAN]
    /\ how \in [Requests -> Records]
    /\ kind \in [Requests -> Kinds]
    /\ reach \in [Requests -> SUBSET Addresses]
    /\ dialled \in [Requests -> SUBSET Addresses]
    /\ answer \in [Requests -> Answers]

\* Every request files its own record, or is given one to continue.
Resumes(r) == how[r] # r

\* An earlier process ran under a policy of its own, so what its record
\* reaches may be anywhere.
Init ==
    /\ taken = 0
    /\ lines = {}
    /\ made = {Old}
    /\ \E k \in Kinds, a \in SUBSET Addresses \ {{}} :
         plan = [i \in Records |-> [kind |-> k, reach |-> a]]
    /\ open = [i \in Records |-> Nobody]
    /\ pc = [r \in Requests |-> "idle"]
    /\ loaded = [r \in Requests |-> 0]
    /\ held = [r \in Requests |-> FALSE]
    /\ how = [r \in Requests |-> r]
    /\ kind = [r \in Requests |-> "scan"]
    /\ reach = [r \in Requests |-> {}]
    /\ dialled = [r \in Requests |-> {}]
    /\ answer = [r \in Requests |-> "none"]

Goto(r, phase) == pc' = [pc EXCEPT ![r] = phase]

\* A way out that is not a running scan; what it holds goes with Leave.
Fail(r, why) ==
    /\ Goto(r, "leave")
    /\ answer' = [answer EXCEPT ![r] = why]

-----------------------------------------------------------------------------
(* Claiming a slot.                                                        *)

Arrive(r) ==
    /\ pc[r] = "idle"
    /\ \E i \in made \cup {r} : how' = [how EXCEPT ![r] = i]
    /\ Goto(r, "load")
    /\ UNCHANGED <<gate, loaded, held, kind, reach, dialled, answer>>

Load(r) ==
    /\ pc[r] = "load"
    /\ loaded' = [loaded EXCEPT ![r] = taken]
    /\ Goto(r, "claim")
    /\ UNCHANGED <<gate, held, how, kind, reach, dialled, answer>>

\* What a request does once it knows whether it has a slot: a resumption
\* opens its record first, a start looks at its room.
Claimed(r) == IF Resumes(r) THEN "find" ELSE "room"

\* Mutation: the count is stored back without looking at it again.
ClaimBlindly(r) ==
    /\ pc[r] = "claim"
    /\ IF loaded[r] >= Ceiling
       THEN UNCHANGED <<taken, held>>
       ELSE /\ taken' = loaded[r] + 1
            /\ held' = [held EXCEPT ![r] = TRUE]
    /\ Goto(r, Claimed(r))
    /\ UNCHANGED <<lines, made, plan, open, loaded, how, kind, reach, dialled, answer>>

\* Mutation: an exchange that fails, if only spuriously, is taken for no room.
ClaimOnce(r) ==
    /\ pc[r] = "claim"
    /\ \/ /\ loaded[r] < Ceiling
          /\ loaded[r] = taken
          /\ taken' = taken + 1
          /\ held' = [held EXCEPT ![r] = TRUE]
       \/ UNCHANGED <<taken, held>>
    /\ Goto(r, Claimed(r))
    /\ UNCHANGED <<lines, made, plan, open, loaded, how, kind, reach, dialled, answer>>

\* The ceiling is checked against what was loaded, and a slot is taken only
\* if that is still the count.  A failed exchange, spurious ones included,
\* loads again.
Claim(r) ==
    /\ pc[r] = "claim"
    /\ \/ /\ loaded[r] >= Ceiling
          /\ Goto(r, Claimed(r))
          /\ UNCHANGED <<taken, loaded, held>>
       \/ /\ loaded[r] < Ceiling
          /\ loaded[r] = taken
          /\ taken' = taken + 1
          /\ held' = [held EXCEPT ![r] = TRUE]
          /\ Goto(r, Claimed(r))
          /\ UNCHANGED loaded
       \/ /\ loaded[r] < Ceiling
          /\ loaded' = [loaded EXCEPT ![r] = taken]
          /\ UNCHANGED <<taken, held, pc>>
    /\ UNCHANGED <<lines, made, plan, open, how, kind, reach, dialled, answer>>

-----------------------------------------------------------------------------
(* Being let through.                                                      *)

\* resume reads the store and opens the journal before it asks for room.
\* A record another scan has open cannot be opened.
Find(r) ==
    /\ pc[r] = "find"
    /\ IF how[r] \in made /\ open[how[r]] = Nobody
       THEN /\ open' = [open EXCEPT ![how[r]] = r]
            /\ kind' = [kind EXCEPT ![r] = plan[how[r]].kind]
            /\ reach' = [reach EXCEPT ![r] = plan[how[r]].reach]
            /\ Goto(r, "room")
            /\ UNCHANGED answer
       ELSE /\ Fail(r, "failed")
            /\ UNCHANGED <<open, kind, reach>>
    /\ UNCHANGED <<taken, lines, made, plan, loaded, held, how, dialled>>

\* Mutation: a refusal is told whether or not it could be written down.
RefuseAnyway(r, why) ==
    /\ Fail(r, why)
    /\ lines' \in {lines, lines \cup {Refused(r)}}

\* A refusal is written down before it is told, and one that cannot be
\* written is told as that.
Refuse(r, why) ==
    \/ Fail(r, why) /\ lines' = lines \cup {Refused(r)}
    \/ Fail(r, "unwritable") /\ UNCHANGED lines

Room(r) ==
    /\ pc[r] = "room"
    /\ IF held[r]
       THEN /\ Goto(r, IF Resumes(r) THEN "permit" ELSE "read")
            /\ UNCHANGED <<lines, answer>>
       ELSE Refuse(r, "capacity")
    /\ UNCHANGED <<taken, made, plan, open, loaded, held, how, kind, reach, dialled>>

\* The request is read and its names are resolved, once.
Read(r) ==
    /\ pc[r] = "read"
    /\ \/ /\ \E a \in SUBSET Addresses \ {{}} : reach' = [reach EXCEPT ![r] = a]
          /\ \E k \in Kinds : kind' = [kind EXCEPT ![r] = k]
          /\ Goto(r, "permit")
          /\ UNCHANGED answer
       \/ /\ Fail(r, "failed")
          /\ UNCHANGED <<reach, kind>>
    /\ UNCHANGED <<gate, loaded, held, how, dialled>>

\* Scope::outside: beyond the allow list, or left over once what is not
\* denied is taken away.
Outside(asked) == (asked \ Allowed) \cup (asked \ (asked \ Denied))

\* Mutation: a resumed scan is trusted because it was allowed once.
PermitStarts(r) ==
    /\ pc[r] = "permit"
    /\ IF Resumes(r) \/ kind[r] = "listen" \/ Outside(reach[r]) = {}
       THEN /\ Goto(r, IF Resumes(r) THEN "record" ELSE "journal")
            /\ UNCHANGED <<lines, answer>>
       ELSE Refuse(r, "scope")
    /\ UNCHANGED <<taken, made, plan, open, loaded, held, how, kind, reach, dialled>>

\* A listener sends nothing and is not judged.
Permit(r) ==
    /\ pc[r] = "permit"
    /\ IF kind[r] = "listen" \/ Outside(reach[r]) = {}
       THEN /\ Goto(r, IF Resumes(r) THEN "record" ELSE "journal")
            /\ UNCHANGED <<lines, answer>>
       ELSE Refuse(r, "scope")
    /\ UNCHANGED <<taken, made, plan, open, loaded, held, how, kind, reach, dialled>>

\* A scan that cannot be recorded is still a scan.
Journal(r) ==
    /\ pc[r] = "journal"
    /\ \/ /\ made' = made \cup {r}
          /\ plan' = [plan EXCEPT ![r] = [kind |-> kind[r], reach |-> reach[r]]]
          /\ open' = [open EXCEPT ![r] = r]
       \/ UNCHANGED <<made, plan, open>>
    /\ Goto(r, "record")
    /\ UNCHANGED <<taken, lines, loaded, held, how, kind, reach, dialled, answer>>

\* Mutation: a line that cannot be written does not stop the scan.
RecordOrNot(r) ==
    /\ pc[r] = "record"
    /\ lines' \in {lines, lines \cup {Started(r)}}
    /\ Goto(r, "launch")
    /\ UNCHANGED <<taken, made, plan, open, loaded, held, how, kind, reach, dialled, answer>>

\* A scan that cannot be written down does not happen.
Record(r) ==
    /\ pc[r] = "record"
    /\ \/ /\ lines' = lines \cup {Started(r)}
          /\ Goto(r, "launch")
          /\ UNCHANGED answer
       \/ /\ Fail(r, "unwritable")
          /\ UNCHANGED lines
    /\ UNCHANGED <<taken, made, plan, open, loaded, held, how, kind, reach, dialled>>

\* The engine starts the scan, which is filed and followed before anything
\* else is awaited; or refuses to.
Launch(r) ==
    /\ pc[r] = "launch"
    /\ \/ /\ dialled' = [dialled EXCEPT ![r] = IF kind[r] = "listen" THEN {} ELSE reach[r]]
          /\ answer' = [answer EXCEPT ![r] = "started"]
          /\ Goto(r, "running")
       \/ /\ Fail(r, "failed")
          /\ UNCHANGED dialled
    /\ UNCHANGED <<gate, loaded, held, how, kind, reach>>

-----------------------------------------------------------------------------
(* Giving the slot and the record back.                                    *)

\* Dropping what the request held: its Journal and its Slot.
LetGo(r) ==
    /\ open' = [i \in Records |-> IF open[i] = r THEN Nobody ELSE open[i]]
    /\ taken' = IF held[r] THEN taken - 1 ELSE taken
    /\ held' = [held EXCEPT ![r] = FALSE]
    /\ reach' = [reach EXCEPT ![r] = {}]
    /\ dialled' = [dialled EXCEPT ![r] = {}]

\* Mutation: a slot is given back by the follower alone, and a request that
\* was turned down never gets one.
LeaveKeepsSlot(r) ==
    /\ pc[r] = "leave"
    /\ open' = [i \in Records |-> IF open[i] = r THEN Nobody ELSE open[i]]
    /\ reach' = [reach EXCEPT ![r] = {}]
    /\ dialled' = [dialled EXCEPT ![r] = {}]
    /\ Goto(r, "done")
    /\ UNCHANGED <<taken, lines, made, plan, loaded, held, how, kind, answer>>

\* An error returned by `start` or `resume` drops both before it is told.
Leave(r) ==
    /\ pc[r] = "leave"
    /\ LetGo(r)
    /\ Goto(r, "done")
    /\ UNCHANGED <<lines, made, plan, loaded, how, kind, answer>>

\* Mutation: the count is lowered by hand on the ways out that return, and
\* a task that is dropped does not return.
CancelKeepsCount(r) ==
    /\ pc[r] \in {"read", "launch"}
    /\ held' = [held EXCEPT ![r] = FALSE]
    /\ reach' = [reach EXCEPT ![r] = {}]
    /\ open' = [i \in Records |-> IF open[i] = r THEN Nobody ELSE open[i]]
    /\ Goto(r, "done")
    /\ UNCHANGED <<taken, lines, made, plan, loaded, how, kind, dialled, answer>>

\* The connection fails, and the task answering the request is dropped at
\* one of its awaits.
Cancel(r) ==
    /\ pc[r] \in {"read", "launch"}
    /\ LetGo(r)
    /\ Goto(r, "done")
    /\ UNCHANGED <<lines, made, plan, loaded, how, kind, answer>>

\* The engine's task ends, its journal with it.
EngineEnds(r) ==
    /\ pc[r] = "running"
    /\ open' = [i \in Records |-> IF open[i] = r THEN Nobody ELSE open[i]]
    /\ Goto(r, "ended")
    /\ UNCHANGED <<taken, lines, made, plan, loaded, held, how, kind, reach, dialled, answer>>

\* follow says Finished and closes the log, which tells every client.
CloseLog(r) ==
    /\ pc[r] = "ended"
    /\ Goto(r, "over")
    /\ UNCHANGED <<gate, loaded, held, how, kind, reach, dialled, answer>>

\* follow drops the slot last.
Release(r) ==
    /\ pc[r] = "over"
    /\ LetGo(r)
    /\ Goto(r, "done")
    /\ UNCHANGED <<lines, made, plan, loaded, how, kind, answer>>

-----------------------------------------------------------------------------

\* What the daemon does for a request, left to itself.
Serve(r) ==
    \/ Load(r) \/ Claim(r) \/ Find(r) \/ Room(r) \/ Read(r) \/ Permit(r)
    \/ Journal(r) \/ Record(r) \/ Launch(r) \/ Leave(r)
    \/ CloseLog(r) \/ Release(r)

Next == \E r \in Requests : Arrive(r) \/ Serve(r) \/ Cancel(r) \/ EngineEnds(r)

Spec == Init /\ [][Next]_vars

\* The runtime polls every task until it is done; how long a scan runs is
\* the engine's affair.  An exchange that fails with the count as it was
\* loaded changes nothing, so it is no step: fairness rules out only that it
\* fails for ever.
FairSpec == Spec /\ \A r \in Requests : WF_vars(Serve(r))

-----------------------------------------------------------------------------
(* Properties.                                                             *)

Holders == {r \in Requests : held[r]}
OnWire  == {r \in Requests : pc[r] = "running"}

\* The count is the slots that are held, whatever way each request ends:
\* refused, failed, cut off at an await, or run to its end.  (Scans::reserve,
\* Slot's Drop, Scans::start and resume, and the last line of `follow`.)
SlotsCounted == taken = Cardinality(Holders)

\* No more scans run at once than the ceiling, however many requests arrive
\* together.  (Scans::reserve claiming before anything is read.)
CeilingHolds == Cardinality(OnWire) <= Ceiling

\* Nothing is on the wire that the audit does not say was started.
\* (Policy::record before the engine in every branch of start.rs.)
NothingUnaudited == \A r \in OnWire : Started(r) \in lines

\* Nothing is on the wire that reaches an address outside the allow list or
\* inside the deny list, whether it was asked for or resumed from a record
\* made under another policy.  (Policy::permit on the addresses the engine
\* is then given.)
NothingOutside ==
    \A r \in OnWire : dialled[r] \subseteq Allowed /\ dialled[r] \cap Denied = {}

\* A request turned down for room or for reach leaves no record and no line
\* saying it started, and is told only once its refusal is written down.
\* (The order of steps 1 to 5 in policy.rs.)
RefusalsAreClean ==
    \A r \in Requests : answer[r] \in {"capacity", "scope"} =>
        /\ Refused(r) \in lines /\ Started(r) \notin lines
        /\ r \notin made

\* A slot does not stay with a request that is not running, and comes back
\* after a scan's engine has ended.
SlotComesBack ==
    \A r \in Requests : (held[r] /\ pc[r] # "running") ~> (~held[r] \/ pc[r] = "running")

\* Who has looked and found room for nobody is turned away already, though it
\* is told later.
TurnOf(r) ==
    IF pc[r] \in {"idle", "load"} \/ (pc[r] = "claim" /\ loaded[r] < Ceiling) THEN "asking"
    ELSE IF pc[r] = "running" THEN "running"
    ELSE IF pc[r] = "done" THEN "gone"
    ELSE IF held[r] THEN "inside" ELSE "outside"

Promise == INSTANCE GatePromise WITH turn <- [r \in Requests |-> TurnOf(r)],
                                     written <- lines, told <- answer

\* The gate keeps what GatePromise says of it, with the claim in as many
\* steps as the exchange takes: who is turned away for room arrived at a
\* moment when every slot was held, and not merely lost a race; who runs was
\* let in and written down first; who gets an answer gets one, and the right
\* one for where it stood.  (Scans::reserve's loop, and the order of
\* policy.rs on every way through start.rs.)
KeepsPromise == Promise!Spec

\* policy.rs: "Three before four is what keeps a refused request from leaving
\* a record of a scan that never ran."
RecordMeansRan ==
    \A r \in Requests : (pc[r] = "done" /\ r \in made) => answer[r] = "started"

=============================================================================
