----------------------------- MODULE GateProofs -----------------------------
(***************************************************************************)
(* Proofs about Gate, for any ceiling, any number of requests arriving     *)
(* together, and any policy.                                               *)
(***************************************************************************)
EXTENDS Gate, FiniteSetTheorems, TLAPS

-----------------------------------------------------------------------------
(* Types.  That the count is a natural number rests on its being the       *)
(* number of slots held, so the two are proved together.                   *)

Typed ==
    /\ lines \subseteq {"started", "refused"} \X Requests
    /\ made \subseteq Records
    /\ plan \in [Records -> [kind : Kinds, reach : SUBSET Addresses]]
    /\ open \in [Records -> Requests \cup {Nobody}]
    /\ pc \in [Requests -> Phases]
    /\ loaded \in [Requests -> Nat]
    /\ held \in [Requests -> BOOLEAN]
    /\ how \in [Requests -> Records]
    /\ kind \in [Requests -> Kinds]
    /\ reach \in [Requests -> SUBSET Addresses]
    /\ dialled \in [Requests -> SUBSET Addresses]
    /\ answer \in [Requests -> Answers]

\* The phases in which a request has no slot, and those in which it must.
Before  == {"idle", "load", "claim", "done"}
Running == {"read", "permit", "journal", "record", "launch", "running", "ended", "over"}

SlotInv ==
    /\ IsFiniteSet(Holders)
    /\ taken = Cardinality(Holders)
    /\ taken <= Ceiling
    /\ \A r \in Requests : pc[r] \in Before => ~held[r]
    /\ \A r \in Requests : pc[r] \in Running => held[r]

\* What a request has been through by the time it reaches each phase.
Judged(r)  == kind[r] = "listen" \/ Outside(reach[r]) = {}
Through ==
    \A r \in Requests :
        /\ pc[r] \in {"journal", "record", "launch"} => Judged(r)
        /\ pc[r] \in {"launch", "running"} => Started(r) \in lines
        /\ pc[r] = "running" => Outside(dialled[r]) = {}

Inv == Typed /\ SlotInv /\ Through

\* The gate's invariant holds before anything was asked.
LEMMA InitHolds == Init => Inv
  <1> SUFFICES ASSUME Init PROVE Inv
    OBVIOUS
  <1>1. Typed
    BY DEF Init, Typed, Kinds, Records, Phases, Answers
  <1>2. Holders = {}
    BY DEF Init, Holders
  <1>3. SlotInv
    BY <1>2, FS_EmptySet, GateAssumption DEF Init, SlotInv, Running
  <1>4. Through
    BY DEF Init, Through
  <1> QED BY <1>1, <1>3, <1>4 DEF Inv

\* Letting go of a journal and a slot keeps the types of what is let go.
LEMMA LetGoTyped ==
    ASSUME Typed, NEW r \in Requests, LetGo(r)
    PROVE  /\ open' \in [Records -> Requests \cup {Nobody}]
           /\ held' \in [Requests -> BOOLEAN]
           /\ reach' \in [Requests -> SUBSET Addresses]
           /\ dialled' \in [Requests -> SUBSET Addresses]
  <1>1. \A i \in Records : open[i] \in Requests \cup {Nobody}
    BY DEF Typed
  <1>2. open' \in [Records -> Requests \cup {Nobody}]
    BY <1>1 DEF LetGo
  <1>3. held' \in [Requests -> BOOLEAN]
    BY DEF Typed, LetGo
  <1>4. reach' \in [Requests -> SUBSET Addresses]
    BY DEF Typed, LetGo
  <1>5. dialled' \in [Requests -> SUBSET Addresses]
    BY DEF Typed, LetGo
  <1> QED BY <1>2, <1>3, <1>4, <1>5

\* Every step of a request keeps the types.
LEMMA TypedStep == Inv /\ [Next]_vars => Typed'
  <1> SUFFICES ASSUME Inv, [Next]_vars PROVE Typed'
    OBVIOUS
  <1> USE DEF Typed, Goto, gate, request, Records, Phases, Answers, Kinds
  <1>0. Typed
    BY DEF Inv
  <1>1. CASE UNCHANGED vars
    BY <1>0, <1>1 DEF vars
  <1>2. ASSUME NEW r \in Requests PROVE taken \in Nat
    BY FS_CardinalityType DEF Inv, SlotInv
  <1>3. ASSUME NEW r \in Requests, Arrive(r) PROVE Typed'
    BY <1>0, <1>3 DEF Arrive
  <1>4. ASSUME NEW r \in Requests, Load(r) PROVE Typed'
    BY <1>0, <1>2, <1>4 DEF Load
  <1>5. ASSUME NEW r \in Requests, Claim(r) PROVE Typed'
    <2>1. pc' \in [Requests -> Phases]
      <3>1. pc' = pc \/ pc' = [pc EXCEPT ![r] = "find"] \/ pc' = [pc EXCEPT ![r] = "room"]
        BY <1>5 DEF Claim, Claimed
      <3> QED BY <1>0, <3>1
    <2>2. loaded' \in [Requests -> Nat]
      <3>1. loaded' = loaded \/ loaded' = [loaded EXCEPT ![r] = taken]
        BY <1>5 DEF Claim
      <3> QED BY <1>0, <1>2, <3>1
    <2>3. held' \in [Requests -> BOOLEAN]
      <3>1. held' = held \/ held' = [held EXCEPT ![r] = TRUE]
        BY <1>5 DEF Claim
      <3> QED BY <1>0, <3>1
    <2>4. UNCHANGED <<lines, made, plan, open, how, kind, reach, dialled, answer>>
      BY <1>5 DEF Claim
    <2> QED BY <1>0, <2>1, <2>2, <2>3, <2>4
  <1>6. ASSUME NEW r \in Requests, Find(r) PROVE Typed'
    <2>1. plan[how[r]].kind \in Kinds /\ plan[how[r]].reach \in SUBSET Addresses
      BY <1>0, <1>6
    <2>2. how[r] \in Records
      BY <1>0
    <2>3. open' \in [Records -> Requests \cup {Nobody}]
      <3>1. open' = open \/ open' = [open EXCEPT ![how[r]] = r]
        BY <1>6 DEF Find
      <3> QED BY <1>0, <2>2, <3>1
    <2>4. kind' \in [Requests -> Kinds]
      <3>1. kind' = kind \/ kind' = [kind EXCEPT ![r] = plan[how[r]].kind]
        BY <1>6 DEF Find
      <3> QED BY <1>0, <2>1, <3>1
    <2>5. reach' \in [Requests -> SUBSET Addresses]
      <3>1. reach' = reach \/ reach' = [reach EXCEPT ![r] = plan[how[r]].reach]
        BY <1>6 DEF Find
      <3> QED BY <1>0, <2>1, <3>1
    <2>6. pc' \in [Requests -> Phases]
      <3>1. pc' = [pc EXCEPT ![r] = "room"] \/ pc' = [pc EXCEPT ![r] = "leave"]
        BY <1>6 DEF Find, Fail
      <3> QED BY <1>0, <3>1
    <2>7. answer' \in [Requests -> Answers]
      <3>1. answer' = answer \/ answer' = [answer EXCEPT ![r] = "failed"]
        BY <1>6 DEF Find, Fail
      <3> QED BY <1>0, <3>1
    <2>8. UNCHANGED <<lines, made, plan, loaded, held, how, dialled>>
      BY <1>6 DEF Find
    <2> QED BY <1>0, <2>3, <2>4, <2>5, <2>6, <2>7, <2>8
  <1>7. ASSUME NEW r \in Requests, Room(r) PROVE Typed'
    <2>1. pc' \in [Requests -> Phases]
      BY <1>0, <1>7 DEF Room, Refuse, Fail
    <2>2. answer' \in [Requests -> Answers]
      BY <1>0, <1>7 DEF Room, Refuse, Fail
    <2>3. lines' \subseteq {"started", "refused"} \X Requests
      BY <1>0, <1>7 DEF Room, Refuse, Refused
    <2>4. UNCHANGED <<made, plan, open, loaded, held, how, kind, reach, dialled>>
      BY <1>7 DEF Room
    <2> QED BY <1>0, <2>1, <2>2, <2>3, <2>4
  <1>8. ASSUME NEW r \in Requests, Read(r) PROVE Typed'
    <2>1. /\ pc' \in [Requests -> Phases] /\ answer' \in [Requests -> Answers]
      BY <1>0, <1>8 DEF Read, Fail
    <2>2. reach' \in [Requests -> SUBSET Addresses] /\ kind' \in [Requests -> Kinds]
      <3>1. CASE UNCHANGED <<reach, kind>>
        BY <1>0, <3>1
      <3>2. CASE ~UNCHANGED <<reach, kind>>
        <4>1. PICK a \in SUBSET Addresses, k \in Kinds :
                reach' = [reach EXCEPT ![r] = a] /\ kind' = [kind EXCEPT ![r] = k]
          BY <1>8, <3>2 DEF Read
        <4> QED BY <1>0, <4>1
      <3> QED BY <3>1, <3>2
    <2>3. UNCHANGED <<lines, made, plan, open, loaded, held, how, dialled>>
      BY <1>8 DEF Read
    <2> QED BY <1>0, <2>1, <2>2, <2>3
  <1>9. ASSUME NEW r \in Requests, Permit(r) PROVE Typed'
    <2>1. /\ pc' \in [Requests -> Phases] /\ answer' \in [Requests -> Answers]
      BY <1>0, <1>9 DEF Permit, Refuse, Fail
    <2>2. lines' \subseteq {"started", "refused"} \X Requests
      BY <1>0, <1>9 DEF Permit, Refuse, Refused
    <2>3. UNCHANGED <<made, plan, open, loaded, held, how, kind, reach, dialled>>
      BY <1>9 DEF Permit
    <2> QED BY <1>0, <2>1, <2>2, <2>3
  <1>10. ASSUME NEW r \in Requests, Journal(r) PROVE Typed'
    <2>1. pc' \in [Requests -> Phases]
      <3>1. pc' = [pc EXCEPT ![r] = "record"]
        BY <1>10 DEF Journal
      <3> QED BY <1>0, <3>1
    <2>2. made' \subseteq Records /\ open' \in [Records -> Requests \cup {Nobody}]
      <3>1. /\ made' = made \/ made' = made \cup {r}
            /\ open' = open \/ open' = [open EXCEPT ![r] = r]
        BY <1>10 DEF Journal
      <3> QED BY <1>0, <3>1
    <2>3. plan' \in [Records -> [kind : Kinds, reach : SUBSET Addresses]]
      <3>1. plan' = plan \/ plan' = [plan EXCEPT ![r] = [kind |-> kind[r], reach |-> reach[r]]]
        BY <1>10 DEF Journal
      <3>2. [kind |-> kind[r], reach |-> reach[r]] \in [kind : Kinds, reach : SUBSET Addresses]
        BY <1>0
      <3> QED BY <1>0, <3>1, <3>2
    <2>4. UNCHANGED <<lines, loaded, held, how, kind, reach, dialled, answer>>
      BY <1>10 DEF Journal
    <2> QED BY <1>0, <2>1, <2>2, <2>3, <2>4
  <1>11. ASSUME NEW r \in Requests, Record(r) PROVE Typed'
    <2>1. /\ pc' \in [Requests -> Phases] /\ answer' \in [Requests -> Answers]
      BY <1>0, <1>11 DEF Record, Fail
    <2>2. lines' \subseteq {"started", "refused"} \X Requests
      BY <1>0, <1>11 DEF Record, Started
    <2>3. UNCHANGED <<made, plan, open, loaded, held, how, kind, reach, dialled>>
      BY <1>11 DEF Record
    <2> QED BY <1>0, <2>1, <2>2, <2>3
  <1>12. ASSUME NEW r \in Requests, Launch(r) PROVE Typed'
    <2>1. /\ pc' \in [Requests -> Phases] /\ answer' \in [Requests -> Answers]
      BY <1>0, <1>12 DEF Launch, Fail
    <2>2. dialled' \in [Requests -> SUBSET Addresses]
      BY <1>0, <1>12 DEF Launch
    <2>3. UNCHANGED <<lines, made, plan, open, loaded, held, how, kind, reach>>
      BY <1>12 DEF Launch
    <2> QED BY <1>0, <2>1, <2>2, <2>3
  <1>13. ASSUME NEW r \in Requests, Leave(r) \/ Cancel(r) \/ Release(r) PROVE Typed'
    <2>1. pc' \in [Requests -> Phases]
      BY <1>0, <1>13 DEF Leave, Cancel, Release
    <2>0. LetGo(r)
      BY <1>13 DEF Leave, Cancel, Release
    <2>2. /\ open' \in [Records -> Requests \cup {Nobody}]
          /\ held' \in [Requests -> BOOLEAN]
          /\ reach' \in [Requests -> SUBSET Addresses]
          /\ dialled' \in [Requests -> SUBSET Addresses]
      BY <1>0, <2>0, LetGoTyped
    <2>3. UNCHANGED <<lines, made, plan, loaded, how, kind, answer>>
      BY <1>13 DEF Leave, Cancel, Release
    <2> QED BY <1>0, <2>1, <2>2, <2>3
  <1>14. ASSUME NEW r \in Requests, EngineEnds(r) \/ CloseLog(r) PROVE Typed'
    BY <1>0, <1>14 DEF EngineEnds, CloseLog
  <1> QED BY <1>1, <1>3, <1>4, <1>5, <1>6, <1>7, <1>8, <1>9, <1>10, <1>11, <1>12,
             <1>13, <1>14 DEF Next, Serve

-----------------------------------------------------------------------------
(* Slots.                                                                  *)

\* A step that neither takes nor gives back a slot, and keeps every request
\* on its side of the claim.
LEMMA SlotStutter ==
    ASSUME Inv, NEW r \in Requests, UNCHANGED <<taken, held>>,
           \A s \in Requests \ {r} : pc'[s] = pc[s],
           pc'[r] \in Before => ~held[r],
           pc'[r] \in Running => held[r]
    PROVE  SlotInv'
  <1>1. Holders' = Holders
    BY DEF Holders
  <1> QED BY <1>1 DEF Inv, SlotInv

\* Dropping a Slot takes its holder out and one off the count.
LEMMA LetGoGivesBack ==
    ASSUME Inv, NEW r \in Requests, LetGo(r), pc' = [pc EXCEPT ![r] = "done"]
    PROVE  SlotInv'
  <1>1. Holders' = Holders \ {r}
    BY DEF Holders, LetGo, Inv, Typed
  <1>2. /\ IsFiniteSet(Holders \ {r})
        /\ Cardinality(Holders \ {r})
             = IF r \in Holders THEN Cardinality(Holders) - 1 ELSE Cardinality(Holders)
    BY FS_RemoveElement DEF Inv, SlotInv
  <1>3. taken' = Cardinality(Holders')
    BY <1>1, <1>2 DEF LetGo, Holders, Inv, SlotInv
  <1>4. taken' <= Ceiling
    <2>1. taken \in Nat
      BY FS_CardinalityType DEF Inv, SlotInv
    <2> QED BY <2>1, GateAssumption DEF LetGo, Inv, SlotInv
  <1>5. \A s \in Requests : /\ pc'[s] \in Before => ~held'[s]
                            /\ pc'[s] \in Running => held'[s]
    BY DEF LetGo, Inv, Typed, SlotInv, Before, Running
  <1> QED BY <1>1, <1>2, <1>3, <1>4, <1>5 DEF SlotInv

\* A claim that wins its compare-exchange adds one holder and one to the count,
\* and the ceiling is not passed.
LEMMA ClaimCounts ==
    ASSUME Inv, NEW r \in Requests, Claim(r) PROVE SlotInv'
  <1>t. /\ taken \in Nat /\ loaded[r] \in Nat /\ Ceiling \in Nat
        /\ pc \in [Requests -> Phases] /\ held \in [Requests -> BOOLEAN]
    BY FS_CardinalityType, GateAssumption DEF Inv, SlotInv, Typed
  <1>0. pc[r] = "claim" /\ ~held[r]
    BY DEF Claim, Inv, SlotInv, Before
  <1>1. CASE UNCHANGED <<taken, held>>
    <2>1. \A s \in Requests \ {r} : pc'[s] = pc[s]
      BY <1>t DEF Claim, Goto
    <2>2. pc'[r] \in {"claim", "find", "room"}
      BY <1>t, <1>0 DEF Claim, Goto, Claimed
    <2> QED BY <1>0, <1>1, <2>1, <2>2, SlotStutter DEF Running
  <1>2. CASE /\ loaded[r] < Ceiling /\ loaded[r] = taken /\ taken' = taken + 1
             /\ held' = [held EXCEPT ![r] = TRUE] /\ Goto(r, Claimed(r))
    <2>1. Holders' = Holders \cup {r}
      BY <1>t, <1>2 DEF Holders
    <2>2. r \notin Holders
      BY <1>0 DEF Holders
    <2>3. /\ IsFiniteSet(Holders \cup {r})
          /\ Cardinality(Holders \cup {r}) = Cardinality(Holders) + 1
      BY <2>2, FS_AddElement DEF Inv, SlotInv
    <2>4. taken' = Cardinality(Holders') /\ taken' <= Ceiling
      BY <1>t, <1>2, <2>1, <2>3 DEF Inv, SlotInv
    <2>5. \A s \in Requests : /\ pc'[s] \in Before => ~held'[s]
                              /\ pc'[s] \in Running => held'[s]
      BY <1>t, <1>2 DEF Goto, Claimed, Inv, SlotInv, Before, Running
    <2> QED BY <2>1, <2>3, <2>4, <2>5 DEF SlotInv
  <1> QED BY <1>1, <1>2 DEF Claim

\* Every step keeps the count equal to the number of holders.
LEMMA SlotStep == Inv /\ [Next]_vars => SlotInv'
  <1> SUFFICES ASSUME Inv, [Next]_vars PROVE SlotInv'
    OBVIOUS
  <1>t. /\ pc \in [Requests -> Phases] /\ held \in [Requests -> BOOLEAN]
        /\ \A r \in Requests : pc[r] \in Before => ~held[r]
        /\ \A r \in Requests : pc[r] \in Running => held[r]
    BY DEF Inv, Typed, SlotInv
  <1>1. CASE UNCHANGED vars
    <2>1. Holders' = Holders
      BY <1>1 DEF vars, request, Holders
    <2> QED BY <1>1, <2>1 DEF vars, gate, request, Inv, SlotInv
  <1>2. ASSUME NEW r \in Requests, Arrive(r) \/ Load(r) PROVE SlotInv'
    BY <1>t, <1>2, SlotStutter DEF Arrive, Load, Goto, gate, Before, Running
  <1>3. ASSUME NEW r \in Requests, Claim(r) PROVE SlotInv'
    BY <1>3, ClaimCounts
  <1>4. ASSUME NEW r \in Requests, Find(r) PROVE SlotInv'
    BY <1>t, <1>4, SlotStutter DEF Find, Fail, Goto, gate, Before, Running
  <1>5. ASSUME NEW r \in Requests, Room(r) PROVE SlotInv'
    BY <1>t, <1>5, SlotStutter DEF Room, Refuse, Fail, Goto, gate, Before, Running
  <1>6. ASSUME NEW r \in Requests, Read(r) \/ Permit(r) PROVE SlotInv'
    BY <1>t, <1>6, SlotStutter
       DEF Read, Permit, Refuse, Fail, Goto, gate, Before, Running
  <1>7. ASSUME NEW r \in Requests, Journal(r) \/ Record(r) \/ Launch(r) PROVE SlotInv'
    BY <1>t, <1>7, SlotStutter
       DEF Journal, Record, Launch, Fail, Goto, gate, Before, Running
  <1>8. ASSUME NEW r \in Requests, EngineEnds(r) \/ CloseLog(r) PROVE SlotInv'
    BY <1>t, <1>8, SlotStutter DEF EngineEnds, CloseLog, Goto, gate, Before, Running
  <1>9. ASSUME NEW r \in Requests, Leave(r) \/ Cancel(r) \/ Release(r) PROVE SlotInv'
    BY <1>9, LetGoGivesBack DEF Leave, Cancel, Release, Goto
  <1> QED BY <1>1, <1>2, <1>3, <1>4, <1>5, <1>6, <1>7, <1>8, <1>9 DEF Next, Serve

-----------------------------------------------------------------------------
(* What was gone through on the way.                                       *)

\* Every step keeps what each phase of a request has established: judged, then
\* written down, then launched.
LEMMA ThroughStep == Inv /\ [Next]_vars => Through'
  <1> SUFFICES ASSUME Inv, [Next]_vars, NEW s \in Requests
               PROVE  /\ pc'[s] \in {"journal", "record", "launch"} => Judged(s)'
                      /\ pc'[s] \in {"launch", "running"} => Started(s) \in lines'
                      /\ pc'[s] = "running" => Outside(dialled'[s]) = {}
    BY DEF Through, Started, Judged, Outside
  <1>t. /\ pc \in [Requests -> Phases] /\ kind \in [Requests -> Kinds]
        /\ reach \in [Requests -> SUBSET Addresses]
        /\ dialled \in [Requests -> SUBSET Addresses]
        /\ pc[s] \in {"journal", "record", "launch"} => Judged(s)
        /\ pc[s] \in {"launch", "running"} => Started(s) \in lines
        /\ pc[s] = "running" => Outside(dialled[s]) = {}
    BY DEF Inv, Typed, Through
  <1> USE <1>t DEF Goto, Fail, Judged, gate, request
  <1>1. CASE UNCHANGED vars
    BY <1>1 DEF vars
  <1>2. ASSUME NEW r \in Requests, Arrive(r) \/ Load(r) \/ Claim(r)
        PROVE  UNCHANGED <<lines, kind, reach, dialled>>
    BY <1>2 DEF Arrive, Load, Claim
  <1>3. ASSUME NEW r \in Requests, Arrive(r) \/ Load(r) \/ Claim(r)
        PROVE  pc'[s] \in {"load", "claim", "find", "room"} \/ pc'[s] = pc[s]
    BY <1>3 DEF Arrive, Load, Claim, Claimed
  <1>4. ASSUME NEW r \in Requests, Find(r) \/ Room(r) \/ Read(r)
        PROVE  /\ pc'[s] \in {"room", "read", "permit", "leave"} \/
                  (r # s /\ pc'[s] = pc[s])
               /\ r # s => kind'[s] = kind[s] /\ reach'[s] = reach[s]
               /\ lines \subseteq lines' /\ dialled' = dialled
    BY <1>4 DEF Find, Room, Refuse, Read
  <1>5. ASSUME NEW r \in Requests, Permit(r)
        PROVE  /\ pc'[s] = "leave" \/ Judged(s) \/ pc'[s] = pc[s]
               /\ pc'[s] \in {"leave", "journal", "record"} \/ pc'[s] = pc[s]
               /\ lines \subseteq lines'
               /\ UNCHANGED <<kind, reach, dialled>>
    BY <1>5 DEF Permit, Refuse
  <1>6. ASSUME NEW r \in Requests, Journal(r) \/ Record(r)
        PROVE  /\ pc'[s] = pc[s] \/ pc'[s] = "leave" \/ Judged(s)
               /\ pc'[s] \in {"launch", "running"} => Started(s) \in lines'
               /\ pc'[s] = "running" => pc[s] = "running"
               /\ UNCHANGED <<kind, reach, dialled>>
    BY <1>6 DEF Journal, Record
  <1>7. ASSUME NEW r \in Requests, Launch(r)
        PROVE  /\ pc'[s] = pc[s] \/ pc'[s] = "leave"
                  \/ (pc'[s] = "running" /\ pc[s] = "launch")
               /\ pc'[s] = "running" => Outside(dialled'[s]) = {}
               /\ UNCHANGED <<lines, kind, reach>>
    <2>1. Outside({}) = {}
      BY DEF Outside
    <2> QED BY <1>7, <2>1 DEF Launch
  <1>8. ASSUME NEW r \in Requests, Leave(r) \/ Cancel(r) \/ Release(r)
        PROVE  /\ pc'[s] = "done" \/ (pc'[s] = pc[s] /\ r # s)
               /\ r # s => reach'[s] = reach[s] /\ dialled'[s] = dialled[s]
               /\ UNCHANGED <<lines, kind>>
    BY <1>8 DEF Leave, Cancel, Release, LetGo
  <1>9. ASSUME NEW r \in Requests, EngineEnds(r) \/ CloseLog(r)
        PROVE  /\ pc'[s] = pc[s] \/ pc'[s] \in {"ended", "over"}
               /\ UNCHANGED <<lines, kind, reach, dialled>>
    BY <1>9 DEF EngineEnds, CloseLog
  <1> QED BY <1>1, <1>2, <1>3, <1>4, <1>5, <1>6, <1>7, <1>8, <1>9 DEF Next, Serve

-----------------------------------------------------------------------------
(* Refusals.                                                               *)

\* A request before its journal has made nothing and is not in the audit as
\* started; one refused for room or for reach is on its way out, written down.
Asking == {"idle", "load", "claim", "find", "room", "read", "permit"}
CleanOf(r) ==
    /\ pc[r] \in Asking => Started(r) \notin lines /\ r \notin made
    /\ answer[r] \in {"capacity", "scope"} =>
         /\ pc[r] \in {"leave", "done"}
         /\ Refused(r) \in lines /\ Started(r) \notin lines /\ r \notin made
Clean == \A r \in Requests : CleanOf(r)

\* The invariant of refusals holds before anything was asked.
LEMMA InitClean == Init => Clean
  <1> SUFFICES ASSUME Init, NEW r \in Requests PROVE CleanOf(r)
    BY DEF Clean
  <1>1. answer[r] = "none" /\ lines = {} /\ r \notin made
    BY GateAssumption DEF Init
  <1> QED BY <1>1 DEF CleanOf

\* A line about one request is not a line about another.
LEMMA LinesDiffer ==
    ASSUME NEW r, NEW s
    PROVE  /\ Started(r) # Refused(s)
           /\ r # s => Started(r) # Started(s) /\ Refused(r) # Refused(s)
  BY DEF Started, Refused

\* What a request turned away at a point where it was asking leaves behind.
LEMMA RefuseClean ==
    ASSUME Typed, NEW r \in Requests, NEW why \in {"capacity", "scope"},
           CleanOf(r), pc[r] \in Asking, Refuse(r, why), UNCHANGED made
    PROVE  CleanOf(r)'
  <1>1. pc'[r] = "leave" /\ r \notin made'
    BY DEF Refuse, Fail, Goto, Typed, CleanOf
  <1>2. Started(r) \notin lines'
    BY LinesDiffer DEF Refuse, CleanOf
  <1>3. answer'[r] \in {"capacity", "scope"} => Refused(r) \in lines'
    BY DEF Refuse, Fail, Typed
  <1> QED BY <1>1, <1>2, <1>3 DEF CleanOf, Asking

\* A step of one request takes nothing from what is true of another.
LEMMA OthersClean ==
    ASSUME Typed, NEW r \in Requests, NEW s \in Requests, s # r, CleanOf(s),
           Arrive(r) \/ Serve(r) \/ Cancel(r) \/ EngineEnds(r)
    PROVE  CleanOf(s)'
  <1>1. pc'[s] = pc[s] /\ answer'[s] = answer[s]
    <2> USE DEF Typed, Goto, Fail, Refuse
    <2>1. CASE Arrive(r) \/ Load(r) \/ Claim(r) \/ Find(r)
      BY <2>1 DEF Arrive, Load, Claim, Find
    <2>2. CASE Room(r) \/ Read(r) \/ Permit(r)
      BY <2>2 DEF Room, Read, Permit
    <2>3. CASE Journal(r) \/ Record(r) \/ Launch(r)
      BY <2>3 DEF Journal, Record, Launch
    <2>4. CASE Leave(r) \/ Cancel(r) \/ Release(r) \/ EngineEnds(r) \/ CloseLog(r)
      BY <2>4 DEF Leave, Cancel, Release, EngineEnds, CloseLog
    <2> QED BY <2>1, <2>2, <2>3, <2>4 DEF Serve
  <1>2. lines' \in {lines, lines \cup {Started(r)}, lines \cup {Refused(r)}}
    <2>1. CASE Room(r) \/ Permit(r) \/ Record(r)
      BY <2>1 DEF Room, Permit, Record, Refuse
    <2>2. CASE Arrive(r) \/ Load(r) \/ Claim(r) \/ Find(r) \/ Read(r)
      BY <2>2 DEF Arrive, Load, Claim, Find, Read, gate
    <2>3. CASE Journal(r) \/ Launch(r) \/ Leave(r) \/ Cancel(r) \/ Release(r)
               \/ EngineEnds(r) \/ CloseLog(r)
      BY <2>3 DEF Journal, Launch, Leave, Cancel, Release, EngineEnds, CloseLog, gate
    <2> QED BY <2>1, <2>2, <2>3 DEF Serve
  <1>3. made' \in {made, made \cup {r}}
    <2>1. CASE Journal(r)
      BY <2>1 DEF Journal
    <2>2. CASE Arrive(r) \/ Load(r) \/ Claim(r) \/ Find(r) \/ Room(r) \/ Read(r) \/ Permit(r)
      BY <2>2 DEF Arrive, Load, Claim, Find, Room, Read, Permit, gate
    <2>3. CASE Record(r) \/ Launch(r) \/ Leave(r) \/ Cancel(r) \/ Release(r)
               \/ EngineEnds(r) \/ CloseLog(r)
      BY <2>3 DEF Record, Launch, Leave, Cancel, Release, EngineEnds, CloseLog, gate
    <2> QED BY <2>1, <2>2, <2>3 DEF Serve
  <1>4. (Started(s) \in lines' => Started(s) \in lines) /\ (Refused(s) \in lines => Refused(s) \in lines')
    BY <1>2, LinesDiffer
  <1>5. s \in made' => s \in made
    BY <1>3
  <1> QED BY <1>1, <1>4, <1>5 DEF CleanOf

\* A request's own step leaves what is true of it true.
LEMMA OwnClean ==
    ASSUME Typed, NEW r \in Requests, CleanOf(r),
           Arrive(r) \/ Serve(r) \/ Cancel(r) \/ EngineEnds(r)
    PROVE  CleanOf(r)'
  <1> USE DEF Goto
  <1>1. CASE Arrive(r) \/ Load(r) \/ Claim(r)
    <2>1. pc[r] \in Asking /\ UNCHANGED <<lines, made, answer>>
      BY <1>1 DEF Arrive, Load, Claim, Asking, gate
    <2> QED BY <2>1 DEF CleanOf, Asking
  <1>2. CASE Find(r) \/ Read(r)
    <2>1. pc[r] \in Asking /\ UNCHANGED <<lines, made>>
      BY <1>2 DEF Find, Read, Asking, gate
    <2>2. answer'[r] \in {answer[r], "failed"}
      BY <1>2 DEF Find, Read, Fail, Typed
    <2>3. answer[r] \notin {"capacity", "scope"}
      BY <2>1 DEF CleanOf, Asking
    <2> QED BY <2>1, <2>2, <2>3 DEF CleanOf
  <1>3. CASE Room(r) \/ Permit(r)
    <2>1. pc[r] \in Asking /\ UNCHANGED made
      BY <1>3 DEF Room, Permit, Asking
    <2>2. CASE Refuse(r, "capacity") \/ Refuse(r, "scope")
      BY <2>1, <2>2, RefuseClean
    <2>3. CASE UNCHANGED <<lines, answer>>
      BY <2>1, <2>3 DEF CleanOf, Asking
    <2> QED BY <1>3, <2>2, <2>3 DEF Room, Permit
  <1>4. CASE Journal(r) \/ Record(r) \/ Launch(r)
    <2>1. answer[r] \notin {"capacity", "scope"}
      BY <1>4 DEF CleanOf, Journal, Record, Launch
    <2>2. answer'[r] \in {answer[r], "unwritable", "failed", "started"}
      BY <1>4 DEF Journal, Record, Launch, Fail, Typed
    <2>3. pc'[r] \notin Asking
      BY <1>4 DEF Journal, Record, Launch, Fail, Typed, Asking
    <2> QED BY <2>1, <2>2, <2>3 DEF CleanOf
  <1>5. CASE Leave(r) \/ Cancel(r) \/ Release(r) \/ EngineEnds(r) \/ CloseLog(r)
    <2>1. UNCHANGED <<lines, made, answer>>
      BY <1>5 DEF Leave, Cancel, Release, EngineEnds, CloseLog, gate
    <2>2. pc'[r] \notin Asking
      BY <1>5 DEF Leave, Cancel, Release, EngineEnds, CloseLog, Typed, Asking
    <2>3. answer[r] \in {"capacity", "scope"} => pc'[r] \in {"leave", "done"}
      BY <1>5 DEF CleanOf, Leave, Cancel, Release, EngineEnds, CloseLog, Typed, Asking
    <2> QED BY <2>1, <2>2, <2>3 DEF CleanOf
  <1> QED BY <1>1, <1>2, <1>3, <1>4, <1>5 DEF Serve

\* Every step keeps the invariant of refusals.
LEMMA CleanStep == Typed /\ Clean /\ [Next]_vars => Clean'
  <1> SUFFICES ASSUME Typed, Clean, [Next]_vars, NEW s \in Requests PROVE CleanOf(s)'
    BY DEF Clean
  <1>1. CleanOf(s)
    BY DEF Clean
  <1>2. CASE UNCHANGED vars
    BY <1>1, <1>2 DEF vars, gate, request, CleanOf, Started, Refused
  <1>3. ASSUME NEW r \in Requests, Arrive(r) \/ Serve(r) \/ Cancel(r) \/ EngineEnds(r)
        PROVE  CleanOf(s)'
    <2>1. CASE r = s
      BY <1>1, <1>3, <2>1, OwnClean
    <2>2. CASE r # s
      BY <1>1, <1>3, <2>2, OthersClean
    <2> QED BY <2>1, <2>2
  <1> QED BY <1>2, <1>3 DEF Next

-----------------------------------------------------------------------------

\* The inductive invariant holds throughout: what a request has in each phase,
\* from its slot to its line in the audit, and how many slots are held.
THEOREM Invariance == Spec => []Inv
  <1>1. Inv /\ [Next]_vars => Inv'
    BY TypedStep, SlotStep, ThroughStep DEF Inv
  <1> QED BY InitHolds, <1>1, PTL DEF Spec

\* Every variable keeps its type; the count is never negative.
THEOREM TypeCorrect == Spec => []TypeOK
  <1>1. Inv => TypeOK
    BY FS_CardinalityType DEF Inv, Typed, SlotInv, TypeOK
  <1> QED BY Invariance, <1>1, PTL

\* The count is always the number of slots held: none is leaked and none is
\* given back twice, on any way out.
THEOREM NoSlotLeaks == Spec => []SlotsCounted
  <1>1. Inv => SlotsCounted
    BY DEF Inv, SlotInv, SlotsCounted
  <1> QED BY Invariance, <1>1, PTL

\* However many requests race for it, the ceiling is never passed.
THEOREM NeverAboveCeiling == Spec => []CeilingHolds
  <1>1. Inv => CeilingHolds
    <2> SUFFICES ASSUME Inv PROVE Cardinality(OnWire) <= Ceiling
      BY DEF CeilingHolds
    <2>1. OnWire \in SUBSET Holders
      BY DEF OnWire, Holders, Inv, SlotInv, Running
    <2>2. IsFiniteSet(OnWire) /\ Cardinality(OnWire) <= Cardinality(Holders)
      BY <2>1, FS_Subset DEF Inv, SlotInv
    <2>3. Cardinality(OnWire) \in Nat /\ Cardinality(Holders) \in Nat
      BY <2>2, FS_CardinalityType DEF Inv, SlotInv
    <2> QED BY <2>2, <2>3, GateAssumption DEF Inv, SlotInv
  <1> QED BY Invariance, <1>1, PTL

\* No scan is on the wire that the audit does not hold a line for.
THEOREM AlwaysWrittenDown == Spec => []NothingUnaudited
  <1>1. Inv => NothingUnaudited
    BY DEF Inv, Through, NothingUnaudited, OnWire
  <1> QED BY Invariance, <1>1, PTL

\* No scan is on the wire outside the policy, started or resumed.
THEOREM NeverOutside == Spec => []NothingOutside
  <1>1. Inv => NothingOutside
    <2> SUFFICES ASSUME Inv, NEW r \in OnWire
                 PROVE  dialled[r] \subseteq Allowed /\ dialled[r] \cap Denied = {}
      BY DEF NothingOutside
    <2>1. Outside(dialled[r]) = {}
      BY DEF OnWire, Inv, Through
    <2> QED BY <2>1 DEF Outside
  <1> QED BY Invariance, <1>1, PTL

\* Who was refused for room or for reach was written down first, was never
\* written down as started, and left no record.
THEOREM RefusedLeaveNothing == Spec => []RefusalsAreClean
  <1>1. Inv => Typed
    BY DEF Inv
  <1>2. Clean => RefusalsAreClean
    BY DEF Clean, CleanOf, RefusalsAreClean
  <1> QED BY Invariance, InitClean, CleanStep, <1>1, <1>2, PTL DEF Spec

-----------------------------------------------------------------------------
(* The gate implements GatePromise.                                        *)

\* What a request was told and what is written of it, by where it is: nothing
\* yet until it is let in or turned away, and something when it leaves.
SpokenOf(r) ==
    /\ pc[r] \in Asking \cup {"journal", "record"} =>
         /\ answer[r] = "none"
         /\ Started(r) \notin lines /\ Refused(r) \notin lines
    /\ pc[r] = "launch" => answer[r] = "none"
    /\ pc[r] = "leave" => answer[r] # "none" /\ (answer[r] = "capacity" => ~held[r])
Spoken == \A r \in Requests : SpokenOf(r)

\* Nothing was said before anything was asked.
LEMMA InitSpoken == Init => Spoken
  BY DEF Init, Spoken, SpokenOf, Asking

\* A request's step is its own: the others stay where they are.
LEMMA OthersStay ==
    ASSUME Typed, NEW r \in Requests, NEW s \in Requests, s # r,
           Arrive(r) \/ Serve(r) \/ Cancel(r) \/ EngineEnds(r)
    PROVE  /\ pc'[s] = pc[s] /\ loaded'[s] = loaded[s] /\ held'[s] = held[s]
           /\ answer'[s] = answer[s]
           /\ Started(s) \in lines' <=> Started(s) \in lines
           /\ Refused(s) \in lines' <=> Refused(s) \in lines
  <1> USE DEF Typed, Goto, Fail, Refuse, gate
  <1>1. pc'[s] = pc[s] /\ answer'[s] = answer[s]
    <2>1. CASE Arrive(r) \/ Load(r) \/ Claim(r) \/ Find(r)
      BY <2>1 DEF Arrive, Load, Claim, Find
    <2>2. CASE Room(r) \/ Read(r) \/ Permit(r)
      BY <2>2 DEF Room, Read, Permit
    <2>3. CASE Journal(r) \/ Record(r) \/ Launch(r)
      BY <2>3 DEF Journal, Record, Launch
    <2>4. CASE Leave(r) \/ Cancel(r) \/ Release(r) \/ EngineEnds(r) \/ CloseLog(r)
      BY <2>4 DEF Leave, Cancel, Release, EngineEnds, CloseLog
    <2> QED BY <2>1, <2>2, <2>3, <2>4 DEF Serve
  <1>2. loaded'[s] = loaded[s] /\ held'[s] = held[s]
    <2>1. CASE Arrive(r) \/ Load(r) \/ Claim(r) \/ Find(r)
      BY <2>1 DEF Arrive, Load, Claim, Find
    <2>2. CASE Room(r) \/ Read(r) \/ Permit(r)
      BY <2>2 DEF Room, Read, Permit
    <2>3. CASE Journal(r) \/ Record(r) \/ Launch(r)
      BY <2>3 DEF Journal, Record, Launch
    <2>4. CASE Leave(r) \/ Cancel(r) \/ Release(r) \/ EngineEnds(r) \/ CloseLog(r)
      BY <2>4 DEF Leave, Cancel, Release, EngineEnds, CloseLog, LetGo
    <2> QED BY <2>1, <2>2, <2>3, <2>4 DEF Serve
  <1>3. lines' \in {lines, lines \cup {Started(r)}, lines \cup {Refused(r)}}
    <2>1. CASE Room(r) \/ Permit(r) \/ Record(r)
      BY <2>1 DEF Room, Permit, Record
    <2>2. CASE Arrive(r) \/ Load(r) \/ Claim(r) \/ Find(r) \/ Read(r)
      BY <2>2 DEF Arrive, Load, Claim, Find, Read
    <2>3. CASE Journal(r) \/ Launch(r) \/ Leave(r) \/ Cancel(r) \/ Release(r)
               \/ EngineEnds(r) \/ CloseLog(r)
      BY <2>3 DEF Journal, Launch, Leave, Cancel, Release, EngineEnds, CloseLog
    <2> QED BY <2>1, <2>2, <2>3 DEF Serve
  <1>4. Started(s) # Started(r) /\ Refused(s) # Refused(r) /\ Started(s) # Refused(r)
        /\ Refused(s) # Started(r)
    BY LinesDiffer
  <1> QED BY <1>1, <1>2, <1>3, <1>4

\* A request's own step keeps what was said of it.
LEMMA OwnSpoken ==
    ASSUME Inv, NEW r \in Requests, SpokenOf(r),
           Arrive(r) \/ Serve(r) \/ Cancel(r) \/ EngineEnds(r)
    PROVE  SpokenOf(r)'
  <1> USE DEF Goto
  <1>t. Typed /\ (pc[r] \in Running => held[r])
    BY DEF Inv, SlotInv
  <1>1. CASE Arrive(r) \/ Load(r) \/ Claim(r)
    <2>1. pc[r] \in Asking /\ UNCHANGED <<lines, answer>>
      BY <1>1 DEF Arrive, Load, Claim, Asking, gate
    <2>2. pc'[r] \in Asking
      BY <1>1, <1>t DEF Arrive, Load, Claim, Claimed, Asking, Typed
    <2> QED BY <2>1, <2>2 DEF SpokenOf, Started, Refused, Asking
  <1>2. CASE Find(r) \/ Read(r)
    <2>1. pc[r] \in Asking /\ UNCHANGED lines
      BY <1>2 DEF Find, Read, Asking, gate
    <2>2. \/ pc'[r] \in Asking /\ answer'[r] = answer[r]
          \/ pc'[r] = "leave" /\ answer'[r] = "failed"
      BY <1>2, <1>t DEF Find, Read, Fail, Typed, Asking
    <2> QED BY <2>1, <2>2 DEF SpokenOf, Started, Refused, Asking
  <1>3. CASE Room(r) \/ Permit(r)
    <2>1. pc[r] \in Asking /\ answer[r] = "none"
      BY <1>3 DEF Room, Permit, Asking, SpokenOf
    <2>2. \/ pc'[r] \in Asking \cup {"journal", "record"} /\ UNCHANGED <<lines, answer>>
          \/ pc'[r] = "leave" /\ answer'[r] \in {"scope", "unwritable"}
          \/ pc'[r] = "leave" /\ answer'[r] = "capacity" /\ ~held'[r]
      BY <1>3, <1>t DEF Room, Permit, Refuse, Fail, Typed, Asking
    <2> QED BY <2>1, <2>2 DEF SpokenOf, Started, Refused, Asking
  <1>4. CASE Journal(r)
    <2>1. pc[r] = "journal" /\ pc'[r] = "record" /\ UNCHANGED <<lines, answer>>
      BY <1>4, <1>t DEF Journal, Typed
    <2> QED BY <2>1 DEF SpokenOf, Started, Refused, Asking
  <1>5. CASE Record(r)
    <2>1. /\ pc[r] = "record"
          /\ \/ pc'[r] = "launch" /\ answer'[r] = answer[r]
             \/ pc'[r] = "leave" /\ answer'[r] = "unwritable"
      BY <1>5, <1>t DEF Record, Fail, Typed
    <2> QED BY <2>1 DEF SpokenOf, Asking
  <1>6. CASE Launch(r)
    <2>1. \/ pc'[r] = "running"
          \/ pc'[r] = "leave" /\ answer'[r] = "failed"
      BY <1>6, <1>t DEF Launch, Fail, Typed
    <2> QED BY <2>1 DEF SpokenOf, Asking
  <1>7. CASE Leave(r) \/ Cancel(r) \/ Release(r) \/ EngineEnds(r) \/ CloseLog(r)
    <2>1. pc'[r] \in {"done", "ended", "over"}
      BY <1>7, <1>t DEF Leave, Cancel, Release, EngineEnds, CloseLog, Typed
    <2> QED BY <2>1 DEF SpokenOf, Asking
  <1> QED BY <1>1, <1>2, <1>3, <1>4, <1>5, <1>6, <1>7 DEF Serve

\* Every step keeps what was said.
LEMMA SpokenStep == Inv /\ Spoken /\ [Next]_vars => Spoken'
  <1> SUFFICES ASSUME Inv, Spoken, [Next]_vars, NEW s \in Requests PROVE SpokenOf(s)'
    BY DEF Spoken
  <1>1. SpokenOf(s) /\ Typed
    BY DEF Spoken, Inv
  <1>2. CASE UNCHANGED vars
    BY <1>1, <1>2 DEF vars, gate, request, SpokenOf, Started, Refused
  <1>3. ASSUME NEW r \in Requests, Arrive(r) \/ Serve(r) \/ Cancel(r) \/ EngineEnds(r)
        PROVE  SpokenOf(s)'
    <2>1. CASE r = s
      BY <1>1, <1>3, <2>1, OwnSpoken
    <2>2. CASE r # s
      <3>1. /\ pc'[s] = pc[s] /\ held'[s] = held[s] /\ answer'[s] = answer[s]
            /\ Started(s) \in lines' <=> Started(s) \in lines
            /\ Refused(s) \in lines' <=> Refused(s) \in lines
        BY <1>1, <1>3, <2>2, OthersStay
      <3> QED BY <1>1, <3>1 DEF SpokenOf, Started, Refused
    <2> QED BY <2>1, <2>2
  <1> QED BY <1>2, <1>3 DEF Next

\* Where each request stands with the gate.
Turns == [r \in Requests |-> TurnOf(r)]

\* Who stands inside is who holds a slot.
LEMMA InsideHolds == Inv => Promise!Inside = Holders
  <1> SUFFICES ASSUME Inv, NEW r \in Requests
               PROVE  TurnOf(r) \in {"inside", "running"} <=> held[r]
    BY DEF Promise!Inside, Holders
  <1>1. /\ pc[r] \in Before => ~held[r]
        /\ pc[r] \in Running => held[r]
    BY DEF Inv, SlotInv
  <1> QED BY <1>1 DEF TurnOf, Before, Running

\* A step of one request moves its own turn alone.
LEMMA OneTurn ==
    ASSUME Typed, NEW r \in Requests, NEW turn, TurnOf(r)' = turn,
           Arrive(r) \/ Serve(r) \/ Cancel(r) \/ EngineEnds(r)
    PROVE  Turns' = [Turns EXCEPT ![r] = turn]
  <1>1. \A s \in Requests \ {r} : TurnOf(s)' = TurnOf(s)
    BY OthersStay DEF TurnOf
  <1> QED BY <1>1 DEF Turns

\* Moving from one turn to another, as GatePromise says it.
LEMMA MovesOn ==
    ASSUME Typed, NEW r \in Requests, NEW from, NEW to, TurnOf(r) = from, TurnOf(r)' = to,
           Arrive(r) \/ Serve(r) \/ Cancel(r) \/ EngineEnds(r)
    PROVE  Promise!Moves(r, from, to)
  <1>1. Turns' = [Turns EXCEPT ![r] = to] /\ Turns[r] = from
    BY OneTurn DEF Turns
  <1> QED BY <1>1 DEF Promise!Moves, Turns

\* A step that leaves the turn of its request where it was.
LEMMA StaysPut ==
    ASSUME Typed, NEW r \in Requests, TurnOf(r)' = TurnOf(r),
           Arrive(r) \/ Serve(r) \/ Cancel(r) \/ EngineEnds(r)
    PROVE  Turns' = Turns
  <1>1. \A s \in Requests \ {r} : TurnOf(s)' = TurnOf(s)
    BY OthersStay DEF TurnOf
  <1> QED BY <1>1 DEF Turns

\* The answer to a request that failed or was refused on its way, as
\* GatePromise says it.
LEMMA AnswersFail ==
    ASSUME Typed, NEW r \in Requests, NEW why \in {"unwritable", "failed"},
           TurnOf(r) \in {"inside", "outside"}, Turns' = Turns, answer[r] = "none",
           answer' = [answer EXCEPT ![r] = why], lines' = lines
    PROVE  Promise!Fail(r, why)
  <1>1. Turns[r] = TurnOf(r)
    BY DEF Turns
  <1> QED BY <1>1 DEF Promise!Fail, Promise!Tell, Turns

\* The same of a refusal, which is written down or found unwritable.
LEMMA AnswersRefuse ==
    ASSUME Typed, NEW r \in Requests, NEW why \in {"capacity", "scope"},
           TurnOf(r) = IF why = "capacity" THEN "outside" ELSE "inside",
           Turns' = Turns, answer[r] = "none", Started(r) \notin lines, Refuse(r, why)
    PROVE  Promise!Refuse(r, why) \/ Promise!Fail(r, "unwritable")
  <1>1. Turns[r] = TurnOf(r) /\ TurnOf(r) \in {"inside", "outside"}
    BY DEF Turns
  <1>2. CASE answer' = [answer EXCEPT ![r] = why] /\ lines' = lines \cup {Refused(r)}
    BY <1>1, <1>2 DEF Promise!Refuse, Promise!Tell, Turns, Started, Refused
  <1>3. CASE answer' = [answer EXCEPT ![r] = "unwritable"] /\ lines' = lines
    BY <1>1, <1>3, AnswersFail
  <1> QED BY <1>2, <1>3 DEF Refuse, Fail

\* The initial states are the promise's.
LEMMA PromiseInit == Init => Promise!Init
  BY DEF Init, Promise!Init, TurnOf

\* Counting is the same there as here.
LEMMA SameCount == \A S : Promise!Cardinality(S) = Cardinality(S)
  BY DEF Promise!Cardinality, Cardinality

\* Claiming: a request that gets a slot finds room for it, and one that is
\* turned away has found none.
LEMMA ClaimPromised ==
    ASSUME Inv, NEW r \in Requests, Load(r) \/ Claim(r)
    PROVE  Promise!Admit(r) \/ Promise!TurnAway(r) \/ UNCHANGED Promise!vars
  <1>t. /\ Typed /\ taken \in Nat /\ Ceiling \in Nat /\ loaded[r] \in Nat
        /\ taken = Cardinality(Promise!Inside)
        /\ pc \in [Requests -> Phases] /\ held \in [Requests -> BOOLEAN]
        /\ loaded \in [Requests -> Nat]
    BY InsideHolds, FS_CardinalityType, GateAssumption DEF Inv, SlotInv, Typed
  <1>0. ~held[r] /\ UNCHANGED <<lines, answer>>
    BY DEF Inv, SlotInv, Before, Load, Claim, gate
  <1>s. Arrive(r) \/ Serve(r) \/ Cancel(r) \/ EngineEnds(r)
    BY DEF Serve
  <1>1. CASE TurnOf(r)' = TurnOf(r)
    BY <1>0, <1>1, <1>s, <1>t, StaysPut DEF Promise!vars, Turns
  <1>2. ASSUME TurnOf(r) = "asking", TurnOf(r)' = "outside", taken >= Ceiling
        PROVE  Promise!TurnAway(r)
    <2>1. Promise!Moves(r, "asking", "outside")
      BY <1>2, <1>s, <1>t, MovesOn
    <2> QED BY <1>0, <1>2, <1>t, <2>1, SameCount DEF Promise!TurnAway
  <1>3. ASSUME TurnOf(r) = "asking", TurnOf(r)' = "inside", taken < Ceiling
        PROVE  Promise!Admit(r)
    <2>1. Promise!Moves(r, "asking", "inside")
      BY <1>3, <1>s, <1>t, MovesOn
    <2> QED BY <1>0, <1>3, <1>t, <2>1, SameCount DEF Promise!Admit
  <1>4. CASE Load(r)
    <2>1. pc'[r] = "claim" /\ loaded'[r] = taken /\ TurnOf(r) = "asking"
      BY <1>4, <1>t DEF Load, Goto, TurnOf
    <2>2. TurnOf(r)' = IF taken < Ceiling THEN "asking" ELSE "outside"
      BY <1>0, <1>4, <2>1 DEF TurnOf, Load
    <2> QED BY <1>1, <1>2, <1>t, <2>1, <2>2
  <1>5. CASE Claim(r) /\ loaded[r] >= Ceiling
    <2>1. pc'[r] \in {"find", "room"} /\ ~held'[r] /\ TurnOf(r) = "outside"
      BY <1>0, <1>5, <1>t DEF Claim, Goto, Claimed, TurnOf
    <2>2. TurnOf(r)' = "outside"
      BY <2>1 DEF TurnOf
    <2> QED BY <1>1, <2>1, <2>2
  <1>6. CASE Claim(r) /\ loaded[r] < Ceiling
    <2>1. pc[r] = "claim" /\ TurnOf(r) = "asking"
      BY <1>6 DEF Claim, TurnOf
    <2>2. CASE loaded[r] = taken /\ held' = [held EXCEPT ![r] = TRUE] /\ Goto(r, Claimed(r))
      <3>1. pc'[r] \in {"find", "room"} /\ held'[r]
        BY <1>t, <2>2 DEF Goto, Claimed
      <3>2. TurnOf(r)' = "inside"
        BY <3>1 DEF TurnOf
      <3> QED BY <1>3, <1>6, <2>1, <2>2, <3>2
    <2>3. CASE loaded' = [loaded EXCEPT ![r] = taken] /\ UNCHANGED <<held, pc>>
      <3>1. TurnOf(r)' = IF taken < Ceiling THEN "asking" ELSE "outside"
        BY <1>0, <1>t, <2>1, <2>3 DEF TurnOf
      <3> QED BY <1>1, <1>2, <1>t, <2>1, <3>1
    <2> QED BY <1>6, <2>2, <2>3, <1>t DEF Claim
  <1> QED BY <1>4, <1>5, <1>6, <1>t

\* Being let through or refused, and recorded.
LEMMA JudgedPromised ==
    ASSUME Inv, NEW r \in Requests, SpokenOf(r),
           Find(r) \/ Room(r) \/ Read(r) \/ Permit(r) \/ Journal(r)
    PROVE  \/ \E why \in {"capacity", "scope", "unwritable", "failed"} :
                 Promise!Refuse(r, why) \/ Promise!Fail(r, why)
           \/ UNCHANGED Promise!vars
  <1>s. Arrive(r) \/ Serve(r) \/ Cancel(r) \/ EngineEnds(r)
    BY DEF Serve
  <1>t. /\ Typed /\ pc \in [Requests -> Phases] /\ UNCHANGED held
        /\ pc[r] \in Running => held[r]
    BY DEF Inv, SlotInv, Typed, Find, Room, Read, Permit, Journal
  <1>0. /\ pc[r] \in {"find", "room", "read", "permit", "journal"}
        /\ answer[r] = "none" /\ Started(r) \notin lines
    BY DEF Find, Room, Read, Permit, Journal, SpokenOf, Asking
  <1>1. TurnOf(r) = IF held[r] THEN "inside" ELSE "outside"
    BY <1>0 DEF TurnOf
  <1>2. pc'[r] \in {"room", "read", "permit", "journal", "record", "leave"}
    BY <1>t DEF Find, Room, Read, Permit, Journal, Refuse, Fail, Goto
  <1>3. TurnOf(r)' = TurnOf(r)
    BY <1>t, <1>1, <1>2 DEF TurnOf
  <1>4. Turns' = Turns
    BY <1>s, <1>t, <1>3, StaysPut
  <1>5. CASE UNCHANGED <<lines, answer>>
    BY <1>4, <1>5 DEF Promise!vars, Turns
  <1>6. CASE lines' = lines /\ answer' = [answer EXCEPT ![r] = "failed"]
    BY <1>t, <1>0, <1>1, <1>4, <1>6, AnswersFail
  <1>7. CASE Room(r) /\ ~held[r]
    <2>1. Refuse(r, "capacity")
      BY <1>7 DEF Room
    <2> QED BY <1>t, <1>0, <1>1, <1>4, <1>7, <2>1, AnswersRefuse
  <1>8. CASE Permit(r) /\ Refuse(r, "scope")
    <2>1. held[r]
      BY <1>t, <1>8 DEF Permit, Running
    <2> QED BY <1>t, <1>0, <1>1, <1>4, <1>8, <2>1, AnswersRefuse
  <1>9. \/ UNCHANGED <<lines, answer>>
        \/ lines' = lines /\ answer' = [answer EXCEPT ![r] = "failed"]
        \/ Room(r) /\ ~held[r]
        \/ Permit(r) /\ Refuse(r, "scope")
    BY <1>t DEF Find, Room, Read, Permit, Journal, Fail, gate
  <1> QED BY <1>5, <1>6, <1>7, <1>8, <1>9

\* Writing down, starting, and letting go.
LEMMA RunPromised ==
    ASSUME Inv, NEW r \in Requests, SpokenOf(r),
           \/ Record(r) \/ Launch(r) \/ EngineEnds(r) \/ CloseLog(r)
           \/ Leave(r) \/ Cancel(r) \/ Release(r)
    PROVE  \/ Promise!WriteDown(r) \/ Promise!Run(r) \/ Promise!End(r) \/ Promise!Leave(r)
           \/ \E why \in {"capacity", "scope", "unwritable", "failed"} :
                 Promise!Refuse(r, why) \/ Promise!Fail(r, why)
           \/ UNCHANGED Promise!vars
  <1>s. Arrive(r) \/ Serve(r) \/ Cancel(r) \/ EngineEnds(r)
    BY DEF Serve
  <1>t. /\ Typed /\ pc \in [Requests -> Phases]
        /\ pc[r] \in Running => held[r]
        /\ pc[r] \in {"launch", "running"} => Started(r) \in lines
    BY DEF Inv, SlotInv, Typed, Through
  <1>1. CASE Record(r)
    <2>1. /\ pc[r] = "record" /\ held[r] /\ UNCHANGED held
          /\ answer[r] = "none" /\ Started(r) \notin lines /\ Refused(r) \notin lines
      BY <1>1, <1>t DEF Record, Running, SpokenOf
    <2>2. pc'[r] \in {"launch", "leave"}
      BY <1>1, <1>t DEF Record, Fail, Goto
    <2>3. TurnOf(r) = "inside" /\ TurnOf(r)' = "inside"
      BY <2>1, <2>2 DEF TurnOf
    <2>4. Turns' = Turns /\ Turns[r] = "inside"
      BY <1>s, <1>t, <2>3, StaysPut DEF Turns
    <2>5. CASE lines' = lines \cup {Started(r)} /\ answer' = answer
      BY <2>1, <2>4, <2>5 DEF Promise!WriteDown, Turns, Started, Refused
    <2>6. CASE lines' = lines /\ answer' = [answer EXCEPT ![r] = "unwritable"]
      BY <1>t, <2>1, <2>3, <2>4, <2>6, AnswersFail
    <2> QED BY <1>1, <2>5, <2>6 DEF Record, Fail
  <1>2. CASE Launch(r)
    <2>1. /\ pc[r] = "launch" /\ held[r] /\ UNCHANGED <<held, lines>>
          /\ answer[r] = "none" /\ Started(r) \in lines
      BY <1>2, <1>t DEF Launch, Running, SpokenOf, gate
    <2>2. TurnOf(r) = "inside"
      BY <2>1 DEF TurnOf
    <2>3. CASE Goto(r, "running") /\ answer' = [answer EXCEPT ![r] = "started"]
      <3>1. TurnOf(r)' = "running"
        BY <1>t, <2>3 DEF Goto, TurnOf
      <3>2. Promise!Moves(r, "inside", "running")
        BY <1>s, <1>t, <2>2, <3>1, MovesOn
      <3> QED BY <2>1, <2>3, <3>2 DEF Promise!Run, Started
    <2>4. CASE Fail(r, "failed")
      <3>1. TurnOf(r)' = "inside"
        BY <1>t, <2>1, <2>4 DEF Fail, Goto, TurnOf
      <3>2. Turns' = Turns
        BY <1>s, <1>t, <2>2, <3>1, StaysPut
      <3> QED BY <1>t, <2>1, <2>2, <2>4, <3>2, AnswersFail DEF Fail
    <2> QED BY <1>2, <2>3, <2>4 DEF Launch
  <1>3. CASE EngineEnds(r)
    <2>1. TurnOf(r) = "running" /\ TurnOf(r)' = "inside"
      BY <1>3, <1>t DEF EngineEnds, Goto, TurnOf, Running
    <2>2. Promise!Moves(r, "running", "inside") /\ UNCHANGED <<lines, answer>>
      BY <1>3, <1>s, <1>t, <2>1, MovesOn DEF EngineEnds
    <2> QED BY <2>2 DEF Promise!End
  <1>4. CASE CloseLog(r)
    <2>1. TurnOf(r)' = TurnOf(r) /\ UNCHANGED <<lines, answer>>
      BY <1>4, <1>t DEF CloseLog, Goto, TurnOf, gate
    <2> QED BY <1>s, <1>t, <2>1, StaysPut DEF Promise!vars, Turns
  <1>5. CASE Leave(r) \/ Cancel(r) \/ Release(r)
    <2>1. UNCHANGED <<lines, answer>> /\ pc'[r] = "done"
      BY <1>5, <1>t DEF Leave, Cancel, Release, Goto
    <2>2. TurnOf(r)' = "gone"
      BY <2>1 DEF TurnOf
    <2>3. CASE held[r]
      <3>1. TurnOf(r) = "inside"
        BY <1>5, <2>3 DEF Leave, Cancel, Release, TurnOf
      <3>2. Promise!Moves(r, "inside", "gone")
        BY <1>s, <1>t, <2>2, <3>1, MovesOn
      <3> QED BY <2>1, <3>2 DEF Promise!Leave
    <2>4. CASE ~held[r]
      <3>1. pc[r] = "leave" /\ answer[r] # "none"
        BY <1>5, <1>t, <2>4 DEF Leave, Cancel, Release, Running, SpokenOf
      <3>2. TurnOf(r) = "outside"
        BY <2>4, <3>1 DEF TurnOf
      <3>3. Promise!Moves(r, "outside", "gone")
        BY <1>s, <1>t, <2>2, <3>2, MovesOn
      <3> QED BY <2>1, <3>1, <3>3 DEF Promise!Leave
    <2> QED BY <2>3, <2>4
  <1> QED BY <1>1, <1>2, <1>3, <1>4, <1>5

\* Every step of the gate is one of the promise's, or none.
LEMMA PromiseStep == Inv /\ Spoken /\ [Next]_vars => [Promise!Next]_(Promise!vars)
  <1> SUFFICES ASSUME Inv, Spoken, [Next]_vars PROVE [Promise!Next]_(Promise!vars)
    OBVIOUS
  <1>1. CASE UNCHANGED vars
    BY <1>1 DEF vars, gate, request, Promise!vars, TurnOf
  <1>2. ASSUME NEW r \in Requests, Arrive(r) PROVE UNCHANGED Promise!vars
    <2>1. UNCHANGED <<lines, answer>> /\ TurnOf(r)' = TurnOf(r) /\ Typed
      BY <1>2 DEF Arrive, Goto, gate, TurnOf, Inv, Typed
    <2> QED BY <1>2, <2>1, StaysPut DEF Promise!vars, Turns
  <1>3. ASSUME NEW r \in Requests, Load(r) \/ Claim(r)
        PROVE  Promise!Admit(r) \/ Promise!TurnAway(r) \/ UNCHANGED Promise!vars
    BY <1>3, ClaimPromised
  <1>4. ASSUME NEW r \in Requests, Find(r) \/ Room(r) \/ Read(r) \/ Permit(r) \/ Journal(r)
        PROVE  \/ \E why \in {"capacity", "scope", "unwritable", "failed"} :
                     Promise!Refuse(r, why) \/ Promise!Fail(r, why)
               \/ UNCHANGED Promise!vars
    BY <1>4, JudgedPromised DEF Spoken
  <1>5. ASSUME NEW r \in Requests,
               \/ Record(r) \/ Launch(r) \/ EngineEnds(r) \/ CloseLog(r)
               \/ Leave(r) \/ Cancel(r) \/ Release(r)
        PROVE  \/ Promise!WriteDown(r) \/ Promise!Run(r) \/ Promise!End(r) \/ Promise!Leave(r)
               \/ \E why \in {"capacity", "scope", "unwritable", "failed"} :
                     Promise!Refuse(r, why) \/ Promise!Fail(r, why)
               \/ UNCHANGED Promise!vars
    BY <1>5, RunPromised DEF Spoken
  <1> QED BY <1>1, <1>2, <1>3, <1>4, <1>5 DEF Next, Serve, Promise!Next

\* The gate implements its promise: the claim, in as many steps as the race
\* for a slot takes it, is one look and one step; and each way through
\* start.rs is one of the promise's.
THEOREM GateKeepsPromise == Spec => KeepsPromise
  <1>1. Inv /\ Spoken /\ [Next]_vars => Spoken'
    BY SpokenStep
  <1> QED BY Invariance, InitSpoken, <1>1, PromiseInit, PromiseStep, PTL
          DEF Spec, KeepsPromise, Promise!Spec

=============================================================================
