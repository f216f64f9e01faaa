----------------------------- MODULE DaemonProofs -----------------------------
(***************************************************************************)
(* Proofs about Daemon, for any number of processes and any groups, where  *)
(* one starts up at a time.                                                *)
(***************************************************************************)
EXTENDS Daemon, TLAPS

\* At most one is starting; from its bind until it takes the file away the
\* path leads to it; and once it has decided to clear or to bind, nobody is
\* listening there.
Turns ==
    \A d, e \in Daemons : (pc[d] \in Starting /\ pc[e] \in Starting) => d = e

Placed ==
    /\ \A d \in Daemons : pc[d] \in Bound => at = d
    /\ \A d \in Daemons : pc[d] = "close" => at # d
    /\ \A d \in Daemons : pc[d] = "bind" => at = Nothing
    /\ \A d \in Daemons : pc[d] = "clear" => \A e \in Daemons : pc[e] \notin Bound

Permitted ==
    \A d \in Daemons :
        /\ pc[d] = "give" => mode[d] # "shared"
        /\ pc[d] \in {"give", "widen", "sweep"} => mode[d] # "wide"
        /\ pc[d] = "widen" => gid[d] = named[d]
        /\ pc[d] \in {"off", "look", "knock", "clear", "bind", "piped"} => mode[d] # "shared"
        /\ mode[d] = "shared" => gid[d] = named[d]
        /\ pc[d] = "serve" =>
             IF named[d] = NoGroup
             THEN mode[d] = "owner"
             ELSE mode[d] = "shared" /\ gid[d] = named[d]

Ended == \A d \in Daemons : end[d] # "taken"

Inv == TypeOK /\ Turns /\ Placed /\ Permitted /\ Ended

\* Nothing is started at first.
LEMMA InitHolds == Init => Inv
  BY DaemonAssumption
     DEF Init, Inv, TypeOK, Turns, Placed, Permitted, Ended, Phases, Starting, Bound,
         Ends, Files

\* Each step of a daemon keeps the types.
LEMMA TypeStep == TypeOK /\ [Next]_vars => TypeOK'
  <1> SUFFICES ASSUME TypeOK, [Next]_vars PROVE TypeOK'
    OBVIOUS
  <1> USE DEF TypeOK, Goto, Stop, Phases, Starting, Ends
  <1>0. CASE UNCHANGED vars
    BY <1>0 DEF vars
  <1>1. ASSUME NEW d \in Daemons, Begin(d) PROVE TypeOK'
    BY <1>1 DEF Begin
  <1>2. ASSUME NEW d \in Daemons, HangUp(d) \/ Look(d) PROVE TypeOK'
    BY <1>2 DEF HangUp, Look
  <1>3. ASSUME NEW d \in Daemons, Knock(d) PROVE TypeOK'
    BY <1>3 DEF Knock
  <1>4. ASSUME NEW d \in Daemons, Clear(d) PROVE TypeOK'
    BY <1>4 DEF Clear
  <1>5. ASSUME NEW d \in Daemons, Bind(d) PROVE TypeOK'
    <2>1. CASE at # Nothing
      BY <1>5, <2>1 DEF Bind
    <2>2. CASE at = Nothing
      <3>1. /\ at' = d /\ mode' = [mode EXCEPT ![d] = "wide"]
            /\ gid' = [gid EXCEPT ![d] = Own] /\ pc' = [pc EXCEPT ![d] = "narrow"]
            /\ UNCHANGED <<named, end>>
        BY <1>5, <2>2 DEF Bind
      <3> QED BY <3>1 DEF Files
    <2> QED BY <2>1, <2>2
  <1>6. ASSUME NEW d \in Daemons, Narrow(d) PROVE TypeOK'
    <2>1. pc' \in [Daemons -> Phases] /\ end' \in [Daemons -> Ends]
      BY <1>6 DEF Narrow
    <2>2. mode' \in [Files -> {"wide", "owner", "shared"}]
      <3>1. mode' = mode \/ mode' = [mode EXCEPT ![at] = "owner"]
        BY <1>6 DEF Narrow, AtPath
      <3> QED BY <3>1
    <2>3. UNCHANGED <<named, at, gid>>
      BY <1>6 DEF Narrow
    <2>4. \A e \in Daemons : pc'[e] \in {"give", "widen"} => named'[e] # NoGroup
      BY <1>6 DEF Narrow
    <2> QED BY <2>1, <2>2, <2>3, <2>4
  <1>7. ASSUME NEW d \in Daemons, Give(d) PROVE TypeOK'
    <2>1. pc' \in [Daemons -> Phases] /\ end' \in [Daemons -> Ends]
      BY <1>7 DEF Give
    <2>2. gid' \in [Files -> Groups \cup {Own}]
      <3>1. gid' = gid \/ gid' = [gid EXCEPT ![at] = named[d]]
        BY <1>7 DEF Give, AtPath
      <3>2. named[d] \in Groups
        BY <1>7 DEF Give
      <3> QED BY <3>1, <3>2
    <2>3. UNCHANGED <<named, at, mode>>
      BY <1>7 DEF Give
    <2>4. \A e \in Daemons : pc'[e] \in {"give", "widen"} => named'[e] # NoGroup
      BY <1>7 DEF Give
    <2> QED BY <2>1, <2>2, <2>3, <2>4
  <1>8. ASSUME NEW d \in Daemons, Widen(d) PROVE TypeOK'
    <2>1. pc' \in [Daemons -> Phases] /\ end' \in [Daemons -> Ends]
      BY <1>8 DEF Widen
    <2>2. mode' \in [Files -> {"wide", "owner", "shared"}]
      <3>1. mode' = mode \/ mode' = [mode EXCEPT ![at] = "shared"]
        BY <1>8 DEF Widen, AtPath
      <3> QED BY <3>1
    <2>3. UNCHANGED <<named, at, gid>>
      BY <1>8 DEF Widen
    <2>4. \A e \in Daemons : pc'[e] \in {"give", "widen"} => named'[e] # NoGroup
      BY <1>8 DEF Widen
    <2> QED BY <2>1, <2>2, <2>3, <2>4
  <1>9. ASSUME NEW d \in Daemons, AcceptFails(d) \/ Sweep(d) PROVE TypeOK'
    BY <1>9 DEF AcceptFails, Sweep
  <1>10. ASSUME NEW d \in Daemons, Close(d) \/ Kill(d) PROVE TypeOK'
    BY <1>10 DEF Close, Kill
  <1> QED BY <1>0, <1>1, <1>2, <1>3, <1>4, <1>5, <1>6, <1>7, <1>8, <1>9, <1>10 DEF Next

\* Each step keeps one daemon starting, the path with the one that bound it,
\* and the mode behind the group.
LEMMA InvStep == ASSUME ~Overlap PROVE Inv /\ [Next]_vars => Inv'
  <1> SUFFICES ASSUME Inv, [Next]_vars PROVE Inv'
    OBVIOUS
  <1>t. TypeOK /\ TypeOK'
    BY TypeStep DEF Inv
  <1> DEFINE Rest == Turns /\ Placed /\ Permitted /\ Ended
  <1>s. SUFFICES Rest'
    BY <1>t DEF Inv
  <1>i. Rest
    BY DEF Inv
  <1> USE <1>t, <1>i, DaemonAssumption DEF TypeOK, Goto, Stop, Starting, Bound
  <1>0. CASE UNCHANGED vars
    BY <1>0 DEF vars, Turns, Placed, Permitted, Ended
  <1>1. ASSUME NEW d \in Daemons, Begin(d) PROVE Rest'
    <2>1. Turns' /\ Ended'
      BY <1>1 DEF Begin, Turns, Ended
    <2>2. Placed'
      BY <1>1 DEF Begin, Placed
    <2>3. Permitted'
      BY <1>1 DEF Begin, Permitted
    <2> QED BY <2>1, <2>2, <2>3
  <1>2. ASSUME NEW d \in Daemons, HangUp(d) \/ Look(d) PROVE Rest'
    <2>1. Turns' /\ Ended'
      BY <1>2 DEF HangUp, Look, Turns, Ended
    <2>2. Placed'
      BY <1>2 DEF HangUp, Look, Placed
    <2>3. Permitted'
      BY <1>2 DEF HangUp, Look, Permitted
    <2> QED BY <2>1, <2>2, <2>3
  <1>3. ASSUME NEW d \in Daemons, Knock(d) PROVE Rest'
    <2>1. Turns' /\ Ended'
      BY <1>3 DEF Knock, Turns, Ended
    <2>2. pc'[d] = "clear" => \A e \in Daemons : pc[e] \notin Bound
      BY <1>3 DEF Knock, Listening, Placed
    <2>3. Placed'
      BY <1>3, <2>2 DEF Knock, Placed
    <2>4. Permitted'
      BY <1>3 DEF Knock, Permitted
    <2> QED BY <2>1, <2>3, <2>4
  <1>4. ASSUME NEW d \in Daemons, Clear(d) PROVE Rest'
    <2>1. Turns' /\ Ended'
      BY <1>4 DEF Clear, Turns, Ended
    <2>2. Placed'
      BY <1>4 DEF Clear, Placed, Turns
    <2>3. Permitted'
      BY <1>4 DEF Clear, Permitted
    <2> QED BY <2>1, <2>2, <2>3
  <1>5. ASSUME NEW d \in Daemons, Bind(d) PROVE Rest'
    <2>1. /\ pc[d] = "bind" /\ at = Nothing /\ at' = d
          /\ mode' = [mode EXCEPT ![d] = "wide"] /\ gid' = [gid EXCEPT ![d] = Own]
          /\ pc' = [pc EXCEPT ![d] = "narrow"] /\ end' = end /\ named' = named
      BY <1>5 DEF Bind, Placed
    <2>2. Turns' /\ Ended'
      BY <2>1 DEF Turns, Ended
    <2>3. Placed'
      BY <2>1 DEF Placed, Turns
    <2>4. Permitted'
      BY <2>1 DEF Permitted, Files
    <2> QED BY <2>2, <2>3, <2>4
  <1>6. ASSUME NEW d \in Daemons, Narrow(d) PROVE Rest'
    <2>1. at = d /\ d # Nothing /\ d \in Files
      BY <1>6 DEF Narrow, Placed, Files
    <2>2. Turns' /\ Ended'
      BY <1>6 DEF Narrow, Turns, Ended
    <2>3. Placed'
      BY <1>6 DEF Narrow, Placed
    <2>4. Permitted'
      BY <1>6, <2>1 DEF Narrow, AtPath, Permitted, Files
    <2> QED BY <2>2, <2>3, <2>4
  <1>7. ASSUME NEW d \in Daemons, Give(d) PROVE Rest'
    <2>1. at = d /\ d # Nothing /\ d \in Files
      BY <1>7 DEF Give, Placed, Files
    <2>2. Turns' /\ Ended'
      BY <1>7 DEF Give, Turns, Ended
    <2>3. Placed'
      BY <1>7 DEF Give, Placed
    <2>4. Permitted'
      BY <1>7, <2>1 DEF Give, AtPath, Permitted, Files
    <2> QED BY <2>2, <2>3, <2>4
  <1>8. ASSUME NEW d \in Daemons, Widen(d) PROVE Rest'
    <2>1. at = d /\ d # Nothing /\ d \in Files
      BY <1>8 DEF Widen, Placed, Files
    <2>2. Turns' /\ Ended'
      BY <1>8 DEF Widen, Turns, Ended
    <2>3. Placed'
      BY <1>8 DEF Widen, Placed
    <2>4. Permitted'
      BY <1>8, <2>1 DEF Widen, AtPath, Permitted, Files
    <2> QED BY <2>2, <2>3, <2>4
  <1>9. ASSUME NEW d \in Daemons, AcceptFails(d) \/ Sweep(d) PROVE Rest'
    <2>1. Turns' /\ Ended'
      BY <1>9 DEF AcceptFails, Sweep, Turns, Ended
    <2>2. Placed'
      BY <1>9 DEF AcceptFails, Sweep, Placed
    <2>3. Permitted'
      BY <1>9 DEF AcceptFails, Sweep, Permitted
    <2> QED BY <2>1, <2>2, <2>3
  <1>10. ASSUME NEW d \in Daemons, Close(d) \/ Kill(d) PROVE Rest'
    <2>1. Turns' /\ Ended'
      BY <1>10 DEF Close, Kill, Turns, Ended
    <2>2. Placed'
      BY <1>10 DEF Close, Kill, Placed
    <2>3. Permitted'
      BY <1>10 DEF Close, Kill, Permitted
    <2> QED BY <2>1, <2>2, <2>3
  <1> QED BY <1>0, <1>1, <1>2, <1>3, <1>4, <1>5, <1>6, <1>7, <1>8, <1>9, <1>10 DEF Next

\* Where daemons start one at a time the invariant holds throughout.
THEOREM Invariance == ASSUME ~Overlap PROVE Spec => []Inv
  <1>1. Inv /\ [Next]_vars => Inv'
    BY InvStep
  <1> QED BY InitHolds, <1>1, PTL DEF Spec

\* Every state of the daemons is well formed, however they start.
THEOREM TypesHold == Spec => []TypeOK
  <1>1. Init => TypeOK
    BY InitHolds DEF Inv
  <1> QED BY <1>1, TypeStep, PTL DEF Spec

\* A daemon that serves is found at its path by whom it was told to open it to.
THEOREM ServesThem == ASSUME ~Overlap PROVE Spec => []ServesWhoWasNamed
  <1>1. Inv => ServesWhoWasNamed
    BY DEF Inv, Placed, Permitted, ServesWhoWasNamed, Bound
  <1> QED BY Invariance, <1>1, PTL

\* Nobody but the group that was named can connect, from the first chmod on:
\* a socket that still has the mode of its bind is one whose daemon is between
\* the two, has ended, or is no longer where the path leads.
THEOREM GroupsNamed == ASSUME ~Overlap PROVE Spec => []NoOtherGroup
  <1>1. ASSUME Inv, NEW d \in Daemons, pc[d] # "narrow", at = d, Listening(d)
        PROVE  mode[d] # "wide" /\ (mode[d] = "shared" => gid[d] = named[d])
    <2>1. pc[d] \in {"give", "widen", "serve", "sweep"}
      BY <1>1 DEF Inv, Placed, Listening, Bound
    <2>2. mode[d] # "wide"
      BY <1>1, <2>1 DEF Inv, Permitted
    <2> QED BY <1>1, <2>2 DEF Inv, Permitted
  <1>2. Inv => NoOtherGroup
    BY <1>1 DEF NoOtherGroup, ReachedBy
  <1> QED BY Invariance, <1>2, PTL

\* A file left behind does not stop the next daemon's bind.
THEOREM LitterPasses == ASSUME ~Overlap PROVE Spec => []LitterIsNoObstacle
  <1>1. Inv => LitterIsNoObstacle
    BY DEF Inv, Ended, LitterIsNoObstacle
  <1> QED BY Invariance, <1>1, PTL

\* Nobody takes away a socket somebody else is listening on.
THEOREM ClearsTheDead == ASSUME ~Overlap PROVE Spec => OnlyTheDeadAreCleared
  <1>1. Inv /\ [Next]_vars => [ClearsNoOther]_vars
    <2> SUFFICES ASSUME Inv, Next, NEW d \in Daemons, at = d, at' # d, Listening(d)
                 PROVE  pc'[d] # pc[d]
      BY DEF ClearsNoOther
    <2>1. PICK e \in Daemons : Clear(e) \/ Bind(e) \/ Sweep(e)
      BY DEF Next, Begin, HangUp, Look, Knock, Narrow, Give, Widen, AcceptFails, Close, Kill
    <2>2. ~Clear(e)
      BY DaemonAssumption DEF Clear, Inv, Placed, Turns, Starting, Bound, Listening
    <2>3. ~Bind(e)
      BY DaemonAssumption DEF Bind, Inv, Placed
    <2>4. Sweep(e) /\ e = d
      BY <2>1, <2>2, <2>3 DEF Sweep, Inv, Placed, Bound
    <2> QED BY <2>4 DEF Sweep, Goto, Inv, TypeOK
  <1> QED BY Invariance, <1>1, PTL DEF Spec, OnlyTheDeadAreCleared

=============================================================================
