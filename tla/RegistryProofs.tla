--------------------------- MODULE RegistryProofs ---------------------------
(***************************************************************************)
(* Theorems about Registry, for any names, sittings, hosts and deaths.     *)
(***************************************************************************)
EXTENDS Registry, FiniteSetTheorems, TLAPS

\* It has its record open, or there is no record and nobody else has its name.
Owns(s) ==
    \/ holder[name[s]] = s
    \/ name[s] \notin made /\ \A t \in Sittings : name[t] = name[s] => t = s

\* What a sitting has at each stage.
Staged ==
    \A s \in Sittings :
        /\ stage[s] # "unused" => name[s] \in Names
        /\ stage[s] \in {"unused", "opening"} => outcome[s] = "none"
        /\ ~QuickEnds /\ stage[s] = "launched" => outcome[s] = "none"
        /\ stage[s] \in {"unused", "opening", "launched", "running"} => ~report[s]
        /\ stage[s] \in {"stored", "said", "closed"} =>
              outcome[s] # "none" /\ (outcome[s] = "ok" => report[s])

\* No two of one name are active.
Alone == \A s \in Sittings : Active(s) => Owns(s)

\* What the map finds is filed, and of the name asked for.
Mapped ==
    \A n \in Names : Live(n) => name[inner[n]] = n /\ stage[inner[n]] \in Filed

\* What is filed is found, itself if it is going.
Found == NamesFindTheirScan

\* Whoever was told that a sitting is over was told so once it had said so.
Honest ==
    \A s \in Sittings :
        /\ Finished \in Range(log[s]) => stage[s] \in {"said", "closed", "dead"}
        /\ s \in overs => /\ stage[s] \in {"said", "closed", "dead"}
                          /\ outcome[s] = "ok" => report[s]

Typed == TypeOK /\ \A n \in Names : IsFiniteSet(kept[n])

Inv == Typed /\ Staged /\ Alone /\ Mapped /\ Found /\ Honest

USE RegistryAssumption DEF disk, sitting, clients, To

-----------------------------------------------------------------------------

\* A sequence grown by one says one thing more.
LEMMA RangeAppend ==
    ASSUME NEW A, NEW q \in Seq(A), NEW x \in A
    PROVE  Range(Append(q, x)) = Range(q) \cup {x}
  <1>1. /\ DOMAIN q = 1..Len(q) /\ Len(q) \in Nat
        /\ DOMAIN Append(q, x) = 1..Len(q) + 1
        /\ \A i \in 1..Len(q) : Append(q, x)[i] = q[i]
        /\ Append(q, x)[Len(q) + 1] = x
    OBVIOUS
  <1>2. 1..Len(q) + 1 = 1..Len(q) \cup {Len(q) + 1}
    BY <1>1
  <1> QED BY <1>1, <1>2 DEF Range

\* What a tail says is in the log.
LEMMA EntriesInLog ==
    ASSUME TypeOK, NEW s \in Sittings, NEW from \in Nat
    PROVE  Entries(s, from) \subseteq Range(log[s])
  BY DEF Entries, Range

\* Every variable keeps its type.
LEMMA TypeStep == Inv /\ [Next]_vars => TypeOK'
  <1> SUFFICES ASSUME Inv, [Next]_vars PROVE TypeOK'
    OBVIOUS
  <1>1. ASSUME NEW s \in Sittings, NEW n \in Names, Begin(s, n) PROVE TypeOK'
    <2>0. made' \in SUBSET Names
      BY <1>1 DEF Begin, Inv, Typed, TypeOK
    <2>1. holder' \in [Names -> Sittings \cup {Nothing}]
      <3>1. holder' = [holder EXCEPT ![n] = s] \/ holder' = holder
        BY <1>1 DEF Begin
      <3>2. holder \in [Names -> Sittings \cup {Nothing}]
        BY DEF Inv, Typed, TypeOK
      <3> QED BY <3>1, <3>2
    <2>2. name' \in [Sittings -> Names \cup {Nothing}]
      BY <1>1 DEF Begin, Inv, Typed, TypeOK
    <2>3. stage' \in [Sittings -> Stages]
      BY <1>1 DEF Begin, Inv, Typed, TypeOK, Stages
    <2> QED BY <1>1, <2>0, <2>1, <2>2, <2>3 DEF Begin, Inv, Typed, TypeOK
  <1>2. ASSUME NEW s \in Sittings, NEW n \in Names, Reopen(s, n) PROVE TypeOK'
    BY <1>2 DEF Reopen, Inv, Typed, TypeOK, Stages
  <1>3. ASSUME NEW s \in Sittings, NEW h \in Hosts, Discover(s, h) PROVE TypeOK'
    BY <1>3 DEF Discover, Inv, Typed, TypeOK
  <1>4. ASSUME NEW s \in Sittings, NEW h \in Hosts, Tell(s, h) PROVE TypeOK'
    BY <1>4 DEF Tell, Inv, Typed, TypeOK
  <1>5. ASSUME NEW s \in Sittings, GiveUp(s) PROVE TypeOK'
    BY <1>5 DEF GiveUp, Inv, Typed, TypeOK, Stages, LetGo
  <1>6. ASSUME NEW s \in Sittings, Launch(s) PROVE TypeOK'
    BY <1>6 DEF Launch, Inv, Typed, TypeOK, Stages
  <1>7. ASSUME NEW s \in Sittings, File(s) PROVE TypeOK'
    BY <1>7 DEF File, Inv, Typed, TypeOK, Stages
  <1>8. ASSUME NEW s \in Sittings, TimeOut(s) PROVE TypeOK'
    BY <1>8 DEF TimeOut, Inv, Typed, TypeOK
  <1>9. ASSUME NEW s \in Sittings, EngineEnds(s) PROVE TypeOK'
    BY <1>9 DEF EngineEnds, Inv, Typed, TypeOK, LetGo
  <1>10. ASSUME NEW s \in Sittings, StoreReport(s) PROVE TypeOK'
    BY <1>10 DEF StoreReport, Inv, Typed, TypeOK, Stages
  <1>11. ASSUME NEW s \in Sittings, SayFinished(s) PROVE TypeOK'
    <2>1. FinalCause(s) \in Causes
      BY DEF FinalCause, StopCause, Causes, Inv, Typed, TypeOK
    <2>2. said' \in [Sittings -> {"unsaid"} \cup Causes] /\ stage' \in [Sittings -> Stages]
      BY <1>11, <2>1 DEF SayFinished, Inv, Typed, TypeOK, Stages
    <2>3. log' \in [Sittings -> Seq(Hosts \cup {Finished})]
      BY <1>11 DEF SayFinished, Inv, Typed, TypeOK
    <2> QED BY <1>11, <2>2, <2>3 DEF SayFinished, Inv, Typed, TypeOK
  <1>12. ASSUME NEW s \in Sittings, Close(s) PROVE TypeOK'
    BY <1>12 DEF Close, Inv, Typed, TypeOK, Stages
  <1>13. ASSUME NEW n \in Names, Get(n) PROVE TypeOK'
    BY <1>13 DEF Get, Inv, Typed, TypeOK, Live
  <1>14. ASSUME NEW n \in Names, Stop(n) PROVE TypeOK'
    BY <1>14 DEF Stop, Inv, Typed, TypeOK
  <1>15. ASSUME NEW n \in Names, WatchLive(n) PROVE TypeOK'
    <2>1. inner[n] \in Sittings /\ number[n] \in Nat
      BY <1>15 DEF WatchLive, Live, Inv, Typed, TypeOK
    <2>2. /\ Range(log[inner[n]]) \subseteq Hosts \cup {Finished}
          /\ Entries(inner[n], number[n]) \subseteq Hosts \cup {Finished}
      BY <2>1, EntriesInLog DEF Range, Inv, Typed, TypeOK
    <2>3. short' \in SUBSET Hosts
      BY <1>15, <2>2 DEF WatchLive, Inv, Typed, TypeOK
    <2>4. PICK whole \in BOOLEAN : Told(n, inner[n], whole)
      BY <1>15 DEF WatchLive
    <2>5. knows' \in [Names -> SUBSET Hosts] /\ overs' \in SUBSET Sittings
      BY <2>1, <2>2, <2>4 DEF Told, Inv, Typed, TypeOK
    <2>6. number' \in [Names -> Nat]
      BY <2>1, <2>4 DEF Told, Inv, Typed, TypeOK
    <2> QED BY <1>15, <2>3, <2>5, <2>6 DEF WatchLive, Inv, Typed, TypeOK
  <1>16. ASSUME NEW n \in Names, WatchRecorded(n) PROVE TypeOK'
    <2>1. Cardinality(kept[n]) \in Nat /\ number[n] \in Nat
      BY FS_CardinalityType DEF Inv, Typed, TypeOK
    <2>2. PICK from \in {0, number[n]} :
            /\ knows' = [knows EXCEPT ![n] = @ \cup IF from = 0 THEN kept[n] ELSE {}]
            /\ number' = [number EXCEPT ![n] = IF from = 0 THEN Cardinality(kept[n]) ELSE from]
      BY <1>16 DEF WatchRecorded
    <2>3. knows' \in [Names -> SUBSET Hosts] /\ number' \in [Names -> Nat]
      BY <2>1, <2>2 DEF Inv, Typed, TypeOK
    <2>4. short' \in SUBSET Hosts
      BY <1>16 DEF WatchRecorded, Inv, Typed, TypeOK
    <2> QED BY <1>16, <2>3, <2>4 DEF WatchRecorded, Inv, Typed, TypeOK
  <1>17. ASSUME NEW n \in Names, Prune(n) PROVE TypeOK'
    BY <1>17 DEF Prune, Inv, Typed, TypeOK
  <1>18. ASSUME Die PROVE TypeOK'
    BY <1>18 DEF Die, Inv, Typed, TypeOK, Stages
  <1>19. CASE UNCHANGED vars
    BY <1>19 DEF vars, Inv, Typed, TypeOK
  <1> QED
    BY <1>1, <1>2, <1>3, <1>4, <1>5, <1>6, <1>7, <1>8, <1>9,
       <1>10, <1>11, <1>12, <1>13, <1>14, <1>15, <1>16, <1>17, <1>18, <1>19 DEF Next

\* What a record holds is finite, a host at a time.
LEMMA FiniteStep == Inv /\ [Next]_vars => \A n \in Names : IsFiniteSet(kept'[n])
  <1> SUFFICES ASSUME Inv, [Next]_vars PROVE \A n \in Names : IsFiniteSet(kept'[n])
    OBVIOUS
  <1>1. CASE \E s \in Sittings, h \in Hosts : Discover(s, h)
    <2>1. PICK s \in Sittings, h \in Hosts : Discover(s, h)
      BY <1>1
    <2>2. \A n \in Names : kept'[n] = kept[n] \/ kept'[n] = kept[n] \cup {h}
      BY <2>1 DEF Discover
    <2>3. ASSUME NEW n \in Names PROVE IsFiniteSet(kept'[n])
      <3>1. IsFiniteSet(kept[n])
        BY DEF Inv, Typed
      <3>2. IsFiniteSet(kept[n] \cup {h})
        BY <3>1, FS_AddElement
      <3> QED BY <2>2, <3>1, <3>2
    <2> QED BY <2>3
  <1>2. CASE \E n \in Names : Prune(n)
    BY <1>2, FS_EmptySet DEF Prune, Inv, Typed
  <1>3. CASE UNCHANGED kept
    BY <1>3 DEF Inv, Typed
  <1>4. \/ \E s \in Sittings, h \in Hosts : Discover(s, h)
        \/ \E n \in Names : Prune(n)
        \/ UNCHANGED kept
    BY DEF Next, vars, Begin, Reopen, Tell, GiveUp, Launch, File, TimeOut, EngineEnds,
           StoreReport, SayFinished, Close, Get, Stop, WatchLive, WatchRecorded, Die
  <1> QED BY <1>1, <1>2, <1>3, <1>4

\* A sitting has at each stage what that stage needs.
LEMMA StagedStep == Inv /\ [Next]_vars => Staged'
  <1> SUFFICES ASSUME Inv, [Next]_vars PROVE Staged'
    OBVIOUS
  <1>1. ASSUME NEW s \in Sittings, NEW n \in Names, Begin(s, n) PROVE Staged'
    BY <1>1 DEF Begin, Inv, Typed, TypeOK, Staged
  <1>2. ASSUME NEW s \in Sittings, NEW n \in Names, Reopen(s, n) PROVE Staged'
    BY <1>2 DEF Reopen, Inv, Typed, TypeOK, Staged
  <1>3. ASSUME NEW s \in Sittings, NEW h \in Hosts, Discover(s, h) PROVE Staged'
    BY <1>3 DEF Discover, Inv, Staged
  <1>4. ASSUME NEW s \in Sittings, NEW h \in Hosts, Tell(s, h) PROVE Staged'
    BY <1>4 DEF Tell, Inv, Staged
  <1>5. ASSUME NEW s \in Sittings, GiveUp(s) PROVE Staged'
    BY <1>5 DEF GiveUp, Inv, Staged
  <1>6. ASSUME NEW s \in Sittings, Launch(s) PROVE Staged'
    BY <1>6 DEF Launch, Inv, Staged
  <1>7. ASSUME NEW s \in Sittings, File(s) PROVE Staged'
    BY <1>7 DEF File, Inv, Staged
  <1>8. ASSUME NEW s \in Sittings, TimeOut(s) PROVE Staged'
    BY <1>8 DEF TimeOut, Inv, Staged
  <1>9. ASSUME NEW s \in Sittings, EngineEnds(s) PROVE Staged'
    BY <1>9 DEF EngineEnds, Inv, Staged, Going
  <1>10. ASSUME NEW s \in Sittings, StoreReport(s) PROVE Staged'
    BY <1>10 DEF StoreReport, Inv, Typed, TypeOK, Staged, Ended
  <1>11. ASSUME NEW s \in Sittings, SayFinished(s) PROVE Staged'
    BY <1>11 DEF SayFinished, Inv, Staged
  <1>12. ASSUME NEW s \in Sittings, Close(s) PROVE Staged'
    BY <1>12 DEF Close, Inv, Staged
  <1>13. ASSUME NEW n \in Names, Get(n) PROVE Staged'
    BY <1>13 DEF Get, Inv, Staged
  <1>14. ASSUME NEW n \in Names, Stop(n) PROVE Staged'
    BY <1>14 DEF Stop, Inv, Staged
  <1>15. ASSUME NEW n \in Names, WatchLive(n) PROVE Staged'
    BY <1>15 DEF WatchLive, Inv, Staged
  <1>16. ASSUME NEW n \in Names, WatchRecorded(n) PROVE Staged'
    BY <1>16 DEF WatchRecorded, Inv, Staged
  <1>17. ASSUME NEW n \in Names, Prune(n) PROVE Staged'
    BY <1>17 DEF Prune, Inv, Staged, Prune
  <1>18. ASSUME Die PROVE Staged'
    BY <1>18 DEF Die, Inv, Staged
  <1>19. CASE UNCHANGED vars
    BY <1>19 DEF vars, Inv, Staged
  <1> QED
    BY <1>1, <1>2, <1>3, <1>4, <1>5, <1>6, <1>7, <1>8, <1>9,
       <1>10, <1>11, <1>12, <1>13, <1>14, <1>15, <1>16, <1>17, <1>18, <1>19 DEF Next

\* Nobody is let at a name that somebody is at: its record is open, or there is
\* none and the name is minted.
LEMMA AloneStep == Inv /\ [Next]_vars => Alone'
  <1> SUFFICES ASSUME Inv, [Next]_vars PROVE Alone'
    OBVIOUS
  <1>1. ASSUME NEW s \in Sittings, NEW n \in Names, Begin(s, n) PROVE Alone'
    BY <1>1 DEF Begin, Inv, Typed, TypeOK, Staged, Alone, Active, Owns, Fresh
  <1>2. ASSUME NEW s \in Sittings, NEW n \in Names, Reopen(s, n) PROVE Alone'
    BY <1>2 DEF Reopen, Inv, Typed, TypeOK, Alone, Active, Owns
  <1>3. ASSUME NEW s \in Sittings, NEW h \in Hosts, Discover(s, h) PROVE Alone'
    BY <1>3 DEF Discover, Inv, Alone, Active, Owns
  <1>4. ASSUME NEW s \in Sittings, NEW h \in Hosts, Tell(s, h) PROVE Alone'
    BY <1>4 DEF Tell, Inv, Alone, Active, Owns
  <1>5. ASSUME NEW s \in Sittings, GiveUp(s) PROVE Alone'
    BY <1>5 DEF GiveUp, Inv, Typed, TypeOK, Staged, Alone, Active, Owns, LetGo
  <1>6. ASSUME NEW s \in Sittings, Launch(s) PROVE Alone'
    BY <1>6 DEF Launch, Inv, Alone, Active, Owns
  <1>7. ASSUME NEW s \in Sittings, File(s) PROVE Alone'
    BY <1>7 DEF File, Inv, Alone, Active, Owns
  <1>8. ASSUME NEW s \in Sittings, TimeOut(s) PROVE Alone'
    BY <1>8 DEF TimeOut, Inv, Alone, Active, Owns
  <1>9. ASSUME NEW s \in Sittings, EngineEnds(s) PROVE Alone'
    BY <1>9 DEF EngineEnds, Inv, Typed, TypeOK, Staged, Alone, Active, Owns, LetGo
  <1>10. ASSUME NEW s \in Sittings, StoreReport(s) PROVE Alone'
    BY <1>10 DEF StoreReport, Inv, Alone, Active, Owns
  <1>11. ASSUME NEW s \in Sittings, SayFinished(s) PROVE Alone'
    BY <1>11 DEF SayFinished, Inv, Alone, Active, Owns
  <1>12. ASSUME NEW s \in Sittings, Close(s) PROVE Alone'
    BY <1>12 DEF Close, Inv, Alone, Active, Owns
  <1>13. ASSUME NEW n \in Names, Get(n) PROVE Alone'
    BY <1>13 DEF Get, Inv, Alone, Active, Owns
  <1>14. ASSUME NEW n \in Names, Stop(n) PROVE Alone'
    BY <1>14 DEF Stop, Inv, Alone, Active, Owns
  <1>15. ASSUME NEW n \in Names, WatchLive(n) PROVE Alone'
    BY <1>15 DEF WatchLive, Inv, Alone, Active, Owns
  <1>16. ASSUME NEW n \in Names, WatchRecorded(n) PROVE Alone'
    BY <1>16 DEF WatchRecorded, Inv, Alone, Active, Owns
  <1>17. ASSUME NEW n \in Names, Prune(n) PROVE Alone'
    BY <1>17 DEF Prune, Inv, Alone, Active, Owns
  <1>18. ASSUME Die PROVE Alone'
    BY <1>18 DEF Die, Alone, Active
  <1>19. CASE UNCHANGED vars
    BY <1>19 DEF vars, Inv, Alone, Active, Owns
  <1> QED
    BY <1>1, <1>2, <1>3, <1>4, <1>5, <1>6, <1>7, <1>8, <1>9,
       <1>10, <1>11, <1>12, <1>13, <1>14, <1>15, <1>16, <1>17, <1>18, <1>19 DEF Next

\* The map finds what was filed under the name asked for.
LEMMA MappedStep == Inv /\ [Next]_vars => Mapped'
  <1> SUFFICES ASSUME Inv, [Next]_vars PROVE Mapped'
    OBVIOUS
  <1>1. ASSUME NEW s \in Sittings, NEW n \in Names, Begin(s, n) PROVE Mapped'
    BY <1>1 DEF Begin, Inv, Filed, Mapped, Live
  <1>2. ASSUME NEW s \in Sittings, NEW n \in Names, Reopen(s, n) PROVE Mapped'
    BY <1>2 DEF Reopen, Inv, Filed, Mapped, Live
  <1>3. ASSUME NEW s \in Sittings, NEW h \in Hosts, Discover(s, h) PROVE Mapped'
    BY <1>3 DEF Discover, Inv, Mapped, Live
  <1>4. ASSUME NEW s \in Sittings, NEW h \in Hosts, Tell(s, h) PROVE Mapped'
    BY <1>4 DEF Tell, Inv, Mapped, Live
  <1>5. ASSUME NEW s \in Sittings, GiveUp(s) PROVE Mapped'
    BY <1>5 DEF GiveUp, Inv, Filed, Mapped, Live
  <1>6. ASSUME NEW s \in Sittings, Launch(s) PROVE Mapped'
    BY <1>6 DEF Launch, Inv, Filed, Mapped, Live
  <1>7. ASSUME NEW s \in Sittings, File(s) PROVE Mapped'
    BY <1>7 DEF File, Inv, Typed, TypeOK, Filed, Mapped, Live
  <1>8. ASSUME NEW s \in Sittings, TimeOut(s) PROVE Mapped'
    BY <1>8 DEF TimeOut, Inv, Mapped, Live
  <1>9. ASSUME NEW s \in Sittings, EngineEnds(s) PROVE Mapped'
    BY <1>9 DEF EngineEnds, Inv, Mapped, Live
  <1>10. ASSUME NEW s \in Sittings, StoreReport(s) PROVE Mapped'
    BY <1>10 DEF StoreReport, Inv, Filed, Mapped, Live
  <1>11. ASSUME NEW s \in Sittings, SayFinished(s) PROVE Mapped'
    BY <1>11 DEF SayFinished, Inv, Filed, Mapped, Live
  <1>12. ASSUME NEW s \in Sittings, Close(s) PROVE Mapped'
    BY <1>12 DEF Close, Inv, Filed, Mapped, Live
  <1>13. ASSUME NEW n \in Names, Get(n) PROVE Mapped'
    BY <1>13 DEF Get, Inv, Mapped, Live
  <1>14. ASSUME NEW n \in Names, Stop(n) PROVE Mapped'
    BY <1>14 DEF Stop, Inv, Mapped, Live
  <1>15. ASSUME NEW n \in Names, WatchLive(n) PROVE Mapped'
    BY <1>15 DEF WatchLive, Inv, Mapped, Live
  <1>16. ASSUME NEW n \in Names, WatchRecorded(n) PROVE Mapped'
    BY <1>16 DEF WatchRecorded, Inv, Mapped, Live
  <1>17. ASSUME NEW n \in Names, Prune(n) PROVE Mapped'
    BY <1>17 DEF Prune, Inv, Mapped, Live
  <1>18. ASSUME Die PROVE Mapped'
    BY <1>18 DEF Die, Mapped, Live
  <1>19. CASE UNCHANGED vars
    BY <1>19 DEF vars, Inv, Mapped, Live
  <1> QED
    BY <1>1, <1>2, <1>3, <1>4, <1>5, <1>6, <1>7, <1>8, <1>9,
       <1>10, <1>11, <1>12, <1>13, <1>14, <1>15, <1>16, <1>17, <1>18, <1>19 DEF Next

\* What is filed is found, and nobody files over what is going.
LEMMA FoundStep == Inv /\ [Next]_vars => Found'
  <1> SUFFICES ASSUME Inv, [Next]_vars PROVE Found'
    OBVIOUS
  <1>1. ASSUME NEW s \in Sittings, NEW n \in Names, Begin(s, n) PROVE Found'
    BY <1>1 DEF Begin, Inv, Staged, Filed, Mapped, Found, NamesFindTheirScan, Live, Going
  <1>2. ASSUME NEW s \in Sittings, NEW n \in Names, Reopen(s, n) PROVE Found'
    BY <1>2 DEF Reopen, Inv, Staged, Filed, Mapped, Found, NamesFindTheirScan, Live, Going
  <1>3. ASSUME NEW s \in Sittings, NEW h \in Hosts, Discover(s, h) PROVE Found'
    BY <1>3 DEF Discover, Inv, Found, NamesFindTheirScan, Live, Going
  <1>4. ASSUME NEW s \in Sittings, NEW h \in Hosts, Tell(s, h) PROVE Found'
    BY <1>4 DEF Tell, Inv, Found, NamesFindTheirScan, Live, Going
  <1>5. ASSUME NEW s \in Sittings, GiveUp(s) PROVE Found'
    BY <1>5 DEF GiveUp, Inv, Filed, Found, NamesFindTheirScan, Live, Going
  <1>6. ASSUME NEW s \in Sittings, Launch(s) PROVE Found'
    BY <1>6 DEF Launch, Inv, Filed, Found, NamesFindTheirScan, Live, Going
  <1>7. ASSUME NEW s \in Sittings, File(s) PROVE Found'
    <2>1. /\ inner' = [inner EXCEPT ![name[s]] = s] /\ stage' = [stage EXCEPT ![s] = "running"]
          /\ UNCHANGED <<name, outcome>> /\ name[s] \in Names /\ stage[s] = "launched"
      BY <1>7 DEF File, Inv, Staged
    <2>2. \A t \in Sittings \ {s} : ~QuickEnds /\ stage[t] = "running" /\ outcome[t] = "none"
                                    => name[t] # name[s]
      <3> SUFFICES ASSUME NEW t \in Sittings \ {s}, ~QuickEnds, stage[t] = "running",
                          outcome[t] = "none", name[t] = name[s]
                   PROVE  FALSE
        OBVIOUS
      <3>1. Active(s) /\ Active(t)
        BY <2>1 DEF Active, Inv, Staged
      <3>2. Owns(s) /\ Owns(t)
        BY <3>1 DEF Inv, Alone
      <3> QED BY <3>2 DEF Owns
    <2>3. SUFFICES ASSUME NEW t \in Sittings, stage'[t] \in Filed
                   PROVE  /\ Live(name[t])' /\ name'[inner'[name[t]]] = name[t]
                          /\ ~QuickEnds /\ Going(t)' => inner'[name[t]] = t
      BY <2>1 DEF Found, NamesFindTheirScan
    <2>4. CASE t = s
      BY <2>1, <2>4 DEF Live, Inv, Typed, TypeOK
    <2>5. CASE t # s
      <3>1. stage[t] \in Filed /\ name[t] \in Names
        BY <2>1, <2>3, <2>5 DEF Inv, Staged, Filed
      <3>2. /\ Live(name[t]) /\ name[inner[name[t]]] = name[t]
            /\ ~QuickEnds /\ Going(t) => inner[name[t]] = t
        BY <3>1 DEF Inv, Found, NamesFindTheirScan
      <3>3. Live(name[t])' /\ name'[inner'[name[t]]] = name[t]
        BY <2>1, <3>1, <3>2 DEF Live
      <3>4. ASSUME ~QuickEnds, Going(t)' PROVE inner'[name[t]] = t
        <4>1. Going(t) /\ stage[t] = "running"
          BY <2>1, <2>5, <3>1, <3>4 DEF Going, Filed
        <4>2. name[t] # name[s]
          BY <2>2, <2>5, <3>4, <4>1 DEF Going
        <4> QED BY <2>1, <3>1, <3>2, <3>4, <4>1, <4>2 DEF Inv, Typed, TypeOK
      <3> QED BY <3>3, <3>4
    <2> QED BY <2>4, <2>5
  <1>8. ASSUME NEW s \in Sittings, TimeOut(s) PROVE Found'
    BY <1>8 DEF TimeOut, Inv, Found, NamesFindTheirScan, Live, Going
  <1>9. ASSUME NEW s \in Sittings, EngineEnds(s) PROVE Found'
    BY <1>9 DEF EngineEnds, Inv, Found, NamesFindTheirScan, Live, Going
  <1>10. ASSUME NEW s \in Sittings, StoreReport(s) PROVE Found'
    BY <1>10 DEF StoreReport, Inv, Filed, Found, NamesFindTheirScan, Live, Going, Ended
  <1>11. ASSUME NEW s \in Sittings, SayFinished(s) PROVE Found'
    BY <1>11 DEF SayFinished, Inv, Filed, Found, NamesFindTheirScan, Live, Going
  <1>12. ASSUME NEW s \in Sittings, Close(s) PROVE Found'
    BY <1>12 DEF Close, Inv, Filed, Found, NamesFindTheirScan, Live, Going
  <1>13. ASSUME NEW n \in Names, Get(n) PROVE Found'
    BY <1>13 DEF Get, Inv, Found, NamesFindTheirScan, Live, Going
  <1>14. ASSUME NEW n \in Names, Stop(n) PROVE Found'
    BY <1>14 DEF Stop, Inv, Found, NamesFindTheirScan, Live, Going
  <1>15. ASSUME NEW n \in Names, WatchLive(n) PROVE Found'
    BY <1>15 DEF WatchLive, Inv, Found, NamesFindTheirScan, Live, Going
  <1>16. ASSUME NEW n \in Names, WatchRecorded(n) PROVE Found'
    BY <1>16 DEF WatchRecorded, Inv, Found, NamesFindTheirScan, Live, Going
  <1>17. ASSUME NEW n \in Names, Prune(n) PROVE Found'
    BY <1>17 DEF Prune, Inv, Found, NamesFindTheirScan, Live, Going
  <1>18. ASSUME Die PROVE Found'
    BY <1>18 DEF Die, Filed, Found, NamesFindTheirScan
  <1>19. CASE UNCHANGED vars
    BY <1>19 DEF vars, Inv, Found, NamesFindTheirScan, Live, Going
  <1> QED
    BY <1>1, <1>2, <1>3, <1>4, <1>5, <1>6, <1>7, <1>8, <1>9,
       <1>10, <1>11, <1>12, <1>13, <1>14, <1>15, <1>16, <1>17, <1>18, <1>19 DEF Next

\* Nobody is told that a sitting is over before its report is kept.
LEMMA HonestStep == Inv /\ [Next]_vars => Honest'
  <1> SUFFICES ASSUME Inv, [Next]_vars PROVE Honest'
    OBVIOUS
  <1>1. ASSUME NEW s \in Sittings, NEW n \in Names, Begin(s, n) PROVE Honest'
    BY <1>1 DEF Begin, Inv, Honest
  <1>2. ASSUME NEW s \in Sittings, NEW n \in Names, Reopen(s, n) PROVE Honest'
    BY <1>2 DEF Reopen, Inv, Honest
  <1>3. ASSUME NEW s \in Sittings, NEW h \in Hosts, Discover(s, h) PROVE Honest'
    BY <1>3 DEF Discover, Inv, Honest
  <1>4. ASSUME NEW s \in Sittings, NEW h \in Hosts, Tell(s, h) PROVE Honest'
    <2>1. /\ UNCHANGED <<stage, overs, outcome, report>>
          /\ log' = [log EXCEPT ![s] = Append(@, h)] /\ log \in [Sittings -> Seq(Hosts \cup {Finished})]
      BY <1>4 DEF Tell, Inv, Typed, TypeOK
    <2>2. Range(log'[s]) = Range(log[s]) \cup {h}
      BY <2>1, RangeAppend
    <2>3. \A t \in Sittings : Finished \in Range(log'[t]) => Finished \in Range(log[t])
      BY <2>1, <2>2
    <2> QED BY <2>1, <2>3 DEF Inv, Honest
  <1>5. ASSUME NEW s \in Sittings, GiveUp(s) PROVE Honest'
    BY <1>5 DEF GiveUp, Inv, Honest
  <1>6. ASSUME NEW s \in Sittings, Launch(s) PROVE Honest'
    BY <1>6 DEF Launch, Inv, Honest
  <1>7. ASSUME NEW s \in Sittings, File(s) PROVE Honest'
    BY <1>7 DEF File, Inv, Honest
  <1>8. ASSUME NEW s \in Sittings, TimeOut(s) PROVE Honest'
    BY <1>8 DEF TimeOut, Inv, Honest
  <1>9. ASSUME NEW s \in Sittings, EngineEnds(s) PROVE Honest'
    BY <1>9 DEF EngineEnds, Inv, Honest, Going
  <1>10. ASSUME NEW s \in Sittings, StoreReport(s) PROVE Honest'
    BY <1>10 DEF StoreReport, Inv, Honest, Ended
  <1>11. ASSUME NEW s \in Sittings, SayFinished(s) PROVE Honest'
    BY <1>11 DEF SayFinished, Inv, Typed, TypeOK, Honest
  <1>12. ASSUME NEW s \in Sittings, Close(s) PROVE Honest'
    BY <1>12 DEF Close, Inv, Honest
  <1>13. ASSUME NEW n \in Names, Get(n) PROVE Honest'
    BY <1>13 DEF Get, Inv, Staged, Honest, Running
  <1>14. ASSUME NEW n \in Names, Stop(n) PROVE Honest'
    BY <1>14 DEF Stop, Inv, Honest
  <1>15. ASSUME NEW n \in Names, WatchLive(n) PROVE Honest'
    <2>1. PICK whole \in BOOLEAN : Told(n, inner[n], whole)
      BY <1>15 DEF WatchLive
    <2>2. /\ inner[n] \in Sittings /\ stage[inner[n]] \in Filed /\ number[n] \in Nat
          /\ UNCHANGED <<stage, log, outcome, report>>
      BY <1>15 DEF WatchLive, Live, Inv, Typed, TypeOK, Mapped
    <2>3. \/ overs' = overs
          \/ overs' = overs \cup {inner[n]} /\ stage[inner[n]] \in {"said", "closed"}
      <3>1. Finished \in Entries(inner[n], number[n]) => stage[inner[n]] \in {"said", "closed"}
        BY <2>2, EntriesInLog DEF Inv, Typed, Honest, Filed
      <3>2. ~Running(n) => stage[inner[n]] \in {"said", "closed"}
        BY <1>15 DEF Running, WatchLive
      <3>3. \/ overs' = overs
            \/ /\ overs' = overs \cup {inner[n]}
               /\ Finished \in Entries(inner[n], number[n]) \/ ~Running(n)
        BY <2>1, Zenon DEF Told
      <3> QED BY <3>1, <3>2, <3>3
    <2>4. stage[inner[n]] \in {"said", "closed"} /\ outcome[inner[n]] = "ok" => report[inner[n]]
      BY <2>2 DEF Inv, Staged
    <2> QED BY <2>2, <2>3, <2>4 DEF Inv, Honest
  <1>16. ASSUME NEW n \in Names, WatchRecorded(n) PROVE Honest'
    BY <1>16 DEF WatchRecorded, Inv, Honest
  <1>17. ASSUME NEW n \in Names, Prune(n) PROVE Honest'
    BY <1>17 DEF Prune, Inv, Honest
  <1>18. ASSUME Die PROVE Honest'
    BY <1>18 DEF Die, Inv, Honest
  <1>19. CASE UNCHANGED vars
    BY <1>19 DEF vars, Inv, Honest
  <1> QED
    BY <1>1, <1>2, <1>3, <1>4, <1>5, <1>6, <1>7, <1>8, <1>9,
       <1>10, <1>11, <1>12, <1>13, <1>14, <1>15, <1>16, <1>17, <1>18, <1>19 DEF Next

-----------------------------------------------------------------------------

\* The invariant holds before anything was asked.
LEMMA InitHolds == Init => Inv
  <1> SUFFICES ASSUME Init PROVE Inv
    OBVIOUS
  <1>1. Typed
    BY FS_EmptySet DEF Init, Typed, TypeOK, Stages
  <1>2. Staged /\ Alone /\ Mapped /\ Found
    BY DEF Init, Staged, Alone, Active, Mapped, Live, Found, NamesFindTheirScan, Filed
  <1>3. Honest
    BY DEF Init, Honest, Range
  <1> QED BY <1>1, <1>2, <1>3 DEF Inv

\* The inductive invariant holds throughout: what a sitting has at each stage,
\* that one that is active has its name to itself, and that what is told to be
\* over has said so.
THEOREM Invariance == Spec => []Inv
  <1>1. Inv /\ [Next]_vars => Inv'
    BY TypeStep, FiniteStep, StagedStep, AloneStep, MappedStep, FoundStep, HonestStep
    DEF Inv, Typed
  <1> QED BY InitHolds, <1>1, PTL DEF Spec

\* Every variable keeps its type.
THEOREM TypeCorrect == Spec => []TypeOK
  <1>1. Inv => TypeOK
    BY DEF Inv, Typed
  <1> QED BY Invariance, <1>1, PTL

\* A name a scan was filed under finds a scan of that name as long as the
\* process lives; and, where no task is over before its scan is filed, one that
\* is going is the one found.
THEOREM NamesAreFound == Spec => []NamesFindTheirScan
  <1>1. Inv => NamesFindTheirScan
    BY DEF Inv, Found
  <1> QED BY Invariance, <1>1, PTL

\* Whoever was told that a scan is over can have its report.
THEOREM OverIsWritten == Spec => []OverMeansReport
  <1>1. Inv => OverMeansReport
    BY DEF Inv, Honest, OverMeansReport, Typed, TypeOK
  <1> QED BY Invariance, <1>1, PTL


-----------------------------------------------------------------------------
(* Registry implements RegistryPromise.                                    *)

Phases == [s \in Sittings |-> PhaseOf(s)]

\* A sitting whose stage, outcome and report a step leaves alone keeps its
\* phase.
LEMMA PhaseStays ==
    ASSUME NEW s, stage'[s] = stage[s], outcome'[s] = outcome[s], report'[s] = report[s]
    PROVE  PhaseOf(s)' = PhaseOf(s)
  BY DEF PhaseOf, Active

\* A step of one sitting moves its own phase alone.
LEMMA OnePhase ==
    ASSUME TypeOK, NEW s \in Sittings, NEW place \in Stages,
           stage' = stage \/ To(s, place),
           outcome' = outcome \/ \E o \in {"ok", "err"} : outcome' = [outcome EXCEPT ![s] = o],
           report' = report \/ report' = [report EXCEPT ![s] = (outcome[s] = "ok")]
    PROVE  /\ Phases' = [Phases EXCEPT ![s] = PhaseOf(s)']
           /\ PhaseOf(s)' = PhaseOf(s) => Phases' = Phases
  <1>1. \A t \in Sittings \ {s} : PhaseOf(t)' = PhaseOf(t)
    <2> TAKE t \in Sittings \ {s}
    <2>1. stage'[t] = stage[t] /\ outcome'[t] = outcome[t] /\ report'[t] = report[t]
      BY DEF TypeOK
    <2> QED BY <2>1, PhaseStays
  <1> QED BY <1>1 DEF Phases

\* Where nobody has the record open, or there never was a run of the name,
\* nobody is at it.
LEMMA NobodyIsAt ==
    ASSUME Inv, NEW n \in Names, (n \in made /\ holder[n] = Nothing) \/ Fresh(n)
    PROVE  Promise!Free(n)
  <1> SUFFICES ASSUME NEW s \in Sittings, Phases[s] = "going", name[s] = n PROVE FALSE
    BY DEF Promise!Free, Phases
  <1>1. Active(s)
    BY DEF Phases, PhaseOf
  <1>2. Owns(s)
    BY <1>1 DEF Inv, Alone
  <1> QED BY <1>2 DEF Owns, Fresh

\* The initial states are the promise's.
LEMMA PromiseInit == Init => Promise!Init
  BY DEF Init, Promise!Init, PhaseOf

\* Being let at a name, and dropped before the engine has it.
LEMMA StartPromised ==
    ASSUME Inv, NEW s \in Sittings, NEW n \in Names, Begin(s, n) \/ Reopen(s, n)
    PROVE  Promise!Start(s, n)
  <1>1. /\ stage[s] = "unused" /\ To(s, "opening") /\ name' = [name EXCEPT ![s] = n]
        /\ UNCHANGED <<inner, kept, overs, outcome, report>>
        /\ \/ n \in made /\ holder[n] = Nothing
           \/ Fresh(n)
    BY DEF Begin, Reopen
  <1>2. PhaseOf(s) = "idle" /\ PhaseOf(s)' = "going"
    BY <1>1 DEF PhaseOf, Active, Inv, Typed, TypeOK, Staged
  <1>3. Phases' = [Phases EXCEPT ![s] = "going"] /\ Phases[s] = "idle"
    BY <1>1, <1>2, OnePhase DEF Phases, Inv, Typed, Stages
  <1> QED BY <1>1, <1>3, NobodyIsAt DEF Promise!Start, Promise!Becomes, Phases

\* The end of a task that was dropped, or that ran.
LEMMA EndPromised ==
    ASSUME Inv, NEW s \in Sittings, GiveUp(s) \/ EngineEnds(s)
    PROVE  Promise!End(s)
  <1>1. UNCHANGED <<name, inner, kept, overs, report>>
    BY DEF GiveUp, EngineEnds
  <1>2. Active(s) /\ PhaseOf(s) = "going" /\ ~report[s]
    BY DEF GiveUp, EngineEnds, Going, PhaseOf, Active, Inv, Staged
  <1>3. PhaseOf(s)' \in {"done", "broken"}
    <2>1. CASE GiveUp(s)
      BY <1>2, <2>1 DEF GiveUp, PhaseOf, Active, Inv, Typed, TypeOK, Staged
    <2>2. CASE EngineEnds(s)
      BY <1>1, <1>2, <2>2 DEF EngineEnds, PhaseOf, Active, Inv, Typed, TypeOK
    <2> QED BY <2>1, <2>2
  <1>4. Phases' = [Phases EXCEPT ![s] = PhaseOf(s)'] /\ Phases[s] = "going"
    BY <1>1, <1>2, OnePhase DEF GiveUp, EngineEnds, Phases, Inv, Typed, Stages
  <1> QED BY <1>1, <1>3, <1>4 DEF Promise!End, Promise!Becomes, Phases

\* A report is kept of a task that ended in order.
LEMMA KeepPromised ==
    ASSUME Inv, NEW s \in Sittings, StoreReport(s)
    PROVE  Promise!Keep(s) \/ UNCHANGED Promise!vars
  <1>1. /\ UNCHANGED <<name, inner, kept, overs, outcome>> /\ outcome[s] # "none"
        /\ stage[s] = "running" /\ To(s, "stored")
        /\ report' = [report EXCEPT ![s] = (outcome[s] = "ok")] /\ ~report[s]
    BY DEF StoreReport, Ended, Inv, Staged
  <1>2. Phases' = [Phases EXCEPT ![s] = PhaseOf(s)'] /\ (PhaseOf(s)' = PhaseOf(s) => Phases' = Phases)
    BY <1>1, OnePhase DEF Inv, Typed, Stages
  <1>3. CASE outcome[s] = "ok"
    <2>1. PhaseOf(s) = "done" /\ PhaseOf(s)' = "kept"
      BY <1>1, <1>3 DEF PhaseOf, Active, Inv, Typed, TypeOK
    <2> QED BY <1>1, <1>2, <2>1 DEF Promise!Keep, Promise!Becomes, Phases
  <1>4. CASE outcome[s] # "ok"
    <2>1. PhaseOf(s)' = PhaseOf(s)
      BY <1>1, <1>4 DEF PhaseOf, Active, Inv, Typed, TypeOK
    <2> QED BY <1>1, <1>2, <2>1 DEF Promise!vars, Phases
  <1> QED BY <1>3, <1>4

\* Being filed: where no task is over by then, one that is going is.
LEMMA ShowPromised ==
    ASSUME Inv, NEW s \in Sittings, File(s)
    PROVE  Promise!Show(s)
  <1>1. /\ UNCHANGED <<name, kept, overs, outcome, report>>
        /\ stage[s] = "launched" /\ To(s, "running")
        /\ inner' = [inner EXCEPT ![name[s]] = s]
    BY DEF File
  <1>2. PhaseOf(s)' = PhaseOf(s)
    BY <1>1 DEF PhaseOf, Active, Inv, Typed, TypeOK
  <1>3. Phases' = Phases
    BY <1>1, <1>2, OnePhase DEF Inv, Typed, Stages
  <1>4. PhaseOf(s) \in {"going"} \cup IF QuickEnds THEN {"done", "broken"} ELSE {}
    BY <1>1 DEF PhaseOf, Active, Inv, Staged
  <1> QED BY <1>1, <1>3, <1>4 DEF Promise!Show, Phases

\* What is found, and what of it is noted in a record.
LEMMA NotePromised ==
    ASSUME Inv, NEW s \in Sittings, NEW h \in Hosts, Discover(s, h)
    PROVE  Promise!Note(s, h) \/ UNCHANGED Promise!vars
  <1>1. UNCHANGED <<name, inner, overs, stage, outcome, report>> /\ Going(s)
    BY DEF Discover
  <1>2. Phases' = Phases /\ Phases[s] = "going"
    BY <1>1 DEF Phases, PhaseOf, Active, Going
  <1> QED BY <1>1, <1>2 DEF Discover, Promise!Note, Promise!vars, Phases

\* What a client is told of the scan that a name finds.
LEMMA TellPromised ==
    ASSUME Inv, NEW n \in Names, Get(n) \/ WatchLive(n)
    PROVE  Promise!TellOver(n) \/ UNCHANGED Promise!vars
  <1>1. /\ UNCHANGED <<name, inner, kept, stage, outcome, report>>
        /\ inner[n] \in Sittings /\ stage[inner[n]] \in Filed
    BY DEF Get, WatchLive, Live, Inv, Typed, TypeOK, Mapped
  <1>2. Phases' = Phases
    BY <1>1 DEF Phases, PhaseOf, Active
  <1>3. \/ overs' = overs
        \/ overs' = overs \cup {inner[n]} /\ inner[n] \in overs'
    <2>1. CASE Get(n)
      BY <2>1 DEF Get
    <2>2. CASE WatchLive(n)
      <3>1. PICK whole \in BOOLEAN : Told(n, inner[n], whole)
        BY <2>2 DEF WatchLive
      <3>2. overs' = overs \/ overs' = overs \cup {inner[n]}
        BY <3>1, Zenon DEF Told
      <3> QED BY <3>2
    <2> QED BY <2>1, <2>2
  <1>4. CASE overs' = overs
    BY <1>1, <1>2, <1>4 DEF Promise!vars, Phases
  <1>5. CASE overs' = overs \cup {inner[n]} /\ inner[n] \in overs'
    <2>1. stage[inner[n]] \in {"said", "closed"}
      BY <1>1, <1>5, HonestStep DEF Honest, Filed, Next
    <2>2. Phases[inner[n]] \in {"kept", "broken"}
      BY <1>1, <2>1 DEF Phases, PhaseOf, Active, Inv, Staged
    <2> QED BY <1>1, <1>2, <1>5, <2>2 DEF Promise!TellOver, Phases
  <1> QED BY <1>3, <1>4, <1>5

\* No record is pruned under a run.
LEMMA PrunePromised ==
    ASSUME Inv, NEW n \in Names, Prune(n)
    PROVE  Promise!Prune(n)
  <1>1. Phases' = Phases
    BY DEF Prune, Phases, PhaseOf, Active
  <1> QED BY <1>1, NobodyIsAt DEF Prune, Promise!Prune, Phases

\* The process dies.
LEMMA DiePromised == Die => Promise!Die
  BY DEF Die, Promise!Die, PhaseOf

\* Every step is one of the promise's, or none.
LEMMA PromiseStep == Inv /\ [Next]_vars => [Promise!Next]_(Promise!vars)
  <1> SUFFICES ASSUME Inv, [Next]_vars PROVE [Promise!Next]_(Promise!vars)
    OBVIOUS
  <1>1. CASE UNCHANGED vars
    BY <1>1 DEF vars, Promise!vars, PhaseOf, Active
  <1>2. ASSUME NEW s \in Sittings, NEW n \in Names, Begin(s, n) \/ Reopen(s, n)
        PROVE  Promise!Start(s, n)
    BY <1>2, StartPromised
  <1>3. ASSUME NEW s \in Sittings, NEW h \in Hosts, Discover(s, h)
        PROVE  Promise!Note(s, h) \/ UNCHANGED Promise!vars
    BY <1>3, NotePromised
  <1>4. ASSUME NEW s \in Sittings, GiveUp(s) \/ EngineEnds(s) PROVE Promise!End(s)
    BY <1>4, EndPromised
  <1>5. ASSUME NEW s \in Sittings, File(s) PROVE Promise!Show(s)
    BY <1>5, ShowPromised
  <1>6. ASSUME NEW s \in Sittings, StoreReport(s)
        PROVE  Promise!Keep(s) \/ UNCHANGED Promise!vars
    BY <1>6, KeepPromised
  <1>7. ASSUME NEW s \in Sittings, Launch(s) \/ SayFinished(s) \/ Close(s)
        PROVE  UNCHANGED Promise!vars
    <2>1. /\ UNCHANGED <<name, inner, kept, overs, outcome, report>>
          /\ \/ stage[s] = "opening" /\ To(s, "launched")
             \/ stage[s] = "stored" /\ To(s, "said")
             \/ stage[s] = "said" /\ To(s, "closed")
      BY <1>7 DEF Launch, SayFinished, Close
    <2>2. PhaseOf(s)' = PhaseOf(s)
      BY <2>1 DEF PhaseOf, Active, Inv, Typed, TypeOK, Staged
    <2> QED BY <2>1, <2>2, OnePhase DEF Promise!vars, Phases, Inv, Typed, Stages
  <1>8. CASE \/ \E s \in Sittings : TimeOut(s) \/ \E h \in Hosts : Tell(s, h)
             \/ \E n \in Names : Stop(n) \/ WatchRecorded(n)
    <2>1. UNCHANGED <<name, inner, kept, overs, stage, outcome, report>>
      BY <1>8 DEF TimeOut, Tell, Stop, WatchRecorded
    <2> QED BY <2>1 DEF Promise!vars, PhaseOf, Active
  <1>9. ASSUME NEW n \in Names, Get(n) \/ WatchLive(n)
        PROVE  Promise!TellOver(n) \/ UNCHANGED Promise!vars
    BY <1>9, TellPromised
  <1>10. ASSUME NEW n \in Names, Prune(n) PROVE Promise!Prune(n)
    BY <1>10, PrunePromised
  <1>11. CASE Die
    BY <1>11, DiePromised DEF Promise!Next
  <1> QED BY <1>1, <1>2, <1>3, <1>4, <1>5, <1>6, <1>7, <1>8, <1>9, <1>10, <1>11
          DEF Next, Promise!Next

\* However runs, prunes and deaths interleave, a name has one run at a time,
\* its record is written by that run and pruned under none, what it finds stays
\* found, and nobody hears that a run is over before its report is there.
THEOREM RegistryKeepsPromise == Spec => KeepsPromise
  BY Invariance, PromiseInit, PromiseStep, PTL DEF Spec, KeepsPromise, Promise!Spec

=============================================================================
