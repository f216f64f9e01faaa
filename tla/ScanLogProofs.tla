--------------------------- MODULE ScanLogProofs ---------------------------
(***************************************************************************)
(* Proofs about ScanLog, for any number of hosts, clients, notices and     *)
(* changes.  The invariant is built in three layers, each proved inductive *)
(* with the help of the ones below it: types, what the log holds, and what *)
(* the clients have of it.                                                 *)
(***************************************************************************)
EXTENDS ScanLog, TLAPS

-----------------------------------------------------------------------------
(* Types.                                                                  *)

\* What the follower appends for one notice is a sequence of bodies.
LEMMA SaysType ==
    ASSUME TypeOK, NEW n \in Notices
    PROVE  Says(n) \in Seq(Bodies)
  <1>1. CASE n.kind = "host"
    <2>1. n.host \in Hosts
      BY <1>1 DEF Notices
    <2>2. CASE store[n.host] > 0 /\ Changed(n.host)
      <3>1. HostChanged(n.host, store[n.host]) \in Bodies
        BY <2>1, <2>2 DEF TypeOK, EngineTypeOK, HostChanged, Bodies
      <3> QED BY <1>1, <2>2, <3>1 DEF Says
    <2>3. CASE ~(store[n.host] > 0 /\ Changed(n.host))
      BY <1>1, <2>3 DEF Says
    <2> QED BY <2>2, <2>3
  <1>2. CASE n.kind = "stage"
    <2>1. Body("stage") \in Bodies /\ Body("progress") \in Bodies
      BY DEF Body, Bodies
    <2> QED BY <1>2, <2>1 DEF Says
  <1>3. CASE n.kind = "failure"
    <2>1. Body("failure") \in Bodies
      BY DEF Body, Bodies
    <2> QED BY <1>3, <2>1 DEF Says
  <1> QED BY <1>1, <1>2, <1>3 DEF Notices

\* TypeOK, and what two steps need of it: Push has something to push, and
\* SendEvent only positions the log has.
TypeInv ==
    /\ TypeOK
    /\ fpc = "push" => todo # <<>>
    /\ \A c \in Clients : batch[c] \subseteq 1..Len(log)

\* The type invariant, with the places of the follower and of the watches, holds
\* at first.
LEMMA TypeInit == Init => TypeInv
  <1> USE DEF Init, TypeInv, TypeOK
  <1>0. <<>> \in Seq(Notices) /\ <<>> \in Seq(Bodies)
    OBVIOUS
  <1>1. EngineInit => EngineTypeOK
    <2> SUFFICES ASSUME EngineInit PROVE EngineTypeOK
      OBVIOUS
    <2> USE DEF EngineInit
    <2>1. store \in [Hosts -> Nat]
      OBVIOUS
    <2>2. owed \in SUBSET Hosts /\ lost \in SUBSET Hosts
      OBVIOUS
    <2>3. queue \in Seq(Notices)
      BY <1>0
    <2>4. lagged \in BOOLEAN /\ outcome \in {"running", "ok", "err"} /\ notices \in Nat
      OBVIOUS
    <2> QED BY <2>1, <2>2, <2>3, <2>4 DEF EngineTypeOK
  <1>2. FollowerInit => FollowerTypeOK /\ fpc # "push"
    <2> SUFFICES ASSUME FollowerInit PROVE FollowerTypeOK /\ fpc # "push"
      OBVIOUS
    <2> USE DEF FollowerInit
    <2>1. todo \in Seq(Bodies) /\ log \in Seq(Bodies)
      BY <1>0
    <2>2. seen \in [Hosts -> Nat]
      OBVIOUS
    <2> QED BY <2>1, <2>2 DEF FollowerTypeOK
  <1>3. WatchInit => WatchTypeOK /\ \A c \in Clients : batch[c] = {}
    BY DEF WatchInit, WatchTypeOK
  <1> QED BY <1>1, <1>2, <1>3

\* Every step of the engine, the follower and a client keeps the types.
LEMMA TypeStep == TypeInv /\ [Next]_vars => TypeInv'
  <1> SUFFICES ASSUME TypeInv, [Next]_vars PROVE TypeInv'
    OBVIOUS
  <1> USE DEF TypeInv, TypeOK, EngineTypeOK, FollowerTypeOK, WatchTypeOK
  <1>1. ASSUME NEW h \in Hosts, Touch(h) PROVE TypeInv'
    BY <1>1 DEF Touch, follower, watch
  <1>2. ASSUME NEW n \in Notices, Send(n)
        PROVE  /\ queue' \in Seq(Notices) /\ lagged' \in BOOLEAN
               /\ lost' \in SUBSET Hosts /\ notices' \in Nat
    <2>1. CASE Len(queue) >= Capacity
      <3>1. queue # <<>>
        BY <2>1, ConstantsAssumption
      <3> QED BY <1>2, <2>1, <3>1 DEF Send
    <2>2. CASE ~(Len(queue) >= Capacity)
      BY <1>2, <2>2 DEF Send
    <2> QED BY <2>1, <2>2
  <1>3. ASSUME NEW h \in Hosts, Announce(h) PROVE TypeInv'
    <2>1. Notice("host", h) \in Notices
      BY DEF Notice, Notices
    <2> QED BY <1>2, <1>3, <2>1 DEF Announce, follower, watch
  <1>4. CASE NextStage
    <2>1. Notice("stage", NoHost) \in Notices
      BY DEF Notice, Notices
    <2> QED BY <1>2, <1>4, <2>1 DEF NextStage, follower, watch
  <1>5. CASE ScannerFails
    <2>1. Notice("failure", NoHost) \in Notices
      BY DEF Notice, Notices
    <2> QED BY <1>2, <1>5, <2>1 DEF ScannerFails, follower, watch
  <1>6. CASE Finish
    BY <1>6 DEF Finish, follower, watch
  <1>7. CASE ReceiveLagged
    BY <1>7 DEF ReceiveLagged, follower, watch
  <1>8. CASE Receive
    <2>1. Head(queue) \in Notices /\ Tail(queue) \in Seq(Notices)
      BY <1>8 DEF Receive
    <2>2. Says(Head(queue)) \in Seq(Bodies)
      BY <2>1, SaysType
    <2>3. seen' \in [Hosts -> Nat]
      BY <1>8, <2>1 DEF Receive, Notices
    <2> QED BY <1>8, <2>1, <2>2, <2>3 DEF Receive, watch
  <1>9. CASE Conclude
    <2>1. Body("finished") \in Bodies
      BY DEF Body, Bodies
    <2> QED BY <1>9, <2>1 DEF Conclude, engine, watch
  <1>10. CASE Push
    <2>1. Head(todo) \in Bodies /\ Tail(todo) \in Seq(Bodies)
      BY <1>10 DEF Push
    <2> QED BY <1>10, <2>1 DEF Push, engine, watch
  <1>11. CASE PushWakes
    BY <1>11 DEF PushWakes, WakeAll, engine, watch
  <1>12. CASE Close
    BY <1>12 DEF Close, engine, watch
  <1>13. CASE CloseWakes
    BY <1>13 DEF CloseWakes, WakeAll, engine, watch
  <1>14. ASSUME NEW c \in Clients, Open(c) \/ Watch(c) \/ Drop(c) PROVE TypeInv'
    <2> USE DEF Goto, engine, follower, Snapshotting, Tailing, Over
    <2>1. CASE Open(c)
      BY <2>1 DEF Open
    <2>2. CASE Mark(c)
      BY <2>2 DEF Mark
    <2>3. CASE ReadHosts(c)
      BY <2>3 DEF ReadHosts
    <2>4. ASSUME NEW h \in Hosts, SendHost(c, h) PROVE TypeInv'
      BY <2>4 DEF SendHost
    <2>5. CASE SendProgress(c)
      BY <2>5 DEF SendProgress
    <2>6. CASE Register(c)
      BY <2>6 DEF Register
    <2>7. CASE Read(c)
      BY <2>7 DEF Read, After
    <2>8. CASE Check(c)
      BY <2>8 DEF Check
    <2>9. CASE Wake(c)
      BY <2>9 DEF Wake
    <2>10. CASE SendEvent(c)
      <3>1. PICK i \in batch[c] :
              /\ cursor' = [cursor EXCEPT ![c] = IF i > @ THEN i ELSE @]
              /\ number' = [number EXCEPT ![c] = i]
              /\ known' = IF log[i].kind = "host"
                          THEN [known EXCEPT ![c][log[i].host] = log[i].doc]
                          ELSE known
              /\ batch' = [batch EXCEPT ![c] = @ \ {i}]
              /\ wpc' = [wpc EXCEPT ![c] =
                                IF batch[c] = {i} THEN "register" ELSE "send"]
        BY <2>10 DEF SendEvent
      <3>2. i \in 1..Len(log) /\ log[i] \in Bodies
        OBVIOUS
      <3>3. log[i].kind = "host" => log[i].host \in Hosts /\ log[i].doc \in Nat
        BY <3>2 DEF Bodies
      <3>4. known' \in [Clients -> [Hosts -> Nat]]
        BY <3>1, <3>3
      <3>5. UNCHANGED <<engine, follower, snap, woken, late, opens>>
        BY <2>10 DEF SendEvent
      <3>6. batch' \in [Clients -> SUBSET Nat] /\ \A d \in Clients : batch'[d] \subseteq 1..Len(log)
        BY <3>1
      <3>7. wpc' \in [Clients -> {"idle"} \cup Snapshotting \cup Tailing \cup Over]
        BY <3>1
      <3>8. cursor' \in [Clients -> Nat] /\ number' \in [Clients -> Nat]
        BY <3>1, <3>2
      <3> QED BY <3>4, <3>5, <3>6, <3>7, <3>8
    <2>11. CASE End(c)
      BY <2>11 DEF End
    <2>12. CASE Drop(c)
      BY <2>12 DEF Drop
    <2> QED BY <1>14, <2>1, <2>2, <2>3, <2>4, <2>5, <2>6, <2>7, <2>8, <2>9,
               <2>10, <2>11, <2>12 DEF Watch
  <1>15. CASE UNCHANGED vars
    BY <1>15 DEF vars, engine, follower, watch
  <1> QED BY <1>1, <1>3, <1>4, <1>5, <1>6, <1>7, <1>8, <1>9, <1>10, <1>11,
             <1>12, <1>13, <1>14, <1>15 DEF Next, Engine, Follower

\* Every variable keeps its type in every reachable state.
THEOREM TypeCorrect == Spec => []TypeOK
  <1>1. TypeInv => TypeOK
    BY DEF TypeInv
  <1> QED BY TypeInit, TypeStep, <1>1, PTL DEF Spec

-----------------------------------------------------------------------------
(* Who writes what.                                                        *)

\* The engine leaves the follower's and the clients' variables alone.
LEMMA EngineWrites ==
    Engine => /\ UNCHANGED <<follower, watch, woken>>
              /\ TypeInv => \A h \in Hosts : store'[h] >= store[h]
  <1> SUFFICES ASSUME Engine
               PROVE  /\ UNCHANGED <<follower, watch, woken>>
                      /\ TypeInv => \A h \in Hosts : store'[h] >= store[h]
    OBVIOUS
  <1> USE DEF TypeInv, TypeOK, EngineTypeOK
  <1>1. ASSUME NEW h \in Hosts, Touch(h)
        PROVE  /\ UNCHANGED <<follower, watch, woken>>
               /\ TypeInv => \A g \in Hosts : store'[g] >= store[g]
    BY <1>1 DEF Touch
  <1>2. ASSUME NEW h \in Hosts, Announce(h)
        PROVE  UNCHANGED <<store, follower, watch, woken>>
    BY <1>2 DEF Announce
  <1>3. NextStage \/ ScannerFails \/ Finish
          => UNCHANGED <<store, follower, watch, woken>>
    BY DEF NextStage, ScannerFails, Finish
  <1> QED BY <1>1, <1>2, <1>3 DEF Engine

\* The follower leaves the engine's store and the watches alone.
LEMMA FollowerWrites == Follower => UNCHANGED <<store, outcome, lost, watch>>
  BY DEF Follower, ReceiveLagged, Receive, Conclude, Push, PushWakes, Close,
         CloseWakes, engine

\* A client leaves the engine, the follower and the other watches alone.
LEMMA ClientWrites ==
    ASSUME NEW c \in Clients, Open(c) \/ Watch(c) \/ Drop(c)
    PROVE  UNCHANGED <<engine, follower>>
  BY DEF Open, Watch, Drop, Mark, ReadHosts, SendHost, SendProgress, Register,
         Read, Check, Wake, SendEvent, End

-----------------------------------------------------------------------------
(* What the log holds.                                                     *)

\* The follower has something to say only between taking a notice and
\* waking the readers, and a host or the end is said alone.  What it is
\* about to say of a host is newer than all the log says of it.
TodoInv ==
    /\ fpc \notin {"push", "wake"} => todo = <<>>
    /\ \A k \in 1..Len(todo) :
         /\ todo[k].kind \in {"host", "finished"} => Len(todo) = 1 /\ fpc = "push"
         /\ todo[k].kind = "host" =>
              /\ todo[k].doc = seen[todo[k].host]
              /\ \A i \in 1..Len(log) :
                   log[i].kind = "host" /\ log[i].host = todo[k].host
                     => log[i].doc < todo[k].doc

\* What was last found to be news is no newer than the store, and the log is
\* no newer than that.
NewsInv ==
    /\ \A h \in Hosts : seen[h] <= store[h]
    /\ \A i \in 1..Len(log) : log[i].kind = "host" => log[i].doc <= seen[log[i].host]
    /\ EveryEntryIsNews

\* Once Finished is in the log the follower only wakes and closes.
EndInv ==
    /\ \A i \in 1..Len(log) : log[i].kind = "finished" =>
         i = Len(log) /\ todo = <<>> /\ fpc \in {"wake", "close", "last", "done"}
    /\ fpc \in {"wake", "close", "last", "done"} => log # <<>>
    /\ fpc \in {"close", "last", "done"} => log[Len(log)].kind = "finished"
    /\ closed => fpc \in {"last", "done"}

LogInv == TodoInv /\ NewsInv /\ EndInv

\* The log's invariant holds of an empty log.
LEMMA LogInit == Init => LogInv
  BY DEF Init, EngineInit, FollowerInit, LogInv, TodoInv, NewsInv, EndInv,
         EveryEntryIsNews

\* The log invariant reads nothing but the follower and the store, and
\* survives the store moving on.
LEMMA LogStutter ==
    ASSUME TypeInv, TypeInv', LogInv, UNCHANGED follower,
           \A h \in Hosts : store'[h] >= store[h]
    PROVE  LogInv'
  <1>1. TodoInv'
    BY DEF LogInv, TodoInv, follower
  <1>2. EndInv'
    BY DEF LogInv, EndInv, follower
  <1>3. NewsInv'
    <2>1. \A h \in Hosts : seen'[h] <= store'[h]
      BY DEF LogInv, NewsInv, follower, TypeInv, TypeOK, EngineTypeOK, FollowerTypeOK
    <2> QED BY <2>1 DEF LogInv, NewsInv, follower, EveryEntryIsNews
  <1> QED BY <1>1, <1>2, <1>3 DEF LogInv

\* Taking a notice keeps the log's invariant: what it queues to be pushed is
\* newer than every entry about its host (Log::changed).
LEMMA ReceiveKeepsLog ==
    ASSUME TypeInv, TypeInv', LogInv, Receive PROVE LogInv'
  <1> DEFINE n == Head(queue)
  <1>0. /\ store \in [Hosts -> Nat] /\ seen \in [Hosts -> Nat]
        /\ log \in Seq(Bodies) /\ queue \in Seq(Notices)
    BY DEF TypeInv, TypeOK, EngineTypeOK, FollowerTypeOK
  <1>1. /\ fpc = "recv" /\ todo = <<>> /\ n \in Notices
        /\ todo' = Says(n)
        /\ fpc' = IF todo' = <<>> THEN "recv" ELSE "push"
        /\ UNCHANGED <<store, log, closed>>
    BY <1>0 DEF Receive, LogInv, TodoInv
  <1>2. ~closed /\ \A i \in 1..Len(log) : log[i].kind # "finished"
    BY <1>1 DEF LogInv, EndInv
  <1>3. CASE n.kind = "host" /\ store[n.host] > 0 /\ Changed(n.host)
    <2>1. /\ n.host \in Hosts
          /\ todo' = <<HostChanged(n.host, store[n.host])>>
          /\ seen' = [seen EXCEPT ![n.host] = store[n.host]]
          /\ seen[n.host] < store[n.host]
      BY <1>0, <1>1, <1>3 DEF Receive, Says, Changed, Notices, LogInv, NewsInv
    <2>2. fpc' = "push"
      <3>1. todo'[1] = HostChanged(n.host, store[n.host]) /\ Len(todo') = 1
        BY <2>1
      <3>2. todo' # <<>>
        <4>1. Len(<<>>) = 0
          OBVIOUS
        <4> HIDE DEF n
        <4> QED BY ONLY <3>1, <4>1
      <3> QED BY <1>1, <3>2
    <2>3. \A i \in 1..Len(log) : log[i].kind = "host" =>
            log[i].host \in Hosts /\ log[i].doc \in Nat
      <3>1. \A i \in 1..Len(log) : log[i] \in Bodies
        BY <1>0
      <3> QED BY <3>1 DEF Bodies
    <2>4. NewsInv'
      <3>1. log' = log /\ store' = store /\ \A h \in Hosts : seen[h] <= seen'[h]
        BY <1>0, <1>1, <2>1
      <3>2. \A h \in Hosts : seen'[h] <= store'[h]
        BY <1>0, <1>1, <2>1 DEF LogInv, NewsInv
      <3>3. \A i \in 1..Len(log) : log[i].kind = "host" => log[i].doc <= seen'[log[i].host]
        <4> SUFFICES ASSUME NEW i \in 1..Len(log), log[i].kind = "host"
                     PROVE  log[i].doc <= seen'[log[i].host]
          OBVIOUS
        <4>1. log[i].doc \in Nat /\ log[i].host \in Hosts
          BY <2>3
        <4>2. log[i].doc <= seen[log[i].host] /\ seen[log[i].host] <= seen'[log[i].host]
          BY <3>1, <4>1 DEF LogInv, NewsInv
        <4>3. seen[log[i].host] \in Nat /\ seen'[log[i].host] \in Nat
          BY <1>0, <2>1, <4>1
        <4> QED BY <4>1, <4>2, <4>3
      <3>4. EveryEntryIsNews'
        BY <3>1 DEF LogInv, NewsInv, EveryEntryIsNews
      <3> QED BY <3>1, <3>2, <3>3, <3>4 DEF NewsInv
    <2>5. TodoInv'
      <3>1. /\ Len(todo') = 1
            /\ todo'[1].kind = "host" /\ todo'[1].host = n.host
            /\ todo'[1].doc = seen'[n.host]
        BY <1>0, <2>1 DEF HostChanged
      <3>2. \A i \in 1..Len(log) : log[i].kind = "host" /\ log[i].host = n.host
              => log[i].doc < seen'[n.host]
        BY <1>0, <2>1, <2>3 DEF LogInv, NewsInv
      <3> QED BY <1>1, <2>2, <3>1, <3>2 DEF TodoInv
    <2>6. EndInv'
      BY <1>1, <1>2, <2>2 DEF EndInv
    <2> QED BY <2>4, <2>5, <2>6 DEF LogInv
  <1>4. CASE ~(n.kind = "host" /\ store[n.host] > 0 /\ Changed(n.host))
    <2>1. seen' = seen
      BY <1>0, <1>1, <1>4 DEF Receive, Changed, Notices
    <2>2. todo' \in {<<>>, <<Body("stage"), Body("progress")>>, <<Body("failure")>>}
      BY <1>1, <1>4 DEF Says, Notices
    <2>3. \A k \in 1..Len(todo') : todo'[k].kind \notin {"host", "finished"}
      BY <2>2 DEF Body
    <2>4. NewsInv'
      BY <1>0, <1>1, <2>1 DEF LogInv, NewsInv, EveryEntryIsNews
    <2>5. TodoInv'
      BY <1>1, <2>3 DEF TodoInv
    <2>6. EndInv'
      BY <1>1, <1>2 DEF EndInv
    <2> QED BY <2>4, <2>5, <2>6 DEF LogInv
  <1> QED BY <1>3, <1>4

\* Appending what is queued keeps the log's invariant (Log::push).
LEMMA PushKeepsLog ==
    ASSUME TypeInv, TypeInv', LogInv, Push PROVE LogInv'
  <1> DEFINE b == Head(todo)
  <1>0. /\ store \in [Hosts -> Nat] /\ seen \in [Hosts -> Nat]
        /\ log \in Seq(Bodies) /\ todo \in Seq(Bodies)
        /\ fpc = "push" => todo # <<>>
    BY DEF TypeInv, TypeOK, EngineTypeOK, FollowerTypeOK
  <1>1. /\ fpc = "push" /\ fpc' = "wake"
        /\ todo # <<>> /\ b = todo[1] /\ b \in Bodies
        /\ Len(todo) \in Nat /\ Len(todo) >= 1
        /\ todo' = Tail(todo) /\ log' = Append(log, b)
        /\ UNCHANGED <<store, seen, closed>>
    BY <1>0 DEF Push, engine
  <1>2. /\ Len(log') = Len(log) + 1 /\ log'[Len(log) + 1] = b
        /\ \A i \in 1..Len(log) : log'[i] = log[i]
        /\ Len(log) \in Nat
    BY <1>0, <1>1
  <1>3. \A k \in 1..Len(todo') : k + 1 \in 1..Len(todo) /\ todo'[k] = todo[k + 1]
    BY <1>0, <1>1
  <1>4. \A k \in 1..Len(todo') : todo'[k].kind \notin {"host", "finished"}
    <2> SUFFICES ASSUME NEW k \in 1..Len(todo'), todo'[k].kind \in {"host", "finished"}
                 PROVE  FALSE
      OBVIOUS
    <2>1. Len(todo) = 1
      BY <1>3 DEF LogInv, TodoInv
    <2> QED BY <1>3, <2>1
  <1>5. TodoInv'
    BY <1>1, <1>4 DEF TodoInv
  <1>6. b.kind = "host" => /\ b.doc = seen[b.host]
                           /\ \A i \in 1..Len(log) :
                                log[i].kind = "host" /\ log[i].host = b.host
                                  => log[i].doc < b.doc
    BY <1>1 DEF LogInv, TodoInv
  <1>7. NewsInv'
    <2>1. b.kind = "host" => b.host \in Hosts /\ b.doc \in Nat
      BY <1>1 DEF Bodies
    <2>2. \A i \in 1..Len(log') : log'[i].kind = "host" => log'[i].doc <= seen'[log'[i].host]
      BY <1>0, <1>1, <1>2, <1>6, <2>1 DEF LogInv, NewsInv
    <2>3. EveryEntryIsNews'
      <3> SUFFICES ASSUME NEW i \in 1..Len(log'), NEW j \in 1..Len(log'), i < j,
                          log'[i].kind = "host", log'[j].kind = "host",
                          log'[i].host = log'[j].host
                   PROVE  log'[i].doc < log'[j].doc
        BY DEF EveryEntryIsNews
      <3>1. i \in 1..Len(log) /\ log'[i] = log[i]
        BY <1>2
      <3>2. CASE j \in 1..Len(log)
        BY <1>2, <3>1, <3>2 DEF LogInv, NewsInv, EveryEntryIsNews
      <3>3. CASE j = Len(log) + 1
        BY <1>2, <1>6, <3>1, <3>3
      <3>4. j \in 1..Len(log) \/ j = Len(log) + 1
        BY <1>2
      <3> QED BY <3>2, <3>3, <3>4
    <2> QED BY <1>1, <2>2, <2>3 DEF LogInv, NewsInv
  <1>8. EndInv'
    <2>1. \A i \in 1..Len(log) : log[i].kind # "finished"
      BY <1>1 DEF LogInv, EndInv
    <2>2. ~closed'
      BY <1>1 DEF LogInv, EndInv
    <2>3. b.kind = "finished" => todo' = <<>>
      <3> HAVE b.kind = "finished"
      <3>1. Len(todo) = 1
        BY <1>1 DEF LogInv, TodoInv
      <3> QED BY <1>0, <1>1, <3>1
    <2> QED BY <1>1, <1>2, <2>1, <2>2, <2>3 DEF EndInv
  <1> QED BY <1>5, <1>7, <1>8 DEF LogInv

\* Every step keeps the log's invariant.
LEMMA LogStep == TypeInv /\ TypeInv' /\ LogInv /\ [Next]_vars => LogInv'
  <1> SUFFICES ASSUME TypeInv, TypeInv', LogInv, [Next]_vars PROVE LogInv'
    OBVIOUS
  <1> USE DEF TypeInv, TypeOK, EngineTypeOK, FollowerTypeOK
  <1>1. CASE Engine
    BY <1>1, EngineWrites, LogStutter
  <1>2. ASSUME NEW c \in Clients, Open(c) \/ Watch(c) \/ Drop(c) PROVE LogInv'
    BY <1>2, ClientWrites, LogStutter DEF engine
  <1>3. CASE UNCHANGED vars
    BY <1>3, LogStutter DEF vars, engine
  <1>4. CASE Receive
    BY <1>4, ReceiveKeepsLog
  <1>5. CASE Push
    BY <1>5, PushKeepsLog
  <1>6. CASE ReceiveLagged
    BY <1>6, LogStutter DEF ReceiveLagged
  <1>7. CASE Conclude
    <2>1. /\ fpc = "recv" /\ fpc' = "push"
          /\ todo' = <<Body("finished")>> /\ todo'[1].kind = "finished" /\ Len(todo') = 1
          /\ UNCHANGED <<store, seen, log, closed>>
      BY <1>7 DEF Conclude, Body, engine
    <2>2. NewsInv'
      BY <2>1 DEF LogInv, NewsInv, EveryEntryIsNews
    <2>3. TodoInv'
      BY <2>1 DEF TodoInv
    <2>4. EndInv'
      BY <2>1 DEF LogInv, EndInv
    <2> QED BY <2>2, <2>3, <2>4 DEF LogInv
  <1>8. CASE PushWakes
    <2>1. /\ fpc = "wake" /\ UNCHANGED <<store, todo, seen, log, closed>>
          /\ fpc' = IF todo # <<>> THEN "push"
                    ELSE IF log[Len(log)].kind = "finished" THEN "close" ELSE "recv"
      BY <1>8 DEF PushWakes, engine
    <2>2. NewsInv'
      BY <2>1 DEF LogInv, NewsInv, EveryEntryIsNews
    <2>3. TodoInv'
      BY <2>1 DEF LogInv, TodoInv
    <2>4. EndInv'
      BY <2>1 DEF LogInv, EndInv
    <2> QED BY <2>2, <2>3, <2>4 DEF LogInv
  <1>9. CASE Close \/ CloseWakes
    <2>1. /\ fpc \in {"close", "last"} /\ fpc' \in {"last", "done"}
          /\ UNCHANGED <<store, todo, seen, log>>
      BY <1>9 DEF Close, CloseWakes, engine
    <2>2. NewsInv'
      BY <2>1 DEF LogInv, NewsInv, EveryEntryIsNews
    <2>3. TodoInv'
      BY <2>1 DEF LogInv, TodoInv
    <2>4. EndInv'
      BY <2>1 DEF LogInv, EndInv
    <2> QED BY <2>2, <2>3, <2>4 DEF LogInv
  <1> QED BY <1>1, <1>2, <1>3, <1>4, <1>5, <1>6, <1>7, <1>8, <1>9
          DEF Next, Follower

\* In the log, no entry repeats what an earlier one said of its host, for
\* any number of hosts and announcements.
THEOREM LogIsNews == Spec => []EveryEntryIsNews
  <1>1. LogInv => EveryEntryIsNews
    BY DEF LogInv, NewsInv
  <1> QED BY TypeInit, TypeStep, LogInit, LogStep, <1>1, PTL DEF Spec

\* Finished is said once, last, and before the scan is over for anybody.
THEOREM FinishedEndsTheLog == Spec => []FinishedIsLast
  <1>1. LogInv => FinishedIsLast
    BY DEF LogInv, EndInv, FinishedIsLast
  <1> QED BY TypeInit, TypeStep, LogInit, LogStep, <1>1, PTL DEF Spec

\* The log only grows, and not once it is closed.
LEMMA LogGrows ==
    ASSUME TypeInv, LogInv, [Next]_vars
    PROVE  /\ Len(log') >= Len(log)
           /\ \A i \in 1..Len(log) : log'[i] = log[i]
           /\ closed => log' = log /\ closed'
           /\ Len(log) \in Nat /\ Len(log') \in Nat
  <1>0. log \in Seq(Bodies) /\ todo \in Seq(Bodies) /\ (fpc = "push" => todo # <<>>)
    BY DEF TypeInv, TypeOK, FollowerTypeOK
  <1>1. CASE UNCHANGED <<log, closed>>
    BY <1>0, <1>1
  <1>2. CASE Push
    <2>1. ~closed
      BY <1>2 DEF Push, LogInv, EndInv
    <2>2. Head(todo) \in Bodies /\ log' = Append(log, Head(todo))
      BY <1>0, <1>2 DEF Push
    <2> QED BY <1>0, <2>1, <2>2
  <1>3. CASE Close
    BY <1>0, <1>3 DEF Close
  <1>4. CASE Follower /\ ~Push /\ ~Close
    BY <1>1, <1>4 DEF Follower, ReceiveLagged, Receive, Conclude, PushWakes,
                      CloseWakes, follower
  <1>5. CASE Engine
    BY <1>1, <1>5, EngineWrites DEF follower
  <1>6. ASSUME NEW c \in Clients, Open(c) \/ Watch(c) \/ Drop(c)
        PROVE  UNCHANGED <<log, closed>>
    BY <1>6, ClientWrites DEF follower
  <1>7. CASE UNCHANGED vars
    BY <1>1, <1>7 DEF vars, follower
  <1> QED BY <1>1, <1>2, <1>3, <1>4, <1>5, <1>6, <1>7 DEF Next

\* No event is ever changed, renumbered or taken back, and none follows the
\* end.
THEOREM LogNeverRewritten == Spec => LogOnlyGrows
  <1>1. TypeInv /\ LogInv /\ [Next]_vars =>
          [/\ Len(log') >= Len(log)
           /\ \A i \in 1..Len(log) : log'[i] = log[i]
           /\ closed => log' = log /\ closed']_vars
    BY LogGrows
  <1> QED BY TypeInit, TypeStep, LogInit, LogStep, <1>1, PTL DEF Spec, LogOnlyGrows

-----------------------------------------------------------------------------
(* What the clients have of it.                                            *)

\* A watch's cursor and its client's number are places the log has, and in
\* the tail they are the same one.  What `after` returned is all there was
\* past the cursor.
CursorInv(c) ==
    /\ number[c] <= Len(log) /\ cursor[c] <= Len(log)
    /\ wpc[c] \in Tailing \cup Over => cursor[c] = number[c]
    /\ wpc[c] \in {"hosts", "snapshot"} => number[c] <= cursor[c]
    /\ wpc[c] \notin {"check", "send"} => batch[c] = {}
    /\ \A i \in batch[c] : i > cursor[c] /\ \A j \in cursor[c] + 1 .. i : j \in batch[c]

\* A snapshot frame not yet sent is at least as new as the log was at the
\* mark; one already sent, or never needed, left the client as new.
SnapInv(c) ==
    wpc[c] = "snapshot" =>
        \A i \in 1..cursor[c] : log[i].kind = "host" =>
            \/ snap[c][log[i].host] >= log[i].doc
            \/ snap[c][log[i].host] = 0 /\ known[c][log[i].host] >= log[i].doc

\* A watch in its last steps belongs to a scan that is over, and one opened
\* after the end has read to the end.
OverInv(c) ==
    /\ late[c] \/ wpc[c] \in Over => closed
    /\ late[c] /\ (wpc[c] \in Over \/ (wpc[c] = "check" /\ batch[c] = {}))
         => cursor[c] = Len(log)

ViewInv == \A c \in Clients : CursorInv(c) /\ SnapInv(c) /\ OverInv(c)
                              /\ Covers(known[c], number[c])

\* The clients' invariant holds before anybody has watched.
LEMMA ViewInit == Init => ViewInv
  BY DEF Init, FollowerInit, WatchInit, ViewInv, CursorInv, SnapInv, OverInv,
         Covers, Tailing, Over

\* What a client has does not change when others act: the log only grows.
LEMMA ViewStutter ==
    ASSUME TypeInv, LogInv, [Next]_vars, NEW c \in Clients,
           CursorInv(c), SnapInv(c), OverInv(c), Covers(known[c], number[c]),
           wpc'[c] = wpc[c], cursor'[c] = cursor[c], snap'[c] = snap[c],
           batch'[c] = batch[c], late'[c] = late[c], number'[c] = number[c],
           known'[c] = known[c]
    PROVE  CursorInv(c)' /\ SnapInv(c)' /\ OverInv(c)' /\ Covers(known[c], number[c])'
  <1>0. cursor[c] \in Nat /\ number[c] \in Nat
    BY DEF TypeInv, TypeOK, WatchTypeOK
  <1>1. /\ Len(log') >= Len(log) /\ Len(log) \in Nat /\ Len(log') \in Nat
        /\ \A i \in 1..Len(log) : log'[i] = log[i]
        /\ closed => log' = log /\ closed'
    BY LogGrows
  <1>2. CursorInv(c)'
    BY <1>0, <1>1 DEF CursorInv
  <1>3. SnapInv(c)'
    BY <1>0, <1>1 DEF SnapInv, CursorInv
  <1>4. OverInv(c)'
    BY <1>1 DEF OverInv
  <1>5. Covers(known[c], number[c])'
    BY <1>0, <1>1 DEF Covers, CursorInv
  <1> QED BY <1>2, <1>3, <1>4, <1>5

\* What a client has is kept by the steps of the other clients.
LEMMA OthersKeep ==
    ASSUME TypeInv, NEW c \in Clients, NEW d \in Clients, c # d,
           Open(c) \/ Watch(c) \/ Drop(c)
    PROVE  /\ wpc'[d] = wpc[d] /\ cursor'[d] = cursor[d] /\ snap'[d] = snap[d]
           /\ batch'[d] = batch[d] /\ late'[d] = late[d] /\ number'[d] = number[d]
           /\ known'[d] = known[d]
  <1> USE DEF TypeInv, TypeOK, WatchTypeOK, Goto
  <1>1. CASE Open(c) \/ Drop(c)
    BY <1>1 DEF Open, Drop
  <1>2. CASE Mark(c) \/ ReadHosts(c) \/ SendProgress(c)
    BY <1>2 DEF Mark, ReadHosts, SendProgress
  <1>3. CASE \E h \in Hosts : SendHost(c, h)
    BY <1>3 DEF SendHost
  <1>4. CASE Register(c) \/ Read(c) \/ Check(c) \/ Wake(c) \/ End(c)
    BY <1>4 DEF Register, Read, Check, Wake, End
  <1>5. CASE SendEvent(c)
    BY <1>5 DEF SendEvent
  <1> QED BY <1>1, <1>2, <1>3, <1>4, <1>5 DEF Watch

\* What a client has is kept by its own steps, a frame at a time.
LEMMA ClientStep ==
    ASSUME ~TrustFrames, TypeInv, TypeInv', LogInv, ViewInv,
           NEW c \in Clients, Open(c) \/ Watch(c) \/ Drop(c)
    PROVE  CursorInv(c)' /\ SnapInv(c)' /\ OverInv(c)' /\ Covers(known[c], number[c])'
  <1> DEFINE Goal == CursorInv(c)' /\ SnapInv(c)' /\ OverInv(c)' /\ Covers(known[c], number[c])'
  <1>0. log' = log /\ closed' = closed /\ store' = store
    BY ClientWrites DEF engine, follower
  <1>t. /\ cursor \in [Clients -> Nat] /\ number \in [Clients -> Nat]
        /\ wpc \in [Clients -> {"idle"} \cup Snapshotting \cup Tailing \cup Over]
        /\ batch \in [Clients -> SUBSET Nat] /\ late \in [Clients -> BOOLEAN]
        /\ snap \in [Clients -> [Hosts -> Nat]] /\ known \in [Clients -> [Hosts -> Nat]]
        /\ Len(log) \in Nat /\ store \in [Hosts -> Nat] /\ seen \in [Hosts -> Nat]
    <2>1. log \in Seq(Bodies) /\ seen \in [Hosts -> Nat] /\ store \in [Hosts -> Nat]
      BY DEF TypeInv, TypeOK, FollowerTypeOK, EngineTypeOK
    <2>2. Len(log) \in Nat
      BY <2>1
    <2>3. WatchTypeOK
      BY DEF TypeInv, TypeOK
    <2> QED BY <2>1, <2>2, <2>3 DEF WatchTypeOK
  <1>l. \A i \in 1..Len(log) : log[i].kind = "host" =>
           /\ log[i].host \in Hosts /\ log[i].doc \in Nat
           /\ log[i].doc <= store[log[i].host]
    <2>1. \A i \in 1..Len(log) : log[i] \in Bodies
      BY DEF TypeInv, TypeOK, FollowerTypeOK
    <2>2. \A i \in 1..Len(log) : log[i].kind = "host" =>
            log[i].host \in Hosts /\ log[i].doc \in Nat
      BY <2>1 DEF Bodies
    <2> QED BY <2>2, <1>t DEF LogInv, NewsInv
  <1>i. CursorInv(c) /\ SnapInv(c) /\ OverInv(c) /\ Covers(known[c], number[c])
    BY DEF ViewInv
  <1> USE DEF Goto, Snapshotting, Tailing, Over
  <1>1. CASE Open(c)
    <2>1. PICK from \in {0, number[c]} :
             /\ cursor' = [cursor EXCEPT ![c] = from]
             /\ wpc' = [wpc EXCEPT ![c] = IF from = 0 THEN "mark" ELSE "register"]
      BY <1>1 DEF Open
    <2>2. /\ cursor'[c] = from
          /\ wpc'[c] = IF from = 0 THEN "mark" ELSE "register"
          /\ late'[c] = closed /\ snap' = snap /\ batch' = batch
          /\ number' = number /\ known' = known /\ wpc[c] \in {"idle", "ended"}
      BY <1>1, <1>t, <2>1 DEF Open
    <2>3. batch[c] = {}
      BY <1>i, <2>2 DEF CursorInv
    <2>4. CursorInv(c)'
      BY <1>0, <1>t, <1>i, <2>2, <2>3 DEF CursorInv
    <2>5. SnapInv(c)' /\ OverInv(c)'
      BY <1>0, <2>2 DEF SnapInv, OverInv
    <2> QED BY <1>0, <1>i, <2>2, <2>4, <2>5 DEF Covers
  <1>2. CASE Mark(c)
    <2>1. /\ cursor'[c] = Len(log) /\ wpc'[c] = "hosts" /\ wpc[c] = "mark"
          /\ snap' = snap /\ batch' = batch /\ late' = late
          /\ number' = number /\ known' = known
      BY <1>2, <1>t DEF Mark
    <2>2. batch[c] = {}
      BY <1>i, <2>1 DEF CursorInv
    <2>3. CursorInv(c)'
      BY <1>0, <1>t, <1>i, <2>1, <2>2 DEF CursorInv
    <2>4. SnapInv(c)' /\ OverInv(c)'
      BY <1>0, <1>i, <2>1 DEF SnapInv, OverInv
    <2> QED BY <1>0, <1>i, <2>1, <2>3, <2>4 DEF Covers
  <1>3. CASE ReadHosts(c)
    <2>1. /\ snap'[c] = store /\ wpc'[c] = "snapshot" /\ wpc[c] = "hosts"
          /\ cursor' = cursor /\ batch' = batch /\ late' = late
          /\ number' = number /\ known' = known
      BY <1>3, <1>t DEF ReadHosts
    <2>2. CursorInv(c)'
      BY <1>0, <1>t, <1>i, <2>1 DEF CursorInv
    <2>3. SnapInv(c)'
      <3> SUFFICES ASSUME NEW i \in 1..cursor[c], log[i].kind = "host"
                   PROVE  store[log[i].host] >= log[i].doc
        BY <1>0, <2>1 DEF SnapInv
      <3>1. i \in 1..Len(log)
        BY <1>t, <1>i DEF CursorInv
      <3> QED BY <1>t, <1>l, <3>1
    <2>4. OverInv(c)'
      BY <1>0, <1>i, <2>1 DEF OverInv
    <2> QED BY <1>0, <1>i, <2>1, <2>2, <2>3, <2>4 DEF Covers
  <1>4. ASSUME NEW h \in Hosts, SendHost(c, h) PROVE Goal
    <2>1. /\ wpc[c] = "snapshot" /\ wpc' = wpc /\ snap[c][h] > 0
          /\ known'[c] = [known[c] EXCEPT ![h] = snap[c][h]]
          /\ snap'[c] = [snap[c] EXCEPT ![h] = 0]
          /\ cursor' = cursor /\ batch' = batch /\ late' = late /\ number' = number
      BY <1>4, <1>t DEF SendHost
    <2>2. \A i \in 1..cursor[c] : i \in 1..Len(log)
      BY <1>t, <1>i DEF CursorInv
    <2>3. \A i \in 1..cursor[c] : log[i].kind = "host" /\ log[i].host = h
            => snap[c][h] >= log[i].doc
      <3> SUFFICES ASSUME NEW i \in 1..cursor[c], log[i].kind = "host", log[i].host = h
                   PROVE  snap[c][h] >= log[i].doc
        OBVIOUS
      <3>1. \/ snap[c][h] >= log[i].doc
            \/ snap[c][h] = 0
        BY <1>i, <2>1 DEF SnapInv
      <3> QED BY <1>t, <2>1, <3>1
    <2>4. CursorInv(c)'
      BY <1>0, <1>i, <2>1 DEF CursorInv
    <2>5. SnapInv(c)'
      <3> SUFFICES ASSUME NEW i \in 1..cursor[c], log[i].kind = "host"
                   PROVE  \/ snap'[c][log[i].host] >= log[i].doc
                          \/ snap'[c][log[i].host] = 0 /\ known'[c][log[i].host] >= log[i].doc
        BY <1>0, <2>1 DEF SnapInv
      <3>1. CASE log[i].host = h
        <4>1. snap[c][h] >= log[i].doc
          BY <2>3, <3>1
        <4>2. snap'[c][h] = 0 /\ known'[c][h] = snap[c][h]
          BY <1>t, <2>1
        <4> QED BY <3>1, <4>1, <4>2
      <3>2. CASE log[i].host # h
        <4>1. /\ snap'[c][log[i].host] = snap[c][log[i].host]
              /\ known'[c][log[i].host] = known[c][log[i].host]
          BY <1>t, <1>l, <2>1, <2>2, <3>2
        <4> QED BY <1>i, <2>1, <4>1 DEF SnapInv
      <3> QED BY <3>1, <3>2
    <2>6. Covers(known[c], number[c])'
      <3> SUFFICES ASSUME NEW i \in 1..number[c], log[i].kind = "host"
                   PROVE  known'[c][log[i].host] >= log[i].doc
        BY <1>0, <2>1 DEF Covers
      <3>1. i \in 1..cursor[c] /\ i \in 1..Len(log)
        BY <1>t, <1>i, <2>1 DEF CursorInv
      <3>2. known[c][log[i].host] >= log[i].doc
        BY <1>i DEF Covers
      <3>3. CASE log[i].host = h
        <4>1. snap[c][h] >= log[i].doc
          BY <2>3, <3>1, <3>3
        <4>2. known'[c][h] = snap[c][h]
          BY <1>t, <2>1
        <4> QED BY <3>3, <4>1, <4>2
      <3>4. CASE log[i].host # h
        <4>1. known'[c][log[i].host] = known[c][log[i].host]
          BY <1>t, <1>l, <2>1, <3>1, <3>4
        <4> QED BY <3>2, <4>1
      <3> QED BY <3>3, <3>4
    <2>7. OverInv(c)'
      BY <1>0, <1>i, <2>1 DEF OverInv
    <2> QED BY <2>4, <2>5, <2>6, <2>7
  <1>5. CASE SendProgress(c)
    <2>1. /\ wpc[c] = "snapshot" /\ wpc'[c] = "register"
          /\ \A h \in Hosts : snap[c][h] = 0
          /\ number'[c] = cursor[c] /\ cursor' = cursor /\ snap' = snap
          /\ batch' = batch /\ late' = late /\ known' = known
      BY <1>5, <1>t DEF SendProgress
    <2>2. CursorInv(c)'
      BY <1>0, <1>t, <1>i, <2>1 DEF CursorInv
    <2>3. SnapInv(c)' /\ OverInv(c)'
      BY <1>0, <1>i, <2>1 DEF SnapInv, OverInv
    <2>4. \A i \in 1..cursor[c] : i \in 1..Len(log)
      BY <1>t, <1>i DEF CursorInv
    <2>5. Covers(known[c], cursor[c])
      <3> SUFFICES ASSUME NEW i \in 1..cursor[c], log[i].kind = "host"
                   PROVE  known[c][log[i].host] >= log[i].doc
        BY DEF Covers
      <3>1. /\ log[i].host \in Hosts /\ log[i] \in Bodies
            /\ snap[c][log[i].host] = 0
        BY <1>l, <2>1, <2>4 DEF TypeInv, TypeOK, FollowerTypeOK
      <3>2. log[i].doc \in Nat /\ log[i].doc > 0
        BY <3>1 DEF Bodies
      <3> QED BY <1>i, <2>1, <3>1, <3>2 DEF SnapInv
    <2> QED BY <1>0, <2>1, <2>2, <2>3, <2>5 DEF Covers
  <1>6. CASE Register(c) \/ Wake(c)
    <2>1. /\ wpc[c] \in {"register", "wait"} /\ wpc'[c] \in {"register", "read"}
          /\ cursor' = cursor /\ snap' = snap /\ batch' = batch /\ late' = late
          /\ number' = number /\ known' = known
      BY <1>6, <1>t DEF Register, Wake
    <2>2. CursorInv(c)'
      BY <1>0, <1>i, <2>1 DEF CursorInv
    <2>3. SnapInv(c)' /\ OverInv(c)'
      BY <1>0, <1>i, <2>1 DEF SnapInv, OverInv
    <2> QED BY <1>0, <1>i, <2>1, <2>2, <2>3 DEF Covers
  <1>7. CASE Read(c)
    <2>1. /\ wpc[c] = "read" /\ wpc'[c] = "check"
          /\ batch'[c] = After(cursor[c])
          /\ cursor' = cursor /\ snap' = snap /\ late' = late
          /\ number' = number /\ known' = known
      BY <1>7, <1>t DEF Read
    <2>2. CursorInv(c)'
      BY <1>0, <1>t, <1>i, <2>1 DEF CursorInv, After
    <2>3. SnapInv(c)'
      BY <2>1 DEF SnapInv
    <2>4. OverInv(c)'
      <3>1. batch'[c] = {} => cursor[c] = Len(log)
        <4> SUFFICES ASSUME cursor[c] # Len(log) PROVE Len(log) \in batch'[c]
          OBVIOUS
        <4>1. cursor[c] \in Nat /\ cursor[c] <= Len(log)
          BY <1>t, <1>i DEF CursorInv
        <4> QED BY <1>t, <2>1, <4>1 DEF After
      <3> QED BY <1>0, <1>i, <2>1, <3>1 DEF OverInv
    <2> QED BY <1>0, <1>i, <2>1, <2>2, <2>3, <2>4 DEF Covers
  <1>8. CASE Check(c)
    <2>1. /\ wpc[c] = "check"
          /\ wpc'[c] = IF batch[c] # {} THEN "send" ELSE IF closed THEN "end" ELSE "wait"
          /\ cursor' = cursor /\ snap' = snap /\ batch' = batch /\ late' = late
          /\ number' = number /\ known' = known
      BY <1>8, <1>t DEF Check
    <2>2. CursorInv(c)'
      BY <1>0, <1>i, <2>1 DEF CursorInv
    <2>3. SnapInv(c)' /\ OverInv(c)'
      BY <1>0, <1>i, <2>1 DEF SnapInv, OverInv
    <2> QED BY <1>0, <1>i, <2>1, <2>2, <2>3 DEF Covers
  <1>9. CASE SendEvent(c)
    <2>1. PICK i \in batch[c] :
             /\ \A j \in batch[c] : i <= j
             /\ cursor' = [cursor EXCEPT ![c] = IF i > @ THEN i ELSE @]
             /\ number' = [number EXCEPT ![c] = i]
             /\ known' = IF log[i].kind = "host"
                         THEN [known EXCEPT ![c][log[i].host] = log[i].doc]
                         ELSE known
             /\ batch' = [batch EXCEPT ![c] = @ \ {i}]
             /\ wpc' = [wpc EXCEPT ![c] = IF batch[c] = {i} THEN "register" ELSE "send"]
      BY <1>9 DEF SendEvent
    <2>2. /\ i \in 1..Len(log) /\ i > cursor[c]
          /\ \A j \in cursor[c] + 1 .. i : j \in batch[c]
      BY <1>i DEF CursorInv, TypeInv
    <2>3. i = cursor[c] + 1
      <3>1. cursor[c] \in Nat /\ i \in Nat /\ i > cursor[c]
        BY <1>t, <2>2
      <3>2. cursor[c] + 1 \in cursor[c] + 1 .. i
        BY <3>1
      <3>3. i <= cursor[c] + 1
        BY <2>1, <2>2, <3>2
      <3> QED BY <3>1, <3>3
    <2>4. /\ wpc[c] = "send" /\ wpc'[c] = IF batch[c] = {i} THEN "register" ELSE "send"
          /\ cursor'[c] = i /\ number'[c] = i /\ batch'[c] = batch[c] \ {i}
          /\ snap' = snap /\ late' = late
      BY <1>9, <1>t, <2>1, <2>2 DEF SendEvent
    <2>5. CursorInv(c)'
      <3>1. \A k \in batch'[c] : k > i /\ \A j \in i + 1 .. k : j \in batch'[c]
        BY <1>t, <1>i, <2>1, <2>3, <2>4 DEF CursorInv
      <3> QED BY <1>0, <1>t, <2>2, <2>4, <3>1 DEF CursorInv
    <2>6. SnapInv(c)' /\ OverInv(c)'
      BY <1>0, <1>i, <2>4 DEF SnapInv, OverInv
    <2>7. Covers(known[c], number[c])'
      <3> SUFFICES ASSUME NEW j \in 1..i, log[j].kind = "host"
                   PROVE  known'[c][log[j].host] >= log[j].doc
        BY <1>0, <2>4 DEF Covers
      <3>0. j \in 1..Len(log)
        BY <1>t, <2>2
      <3>1. CASE j = i
        BY <1>t, <1>l, <2>1, <3>0, <3>1
      <3>2. CASE j # i /\ log[i].kind = "host" /\ log[i].host = log[j].host
        <4>1. log[j].doc < log[i].doc
          BY <1>t, <2>2, <3>0, <3>2 DEF LogInv, NewsInv, EveryEntryIsNews
        <4>2. known'[c][log[j].host] = log[i].doc
          BY <1>t, <1>l, <2>1, <2>2, <3>2
        <4> QED BY <1>l, <2>2, <3>0, <3>2, <4>1, <4>2
      <3>3. CASE j # i /\ ~(log[i].kind = "host" /\ log[i].host = log[j].host)
        <4>1. known'[c][log[j].host] = known[c][log[j].host]
          BY <1>t, <1>l, <2>1, <2>2, <3>0, <3>3
        <4>2. j \in 1..number[c]
          BY <1>t, <1>i, <2>3, <2>4, <3>3 DEF CursorInv
        <4> QED BY <1>i, <4>1, <4>2 DEF Covers
      <3> QED BY <3>1, <3>2, <3>3
    <2> QED BY <2>5, <2>6, <2>7
  <1>10. CASE End(c)
    <2>1. /\ wpc[c] = "end" /\ wpc'[c] = "ended"
          /\ cursor' = cursor /\ snap' = snap /\ batch' = batch /\ late' = late
          /\ number' = number /\ known' = known
      BY <1>10, <1>t DEF End
    <2>2. CursorInv(c)'
      BY <1>0, <1>i, <2>1 DEF CursorInv
    <2>3. SnapInv(c)' /\ OverInv(c)'
      BY <1>0, <1>i, <2>1 DEF SnapInv, OverInv
    <2> QED BY <1>0, <1>i, <2>1, <2>2, <2>3 DEF Covers
  <1>11. CASE Drop(c)
    <2>1. /\ wpc'[c] = "idle" /\ cursor'[c] = 0 /\ batch'[c] = {} /\ late'[c] = FALSE
          /\ number' = number /\ known' = known
      BY <1>11, <1>t DEF Drop
    <2>2. CursorInv(c)'
      BY <1>0, <1>t, <1>i, <2>1 DEF CursorInv
    <2>3. SnapInv(c)' /\ OverInv(c)'
      BY <2>1 DEF SnapInv, OverInv
    <2> QED BY <1>0, <1>i, <2>1, <2>2, <2>3 DEF Covers
  <1> QED BY <1>1, <1>2, <1>3, <1>4, <1>5, <1>6, <1>7, <1>8, <1>9, <1>10, <1>11
          DEF Watch

\* Every step keeps the clients' invariant.
LEMMA ViewStep ==
    ASSUME ~TrustFrames, TypeInv, TypeInv', LogInv, ViewInv, [Next]_vars
    PROVE  ViewInv'
  <1> SUFFICES ASSUME NEW c \in Clients
               PROVE  CursorInv(c)' /\ SnapInv(c)' /\ OverInv(c)' /\ Covers(known[c], number[c])'
    BY DEF ViewInv
  <1>1. CursorInv(c) /\ SnapInv(c) /\ OverInv(c) /\ Covers(known[c], number[c])
    BY DEF ViewInv
  <1>2. CASE UNCHANGED watch
    BY <1>1, <1>2, ViewStutter DEF watch
  <1>3. CASE Engine
    BY <1>2, <1>3, EngineWrites
  <1>4. CASE Follower
    BY <1>2, <1>4, FollowerWrites
  <1>5. ASSUME NEW d \in Clients, Open(d) \/ Watch(d) \/ Drop(d)
        PROVE  CursorInv(c)' /\ SnapInv(c)' /\ OverInv(c)' /\ Covers(known[c], number[c])'
    <2>1. CASE c = d
      BY <1>5, <2>1, ClientStep
    <2>2. CASE c # d
      BY <1>1, <1>5, <2>2, OthersKeep, ViewStutter
    <2> QED BY <2>1, <2>2
  <1>6. CASE UNCHANGED vars
    BY <1>2, <1>6 DEF vars
  <1> QED BY <1>3, <1>4, <1>5, <1>6 DEF Next

\* The inductive invariant.
Inv == TypeInv /\ LogInv /\ ViewInv

\* The inductive invariant holds throughout: at each place of a watch (the mark,
\* the hosts, the frames, the tail) what its client was sent covers its cursor
\* and its number.
THEOREM Invariance == ASSUME ~TrustFrames PROVE Spec => []Inv
  <1>1. Init => Inv
    BY TypeInit, LogInit, ViewInit DEF Inv
  <1>2. Inv /\ [Next]_vars => Inv'
    BY TypeStep, LogStep, ViewStep DEF Inv
  <1> QED BY <1>1, <1>2, PTL DEF Spec

\* Whatever the interleaving of engine, follower, watches and lost
\* connections, a client that takes its number only from a whole snapshot or
\* the tail holds everything the log says up to that number.
THEOREM ReconnectingIsSafe == ASSUME ~TrustFrames PROVE Spec => []NumberMissesNothing
  <1>1. Inv => NumberMissesNothing
    BY DEF Inv, ViewInv, NumberMissesNothing
  <1> QED BY Invariance, <1>1, PTL

\* No watch leaves out an event its client still needs.
THEOREM TailIsWhole == ASSUME ~TrustFrames PROVE Spec => []CursorMissesNothing
  <1>1. Inv => CursorMissesNothing
    BY DEF Inv, ViewInv, CursorInv, CursorMissesNothing
  <1> QED BY Invariance, <1>1, PTL

\* A watch never ends early, and one opened after the scan ended gets to the
\* end of the log.
THEOREM EndIsHonest == ASSUME ~TrustFrames PROVE Spec => []EndMeansOver
  <1>1. Inv => EndMeansOver
    <2> SUFFICES ASSUME Inv, NEW c \in Clients, wpc[c] \in Over
                 PROVE  closed /\ (late[c] => cursor[c] = Len(log))
      BY DEF EndMeansOver
    <2>1. OverInv(c)
      BY DEF Inv, ViewInv
    <2> QED BY <2>1 DEF OverInv
  <1> QED BY Invariance, <1>1, PTL

-----------------------------------------------------------------------------
(* The abstract promise.                                                   *)

\* The number a client would hand back never moves back.
LEMMA NumberNeverDrops ==
    ASSUME ~TrustFrames, Inv, NEW c \in Clients, Open(c) \/ Watch(c) \/ Drop(c)
    PROVE  number'[c] >= number[c]
  <1>t. number \in [Clients -> Nat] /\ cursor \in [Clients -> Nat]
    BY DEF Inv, TypeInv, TypeOK, WatchTypeOK
  <1>i. CursorInv(c) /\ batch[c] \subseteq 1..Len(log)
    BY DEF Inv, ViewInv, TypeInv
  <1>1. CASE SendProgress(c)
    BY <1>1, <1>t, <1>i DEF SendProgress, CursorInv
  <1>2. CASE SendEvent(c)
    BY <1>2, <1>t, <1>i DEF SendEvent, CursorInv, Tailing
  <1>3. CASE UNCHANGED number
    BY <1>3, <1>t
  <1> QED BY <1>1, <1>2, <1>3
          DEF Open, Watch, Drop, Mark, ReadHosts, SendHost, Register, Read, Check,
              Wake, End

\* The initial states are initial states of the feed.
LEMMA FeedInit == Init => Feed!Init
  BY DEF Init, FollowerInit, WatchInit, Feed!Init

\* Every step is a step of the feed or leaves it as it is.
LEMMA FeedStep ==
    ASSUME ~TrustFrames, Inv, Inv', [Next]_vars
    PROVE  [Feed!Next]_(Feed!vars)
  <1>1. CASE UNCHANGED <<log, closed, number, known>>
    BY <1>1 DEF Feed!vars
  <1>2. CASE Push
    <2>1. ~closed /\ \A i \in 1..Len(log) : log[i].kind # "finished"
      BY <1>2 DEF Push, Inv, LogInv, EndInv
    <2>2. ~Feed!Ended
      BY <2>1 DEF Feed!Ended, Inv, TypeInv, TypeOK, FollowerTypeOK
    <2>3. /\ Len(log') = Len(log) + 1
          /\ \A i \in 1..Len(log) : log'[i] = log[i]
      BY <1>2 DEF Push, Inv, TypeInv, TypeOK, FollowerTypeOK
    <2>4. UNCHANGED <<closed, number, known>>
      BY <1>2 DEF Push, watch
    <2> QED BY <2>1, <2>2, <2>3, <2>4 DEF Feed!Next, Feed!Say
  <1>3. CASE Close
    <2>1. /\ ~closed /\ closed' = TRUE
          /\ log # <<>> /\ log[Len(log)].kind = "finished"
          /\ UNCHANGED <<log, number, known>>
      BY <1>3 DEF Close, watch, Inv, LogInv, EndInv
    <2> QED BY <2>1 DEF Feed!Next, Feed!Finish, Feed!Ended
  <1>4. CASE Follower /\ ~Push /\ ~Close
    BY <1>1, <1>4 DEF Follower, ReceiveLagged, Receive, Conclude, PushWakes,
                      CloseWakes, follower, watch
  <1>5. CASE Engine
    BY <1>1, <1>5, EngineWrites DEF follower, watch
  <1>6. ASSUME NEW c \in Clients, Open(c) \/ Watch(c) \/ Drop(c)
        PROVE  Feed!Hear(c)
    <2>1. UNCHANGED <<log, closed>>
      BY <1>6, ClientWrites DEF follower
    <2>2. \A d \in Clients \ {c} : number'[d] = number[d] /\ known'[d] = known[d]
      BY <1>6, OthersKeep DEF Inv
    <2>3. number'[c] >= number[c]
      BY <1>6, NumberNeverDrops
    <2>4. number'[c] <= Len(log')
      BY DEF Inv, ViewInv, CursorInv
    <2>5. Covers(known[c], number[c])'
      BY DEF Inv, ViewInv
    <2>6. Feed!Covers(known'[c], log, number'[c])
      BY <2>1, <2>5 DEF Covers, Feed!Covers
    <2> QED BY <2>1, <2>2, <2>3, <2>4, <2>6 DEF Feed!Hear
  <1>7. CASE UNCHANGED vars
    BY <1>1, <1>7 DEF vars, follower, watch
  <1> QED BY <1>2, <1>3, <1>4, <1>5, <1>6, <1>7 DEF Next, Feed!Next

\* The scan implements ScanFeed: a feed that only grows until it is over,
\* and clients whose places never move back and whose views never fall
\* behind them.
THEOREM ScanImplementsFeed == ASSUME ~TrustFrames PROVE Spec => ImplementsFeed
  <1> QED BY Invariance, FeedInit, FeedStep, PTL DEF Spec, ImplementsFeed, Feed!Spec

-----------------------------------------------------------------------------
(* The log's last word.                                                    *)

\* A host whose change the follower has not found yet is owed a notice, has
\* one on its way, or lost its last.  What was found to be news is about to
\* be said or was.  The end is said with nothing left in the channel.
OnItsWay(h) == \E i \in 1..Len(queue) : queue[i].host = h
EndIn(s)    == \E i \in 1..Len(s) : s[i].kind = "finished"
Said(h)     == \E i \in 1..Len(log) : log[i] = HostChanged(h, seen[h])

OwingInv ==
    \A h \in Hosts : h \in owed \/ h \in lost \/ OnItsWay(h) \/ store[h] = seen[h]
TellingInv ==
    \A h \in Hosts : seen[h] > 0 =>
        Said(h) \/ (todo # <<>> /\ Head(todo) = HostChanged(h, seen[h]))
SettledInv ==
    /\ outcome = "ok" => owed = {}
    /\ (EndIn(todo) \/ EndIn(log)) => queue = <<>> /\ outcome # "running"
LastWord == OwingInv /\ TellingInv /\ SettledInv

\* Nothing is owed before anything is found.
LEMMA LastWordInit == Init => LastWord
  BY DEF Init, EngineInit, FollowerInit, LastWord, OwingInv, TellingInv, SettledInv, EndIn

\* A notice pushed out of the channel is of a host that is lost from then on
\* unless another of it is there; the one sent is there.
LEMMA SendKeepsTrack ==
    ASSUME TypeInv, NEW n \in Notices, Send(n), NEW h \in Hosts
    PROVE  /\ OnItsWay(h) \/ h \in lost => OnItsWay(h)' \/ h \in lost'
           /\ n.host = h => OnItsWay(h)'
  <1> DEFINE full == Len(queue) >= Capacity
             kept == IF full THEN Tail(queue) ELSE queue
             here == {Append(kept, n)[i].host : i \in 1..Len(kept) + 1}
             gone == IF full THEN {queue[1].host} \cap Hosts ELSE {}
  <1>1. queue \in Seq(Notices) /\ Capacity \in Nat \ {0}
    BY ConstantsAssumption DEF TypeInv, TypeOK, EngineTypeOK
  <1>2. full => queue # <<>>
    BY <1>1
  <1>3. kept \in Seq(Notices)
    BY <1>1, <1>2
  <1>4. queue' = Append(kept, n) /\ lost' = (lost \cup gone) \ here
    BY DEF Send
  <1>5. OnItsWay(h)' <=> h \in here
    <2> HIDE DEF kept
    <2>1. Len(queue') = Len(kept) + 1
      BY <1>3, <1>4
    <2> QED BY <1>4, <2>1 DEF OnItsWay
  <1>6. n.host = h => h \in here
    <2> HIDE DEF kept
    <2>1. Append(kept, n)[Len(kept) + 1] = n /\ Len(kept) + 1 \in 1..Len(kept) + 1
      BY <1>3
    <2> QED BY <2>1
  <1>7. ASSUME OnItsWay(h) PROVE h \in here \/ h \in gone
    <2>1. PICK i \in 1..Len(queue) : queue[i].host = h
      BY <1>7 DEF OnItsWay
    <2>2. CASE full /\ i = 1
      BY <2>1, <2>2
    <2>3. CASE full /\ i # 1
      <3>1. /\ i - 1 \in 1..Len(kept) /\ kept[i - 1] = queue[i]
            /\ i - 1 \in 1..Len(kept) + 1
        BY <1>1, <1>2, <2>1, <2>3
      <3> HIDE DEF kept
      <3>2. Append(kept, n)[i - 1] = kept[i - 1]
        BY <1>3, <3>1
      <3> QED BY <2>1, <3>1, <3>2
    <2>4. CASE ~full
      <3>1. Append(kept, n)[i] = queue[i] /\ i \in 1..Len(kept) + 1
        BY <1>1, <2>1, <2>4
      <3> QED BY <2>1, <3>1
    <2> QED BY <2>2, <2>3, <2>4
  <1> HIDE DEF here, gone
  <1> QED BY <1>4, <1>5, <1>6, <1>7

\* The engine owes a notice for what it changes until it sends one.
LEMMA EngineKeepsLastWord ==
    ASSUME TypeInv, LastWord, Engine PROVE LastWord'
  <1>0. UNCHANGED follower
    BY EngineWrites
  <1>1. TellingInv'
    BY <1>0 DEF LastWord, TellingInv, Said, follower
  <1>2. outcome = "running"
    BY DEF Engine, Touch, Announce, NextStage, ScannerFails, Finish, Send
  <1>3. SettledInv'
    <2>1. outcome' = "ok" => owed' = {}
      BY <1>2 DEF Engine, Touch, Announce, NextStage, ScannerFails, Finish, Send
    <2>2. /\ \A k \in 1..Len(todo) : todo[k].kind # "finished"
          /\ \A i \in 1..Len(log) : log[i].kind # "finished"
      BY <1>2 DEF LastWord, SettledInv, EndIn
    <2> QED BY <1>0, <2>1, <2>2 DEF SettledInv, EndIn, follower
  <1>4. ASSUME NEW h \in Hosts, Touch(h) PROVE OwingInv'
    <2> SUFFICES ASSUME NEW g \in Hosts
                 PROVE  g \in owed' \/ g \in lost' \/ OnItsWay(g)' \/ store'[g] = seen'[g]
      BY DEF OwingInv
    <2>1. /\ owed' = owed \cup {h} /\ UNCHANGED <<lost, queue, seen>>
          /\ g # h => store'[g] = store[g]
      BY <1>4 DEF Touch, follower, TypeInv, TypeOK, EngineTypeOK
    <2> QED BY <2>1 DEF LastWord, OwingInv, OnItsWay
  <1>5. ASSUME NEW n \in Notices, Send(n), UNCHANGED <<store, seen>>,
               owed' \in {owed, owed \ {n.host}}
        PROVE  OwingInv'
    <2> SUFFICES ASSUME NEW g \in Hosts
                 PROVE  g \in owed' \/ g \in lost' \/ OnItsWay(g)' \/ store'[g] = seen'[g]
      BY DEF OwingInv
    <2> QED BY <1>5, SendKeepsTrack DEF LastWord, OwingInv
  <1>6. ASSUME NEW h \in Hosts, Announce(h) PROVE OwingInv'
    <2>1. Notice("host", h) \in Notices /\ Notice("host", h).host = h
      BY DEF Notices, Notice
    <2> QED BY <1>5, <1>6, <2>1 DEF Announce, follower
  <1>7. ASSUME NextStage \/ ScannerFails PROVE OwingInv'
    <2>1. Notice("stage", NoHost) \in Notices /\ Notice("failure", NoHost) \in Notices
      BY DEF Notices, Notice
    <2> QED BY <1>5, <1>7, <2>1 DEF NextStage, ScannerFails, follower
  <1>8. ASSUME Finish PROVE OwingInv'
    BY <1>8 DEF Finish, follower, LastWord, OwingInv, OnItsWay
  <1> QED BY <1>1, <1>3, <1>4, <1>6, <1>7, <1>8 DEF LastWord, Engine

\* Taking a notice reads the store, so nothing more is owed of its host.
LEMMA ReceiveKeepsLastWord ==
    ASSUME TypeInv, LogInv, LastWord, Receive PROVE LastWord'
  <1> DEFINE n == Head(queue)
  <1>0. /\ store \in [Hosts -> Nat] /\ seen \in [Hosts -> Nat]
        /\ queue \in Seq(Notices) /\ queue # <<>> /\ fpc = "recv" /\ todo = <<>>
        /\ n \in Notices /\ todo' = Says(n) /\ queue' = Tail(queue)
        /\ UNCHANGED <<store, owed, lost, outcome, log>>
    BY DEF TypeInv, TypeOK, EngineTypeOK, FollowerTypeOK, Receive, LogInv, TodoInv
  <1>1. \A h \in Hosts : seen[h] > 0 => Said(h)
    BY <1>0 DEF LastWord, TellingInv
  <1>2. \A h \in Hosts : h # n.host => seen'[h] = seen[h]
    BY <1>0 DEF Receive
  <1>3. n.host \in Hosts => n.kind = "host" /\ seen'[n.host] = store[n.host]
    <2> HAVE n.host \in Hosts
    <2>1. n.kind = "host"
      BY <1>0, ConstantsAssumption DEF Notices
    <2>2. CASE store[n.host] > 0
      BY <1>0, <2>1, <2>2 DEF Receive
    <2>3. CASE store[n.host] = 0
      BY <1>0, <2>1, <2>3 DEF Receive, LogInv, NewsInv
    <2> QED BY <1>0, <2>1, <2>2, <2>3
  <1>4. OwingInv'
    <2> SUFFICES ASSUME NEW h \in Hosts, h # n.host
                 PROVE  h \in owed' \/ h \in lost' \/ OnItsWay(h)' \/ store'[h] = seen'[h]
      BY <1>0, <1>3 DEF OwingInv
    <2>1. ASSUME OnItsWay(h) PROVE OnItsWay(h)'
      <3>1. PICK i \in 1..Len(queue) : queue[i].host = h
        BY <2>1 DEF OnItsWay
      <3>2. i # 1
        BY <1>0, <3>1
      <3>3. i - 1 \in 1..Len(queue') /\ queue'[i - 1] = queue[i]
        BY <1>0, <3>1, <3>2
      <3> QED BY <3>1, <3>3 DEF OnItsWay
    <2> QED BY <1>0, <1>2, <2>1 DEF LastWord, OwingInv
  <1>5. TellingInv'
    <2> SUFFICES ASSUME NEW h \in Hosts, seen'[h] > 0
                 PROVE  Said(h)' \/ (todo' # <<>> /\ Head(todo') = HostChanged(h, seen'[h]))
      BY DEF TellingInv
    <2>1. CASE seen'[h] = seen[h]
      BY <1>0, <1>1, <2>1 DEF Said
    <2>2. CASE seen'[h] # seen[h]
      <3>1. h = n.host /\ n.kind = "host" /\ store[h] > 0 /\ Changed(h) /\ seen'[h] = store[h]
        BY <1>0, <1>2, <1>3, <2>2 DEF Changed
      <3>2. todo' = <<HostChanged(h, seen'[h])>>
        BY <1>0, <3>1 DEF Says
      <3>3. Len(todo') = 1 /\ Head(todo') = HostChanged(h, seen'[h])
        BY <3>2
      <3>4. todo' # <<>>
        BY <3>2
      <3> QED BY <3>3, <3>4
    <2> QED BY <2>1, <2>2
  <1>6. SettledInv'
    <2>1. \A i \in 1..Len(log) : log[i].kind # "finished"
      BY <1>0 DEF LastWord, SettledInv, EndIn
    <2>2. todo' = <<>> \/ todo' = <<HostChanged(n.host, store[n.host])>>
          \/ todo' = <<Body("stage"), Body("progress")>> \/ todo' = <<Body("failure")>>
      BY <1>0 DEF Says, Notices
    <2>3. \A k \in 1..Len(todo') : todo'[k].kind # "finished"
      BY <2>2 DEF Body, HostChanged
    <2> QED BY <1>0, <2>1, <2>3 DEF LastWord, SettledInv, EndIn
  <1> QED BY <1>4, <1>5, <1>6 DEF LastWord

\* What is pushed was about to be said, and is said.
LEMMA PushKeepsLastWord ==
    ASSUME TypeInv, LastWord, Push PROVE LastWord'
  <1>0. /\ log \in Seq(Bodies) /\ todo \in Seq(Bodies) /\ todo # <<>>
        /\ log' = Append(log, Head(todo)) /\ todo' = Tail(todo)
        /\ UNCHANGED <<engine, seen>>
    BY DEF TypeInv, TypeOK, FollowerTypeOK, Push
  <1>1. /\ Len(log') = Len(log) + 1 /\ log'[Len(log) + 1] = Head(todo)
        /\ \A i \in 1..Len(log) : log'[i] = log[i] /\ i \in 1..Len(log')
        /\ Len(log) + 1 \in 1..Len(log') /\ Len(log) \in Nat
    BY <1>0
  <1>2. OwingInv'
    BY <1>0 DEF LastWord, OwingInv, OnItsWay, engine
  <1>3. TellingInv'
    <2> SUFFICES ASSUME NEW h \in Hosts, seen'[h] > 0 PROVE Said(h)'
      BY DEF TellingInv
    <2>1. Said(h) \/ Head(todo) = HostChanged(h, seen[h])
      BY <1>0 DEF LastWord, TellingInv
    <2>2. CASE Said(h)
      BY <1>0, <1>1, <2>2 DEF Said
    <2>3. CASE Head(todo) = HostChanged(h, seen[h])
      BY <1>0, <1>1, <2>3 DEF Said
    <2> QED BY <2>1, <2>2, <2>3
  <1>4. SettledInv'
    <2>1. Head(todo) = todo[1] /\ 1 \in 1..Len(todo)
      BY <1>0
    <2>2. \A k \in 1..Len(todo') : k + 1 \in 1..Len(todo) /\ todo'[k] = todo[k + 1]
      BY <1>0
    <2>3. \A i \in 1..Len(log') : i \in 1..Len(log) \/ i = Len(log) + 1
      BY <1>1
    <2> QED BY <1>0, <1>1, <2>1, <2>2, <2>3 DEF LastWord, SettledInv, EndIn, engine
  <1> QED BY <1>2, <1>3, <1>4 DEF LastWord

\* Every step keeps it.
LEMMA LastWordStep ==
    ASSUME TypeInv, LogInv, LastWord, [Next]_vars PROVE LastWord'
  <1>1. CASE UNCHANGED <<store, owed, lost, queue, outcome, todo, seen, log>>
    BY <1>1 DEF LastWord, OwingInv, OnItsWay, TellingInv, Said, SettledInv, EndIn
  <1>2. CASE Engine
    BY <1>2, EngineKeepsLastWord
  <1>3. CASE Receive
    BY <1>3, ReceiveKeepsLastWord
  <1>4. CASE Push
    BY <1>4, PushKeepsLastWord
  <1>5. CASE Conclude
    <2>1. /\ todo = <<>> /\ queue = <<>> /\ outcome # "running"
          /\ UNCHANGED <<engine, seen, log>>
      BY <1>5 DEF Conclude, LogInv, TodoInv
    <2>2. OwingInv'
      BY <2>1 DEF LastWord, OwingInv, OnItsWay, engine
    <2>3. TellingInv'
      BY <2>1 DEF LastWord, TellingInv, Said
    <2>4. SettledInv'
      BY <2>1 DEF LastWord, SettledInv, EndIn, engine
    <2> QED BY <2>2, <2>3, <2>4 DEF LastWord
  <1>6. CASE ReceiveLagged \/ PushWakes \/ Close \/ CloseWakes
    BY <1>1, <1>6 DEF ReceiveLagged, PushWakes, Close, CloseWakes, engine, follower
  <1>7. ASSUME NEW c \in Clients, Open(c) \/ Watch(c) \/ Drop(c) PROVE LastWord'
    BY <1>1, <1>7, ClientWrites DEF engine, follower
  <1>8. CASE UNCHANGED vars
    BY <1>1, <1>8 DEF vars, engine, follower
  <1> QED BY <1>2, <1>3, <1>4, <1>5, <1>6, <1>7, <1>8 DEF Next, Follower

\* What a closed log of a scan that ended in order says of every host that
\* was not lost.
LEMMA ClosedSaysAll ==
    ASSUME TypeInv, LogInv, LastWord, closed, outcome = "ok",
           NEW h \in Hosts, h \notin lost, store[h] > 0
    PROVE  \E i \in 1..Len(log) : log[i] = HostChanged(h, store[h])
  <1>1. log # <<>> /\ log[Len(log)].kind = "finished" /\ todo = <<>>
        /\ Len(log) \in 1..Len(log)
    BY DEF LogInv, EndInv, TodoInv, TypeInv, TypeOK, FollowerTypeOK
  <1>2. queue = <<>> /\ owed = {}
    BY <1>1 DEF LastWord, SettledInv, EndIn
  <1>3. store[h] = seen[h]
    BY <1>2 DEF LastWord, OwingInv, OnItsWay
  <1>4. Said(h)
    BY <1>1, <1>3 DEF LastWord, TellingInv
  <1> QED BY <1>3, <1>4 DEF Said

\* When a scan that ran to its end is over, the log's last word on every host
\* that was not lost is the store's, however the channel dropped notices.
THEOREM LogSaysAll == Spec => []LogCatchesUp
  <1>1. TypeInv /\ LogInv /\ LastWord => LogCatchesUp
    BY ClosedSaysAll DEF LogCatchesUp
  <1> QED BY TypeInit, TypeStep, LogInit, LogStep, LastWordInit, LastWordStep, <1>1,
             PTL DEF Spec

-----------------------------------------------------------------------------
(* The result.                                                             *)

\* Nobody has heard, or is about to hear, of a host more than there is.
NoMoreThanIs ==
    \A c \in Clients, h \in Hosts : known[c][h] <= store[h] /\ snap[c][h] <= store[h]

\* It holds at first, of a store without hosts.
LEMMA NoMoreInit == Init => NoMoreThanIs
  BY DEF Init, EngineInit, WatchInit, NoMoreThanIs

\* A step of a client's hears what the store or the log has.
LEMMA NoMoreHeard ==
    ASSUME TypeInv, LogInv, NoMoreThanIs, NEW c \in Clients, NEW d \in Clients,
           NEW h \in Hosts, Open(c) \/ Watch(c) \/ Drop(c)
    PROVE  known'[d][h] <= store'[h] /\ snap'[d][h] <= store'[h]
  <1>0. /\ known \in [Clients -> [Hosts -> Nat]] /\ snap \in [Clients -> [Hosts -> Nat]]
        /\ store \in [Hosts -> Nat] /\ seen \in [Hosts -> Nat] /\ log \in Seq(Bodies)
        /\ store' = store /\ batch[c] \subseteq 1..Len(log)
    BY ClientWrites DEF TypeInv, TypeOK, EngineTypeOK, FollowerTypeOK, WatchTypeOK, engine
  <1>1. known[d][h] <= store[h] /\ snap[d][h] <= store[h]
    BY DEF NoMoreThanIs
  <1>2. CASE UNCHANGED <<known, snap>>
    BY <1>0, <1>1, <1>2
  <1>3. CASE ReadHosts(c)
    <2>1. known' = known /\ snap' = [snap EXCEPT ![c] = store]
      BY <1>3 DEF ReadHosts
    <2>2. snap'[d] \in {snap[d], store}
      BY <1>0, <2>1
    <2> QED BY <1>0, <1>1, <2>1, <2>2
  <1>4. ASSUME NEW g \in Hosts, SendHost(c, g)
        PROVE  known'[d][h] <= store'[h] /\ snap'[d][h] <= store'[h]
    <2>1. known' = [known EXCEPT ![c][g] = snap[c][g]] /\ snap' = [snap EXCEPT ![c][g] = 0]
      BY <1>4 DEF SendHost
    <2>2. known'[d][h] \in {known[d][h], snap[d][h]} /\ snap'[d][h] \in {snap[d][h], 0}
      BY <1>0, <2>1
    <2> QED BY <1>0, <1>1, <2>2
  <1>5. CASE SendEvent(c)
    <2>1. PICK i \in batch[c] :
            known' = IF log[i].kind = "host"
                     THEN [known EXCEPT ![c][log[i].host] = log[i].doc]
                     ELSE known
      BY <1>5 DEF SendEvent
    <2>2. i \in 1..Len(log) /\ log[i] \in Bodies
      BY <1>0
    <2>3. CASE log[i].kind = "host"
      <3>1. log[i].host \in Hosts /\ log[i].doc \in Nat
        BY <2>2, <2>3 DEF Bodies
      <3>2. log[i].doc <= seen[log[i].host] /\ seen[log[i].host] <= store[log[i].host]
        BY <2>2, <2>3, <3>1 DEF LogInv, NewsInv
      <3>3. log[i].doc <= store[log[i].host]
        <4>1. seen[log[i].host] \in Nat /\ store[log[i].host] \in Nat
          BY <1>0, <3>1
        <4> QED BY <3>1, <3>2, <4>1
      <3>4. known'[d][h] = known[d][h] \/ (log[i].host = h /\ known'[d][h] = log[i].doc)
        BY <1>0, <2>1, <2>3, <3>1
      <3>5. snap' = snap
        BY <1>5 DEF SendEvent
      <3> QED BY <1>0, <1>1, <3>3, <3>4, <3>5
    <2>4. CASE log[i].kind # "host"
      <3>1. UNCHANGED <<known, snap>>
        BY <1>5, <2>1, <2>4 DEF SendEvent
      <3> QED BY <1>2, <3>1
    <2> QED BY <2>3, <2>4
  <1>6. CASE Drop(c)
    <2>1. known' = known /\ snap' = [snap EXCEPT ![c] = [g \in Hosts |-> 0]]
      BY <1>6 DEF Drop
    <2>2. snap'[d][h] \in {snap[d][h], 0}
      BY <1>0, <2>1
    <2> QED BY <1>0, <1>1, <2>1, <2>2
  <1> QED BY <1>2, <1>3, <1>4, <1>5, <1>6
          DEF Open, Watch, Mark, SendProgress, Register, Read, Check, Wake, End

\* Every step keeps it: the store only moves on.
LEMMA NoMoreStep ==
    ASSUME TypeInv, TypeInv', LogInv, NoMoreThanIs, [Next]_vars PROVE NoMoreThanIs'
  <1>0. /\ known \in [Clients -> [Hosts -> Nat]] /\ snap \in [Clients -> [Hosts -> Nat]]
        /\ store \in [Hosts -> Nat] /\ store' \in [Hosts -> Nat]
    BY DEF TypeInv, TypeOK, EngineTypeOK, WatchTypeOK
  <1>1. ASSUME UNCHANGED <<known, snap>>, \A h \in Hosts : store'[h] >= store[h]
        PROVE  NoMoreThanIs'
    <2> SUFFICES ASSUME NEW c \in Clients, NEW h \in Hosts
                 PROVE  known'[c][h] <= store'[h] /\ snap'[c][h] <= store'[h]
      BY DEF NoMoreThanIs
    <2>1. known[c][h] <= store[h] /\ snap[c][h] <= store[h]
      BY DEF NoMoreThanIs
    <2> QED BY <1>0, <1>1, <2>1
  <1>2. CASE Engine
    BY <1>1, <1>2, EngineWrites DEF watch
  <1>3. CASE Follower \/ UNCHANGED vars
    <2>1. UNCHANGED <<store, known, snap>>
      BY <1>3, FollowerWrites DEF vars, engine, watch
    <2> QED BY <1>0, <1>1, <2>1
  <1>4. ASSUME NEW c \in Clients, Open(c) \/ Watch(c) \/ Drop(c) PROVE NoMoreThanIs'
    BY <1>4, NoMoreHeard DEF NoMoreThanIs
  <1> QED BY <1>2, <1>3, <1>4 DEF Next

\* A client whose watch ended at the end of the log, of a scan that ended in
\* order and lost no notice, has the scan's result and nothing else, however
\* often it went away and came back.
THEOREM ClientsEndWithTheResult ==
    ASSUME ~TrustFrames PROVE Spec => []EndIsTheWholeResult
  <1>1. Inv /\ LastWord /\ NoMoreThanIs => EndIsTheWholeResult
    <2> SUFFICES ASSUME Inv, LastWord, NoMoreThanIs, NEW c \in Clients, wpc[c] \in Over,
                        cursor[c] = Len(log), outcome = "ok", lost = {}
                 PROVE  known[c] = store
      BY DEF EndIsTheWholeResult
    <2>0. known[c] \in [Hosts -> Nat] /\ store \in [Hosts -> Nat]
      BY DEF Inv, TypeInv, TypeOK, EngineTypeOK, WatchTypeOK
    <2>1. CursorInv(c) /\ OverInv(c) /\ Covers(known[c], number[c])
      BY DEF Inv, ViewInv
    <2>2. closed /\ Covers(known[c], Len(log))
      BY <2>1 DEF OverInv, CursorInv
    <2>3. ASSUME NEW h \in Hosts PROVE known[c][h] = store[h]
      <3>1. known[c][h] <= store[h]
        BY DEF NoMoreThanIs
      <3>2. CASE store[h] > 0
        <4>1. PICK i \in 1..Len(log) : log[i] = HostChanged(h, store[h])
          BY <2>2, <3>2, ClosedSaysAll DEF Inv
        <4>2. known[c][h] >= store[h]
          BY <2>2, <4>1 DEF Covers, HostChanged
        <4> QED BY <2>0, <3>1, <4>2
      <3>3. CASE store[h] = 0
        BY <2>0, <3>1, <3>3
      <3> QED BY <2>0, <3>2, <3>3
    <2> QED BY <2>0, <2>3
  <1>2. Inv => TypeInv /\ LogInv
    BY DEF Inv
  <1> QED BY Invariance, LastWordInit, LastWordStep, NoMoreInit, NoMoreStep, <1>1, <1>2,
             PTL DEF Spec

-----------------------------------------------------------------------------
(* Nobody sleeps through a wake-up.                                        *)

\* NobodySleepsThrough, and what a watch between its look and its decision to
\* wait has made sure of: unless somebody woke it or is about to, what it
\* took is all there is past its cursor.
SleepInv ==
    /\ NobodySleepsThrough
    /\ \A c \in Clients : (wpc[c] = "check" /\ ~woken[c] /\ fpc # "wake")
         => After(cursor[c]) \subseteq batch[c]

\* At first no watch is open.
LEMMA SleepInit == Init => SleepInv
  BY DEF Init, WatchInit, SleepInv, NobodySleepsThrough

\* Where the log, its flag, the follower's place and the watches stand still,
\* so does what sleeping needs.
LEMMA SleepStutter ==
    ASSUME SleepInv, UNCHANGED <<follower, watch, woken>> PROVE SleepInv'
  BY DEF SleepInv, NobodySleepsThrough, After, follower, watch

\* The follower keeps it: whoever adds an entry or closes the log is on the
\* way to wake everybody from that moment until it has.
LEMMA FollowerLetsNobodySleep ==
    ASSUME TypeInv, SleepInv, Follower PROVE SleepInv'
  <1>0. UNCHANGED <<wpc, cursor, batch>>
    BY FollowerWrites DEF watch
  <1>1. CASE ReceiveLagged \/ Receive \/ Conclude
    <2>1. fpc = "recv" /\ UNCHANGED <<log, closed, woken>>
      BY <1>1 DEF ReceiveLagged, Receive, Conclude, engine, follower
    <2> QED BY <1>0, <2>1 DEF SleepInv, NobodySleepsThrough, After
  <1>2. CASE Push
    <2>1. fpc = "push" /\ fpc' = "wake" /\ UNCHANGED <<closed, woken>>
      BY <1>2 DEF Push
    <2> QED BY <1>0, <2>1 DEF SleepInv, NobodySleepsThrough
  <1>3. CASE Close
    <2>1. fpc = "close" /\ fpc' = "last" /\ UNCHANGED <<log, woken>>
      BY <1>3 DEF Close
    <2> QED BY <1>0, <2>1 DEF SleepInv, NobodySleepsThrough, After
  <1>4. CASE PushWakes \/ CloseWakes
    <2>1. \A c \in Clients : wpc[c] \in {"check", "wait"} => woken'[c]
      BY <1>4 DEF PushWakes, CloseWakes, WakeAll
    <2> QED BY <1>0, <2>1 DEF SleepInv, NobodySleepsThrough
  <1> QED BY <1>1, <1>2, <1>3, <1>4 DEF Follower

\* A step of one client that leaves the follower where it is keeps it, if that
\* client's watch is sound after it: the others see nothing of it.
LEMMA OneAtATime ==
    ASSUME SleepInv, UNCHANGED <<fpc, log, closed>>, NEW c \in Clients,
           \A d \in Clients : d # c =>
               UNCHANGED <<wpc[d], cursor[d], batch[d], woken[d]>>,
           wpc'[c] = "wait" /\ ~woken'[c] =>
               /\ fpc # "wake" => After(cursor'[c]) = {}
               /\ closed => fpc = "last",
           (wpc'[c] = "check" /\ ~woken'[c] /\ fpc # "wake")
               => After(cursor'[c]) \subseteq batch'[c]
    PROVE  SleepInv'
  <1>1. ASSUME NEW d \in Clients
        PROVE  /\ wpc'[d] = "wait" /\ ~woken'[d] =>
                      /\ fpc # "wake" => After(cursor'[d]) = {}
                      /\ closed => fpc = "last"
               /\ (wpc'[d] = "check" /\ ~woken'[d] /\ fpc # "wake")
                      => After(cursor'[d]) \subseteq batch'[d]
    <2>1. CASE d = c
      BY <2>1
    <2>2. CASE d # c
      BY <2>2 DEF SleepInv, NobodySleepsThrough
    <2> QED BY <2>1, <2>2
  <1>2. \A n : {i \in 1..Len(log') : i > n} = After(n)
    BY DEF After
  <1>3. ASSUME NEW d \in Clients
        PROVE  {i \in 1..Len(log') : i > cursor'[d]} = After(cursor'[d])
    BY <1>2
  <1> HIDE DEF After
  <1>4. NobodySleepsThrough'
    <2> SUFFICES ASSUME NEW d \in Clients, wpc'[d] = "wait", ~woken'[d]
                 PROVE  /\ fpc' # "wake" => {i \in 1..Len(log') : i > cursor'[d]} = {}
                        /\ closed' => fpc' = "last"
      BY DEF NobodySleepsThrough, After
    <2> QED BY <1>1, <1>3
  <1>5. \A d \in Clients : (wpc'[d] = "check" /\ ~woken'[d] /\ fpc' # "wake")
          => {i \in 1..Len(log') : i > cursor'[d]} \subseteq batch'[d]
    <2> SUFFICES ASSUME NEW d \in Clients, wpc'[d] = "check", ~woken'[d], fpc' # "wake"
                 PROVE  {i \in 1..Len(log') : i > cursor'[d]} \subseteq batch'[d]
      OBVIOUS
    <2> QED BY <1>1, <1>3
  <1> QED BY <1>4, <1>5 DEF SleepInv, After

\* A client's steps keep it: its watch goes to sleep only with nothing taken
\* and the log open, having made its future before it looked.
LEMMA ClientsSleepSoundly ==
    ASSUME TypeInv, SleepInv, NEW c \in Clients, Open(c) \/ Watch(c) \/ Drop(c)
    PROVE  SleepInv'
  <1>0. /\ wpc \in [Clients -> {"idle"} \cup Snapshotting \cup Tailing \cup Over]
        /\ cursor \in [Clients -> Nat] /\ batch \in [Clients -> SUBSET Nat]
        /\ woken \in [Clients -> BOOLEAN]
        /\ UNCHANGED <<fpc, log, closed>>
    BY ClientWrites DEF TypeInv, TypeOK, WatchTypeOK, follower
  <1>1. ASSUME NEW d \in Clients, d # c
        PROVE  UNCHANGED <<wpc[d], cursor[d], batch[d], woken[d]>>
    BY <1>0, <1>1 DEF Open, Watch, Drop, Mark, ReadHosts, SendHost, SendProgress,
       Register, Read, Check, Wake, SendEvent, End, Goto
  <1>2. CASE wpc'[c] \notin {"check", "wait"}
    BY <1>0, <1>1, <1>2, OneAtATime
  <1>3. CASE Read(c)
    <2>1. wpc'[c] = "check" /\ cursor'[c] = cursor[c] /\ batch'[c] = After(cursor[c])
      BY <1>0, <1>3 DEF Read, Goto
    <2> QED BY <1>0, <1>1, <2>1, OneAtATime
  <1>4. CASE Check(c)
    <2>1. CASE batch[c] # {} \/ closed
      <3>1. wpc'[c] \in {"send", "end"}
        BY <1>0, <1>4, <2>1 DEF Check, Goto
      <3> QED BY <1>2, <3>1
    <2>2. CASE batch[c] = {} /\ ~closed
      <3>1. wpc[c] = "check" /\ woken'[c] = woken[c] /\ cursor'[c] = cursor[c]
        BY <1>0, <1>4, <2>2 DEF Check, Goto
      <3>2. ~woken[c] /\ fpc # "wake" => After(cursor[c]) = {}
        BY <2>2, <3>1 DEF SleepInv
      <3>3. wpc'[c] = "wait"
        BY <1>0, <1>4, <2>2 DEF Check, Goto
      <3>4. wpc'[c] = "wait" /\ ~woken'[c] =>
              /\ fpc # "wake" => After(cursor'[c]) = {}
              /\ closed => fpc = "last"
        BY <2>2, <3>1, <3>2
      <3> QED BY <1>0, <1>1, <3>3, <3>4, OneAtATime
    <2> QED BY <2>1, <2>2
  <1>5. CASE UNCHANGED <<wpc[c], cursor[c], batch[c], woken[c]>>
    <2>1. wpc'[c] = "wait" /\ ~woken'[c] =>
            /\ fpc # "wake" => After(cursor'[c]) = {}
            /\ closed => fpc = "last"
      BY <1>5 DEF SleepInv, NobodySleepsThrough
    <2>2. (wpc'[c] = "check" /\ ~woken'[c] /\ fpc # "wake")
            => After(cursor'[c]) \subseteq batch'[c]
      BY <1>5 DEF SleepInv
    <2> QED BY <1>0, <1>1, <2>1, <2>2, OneAtATime
  <1>6. \/ wpc'[c] \notin {"check", "wait"} \/ Read(c) \/ Check(c)
        \/ UNCHANGED <<wpc[c], cursor[c], batch[c], woken[c]>>
    BY <1>0 DEF Open, Watch, Drop, Mark, ReadHosts, SendHost, SendProgress, Register,
       Wake, SendEvent, End, Goto
  <1> QED BY <1>2, <1>3, <1>4, <1>5, <1>6

\* A watch that sleeps with no wake-up on its way has every entry there is,
\* and the scan is not over: nothing said while it made up its mind to wait
\* is slept through, whatever the order of its steps and the follower's.
THEOREM NoWakeUpIsLost == Spec => []NobodySleepsThrough
  <1>1. ASSUME TypeInv, SleepInv, [Next]_vars PROVE SleepInv'
    <2>1. CASE Engine
      BY <1>1, <2>1, EngineWrites, SleepStutter
    <2>2. CASE Follower
      BY <1>1, <2>2, FollowerLetsNobodySleep
    <2>3. ASSUME NEW c \in Clients, Open(c) \/ Watch(c) \/ Drop(c) PROVE SleepInv'
      BY <1>1, <2>3, ClientsSleepSoundly
    <2>4. CASE UNCHANGED vars
      BY <1>1, <2>4, SleepStutter DEF vars
    <2> QED BY <1>1, <2>1, <2>2, <2>3, <2>4 DEF Next
  <1>2. SleepInv => NobodySleepsThrough
    BY DEF SleepInv
  <1> QED BY TypeInit, TypeStep, SleepInit, <1>1, <1>2, PTL DEF Spec
=============================================================================
