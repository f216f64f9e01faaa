------------------------------ MODULE ScanLog ------------------------------
(***************************************************************************)
(* One scan, from the engine's event stream to the views its clients hold  *)
(* (src/src/scans.rs, src/src/stdio.rs).                                   *)
(*                                                                         *)
(* The engine changes hosts in its store and announces them on a channel   *)
(* that drops under pressure.  One follower task reads that channel, looks *)
(* each host up in the store and appends it to a numbered log if it        *)
(* changed.  Watches read the log from a cursor; a watch with no cursor    *)
(* is first given a snapshot of the store, every frame of it numbered with *)
(* the log's length at the time.  A client may go away at any step and     *)
(* come back with the number it reached.                                   *)
(*                                                                         *)
(* A host's document is its version: 0 is a host the store does not hold,  *)
(* and every change the engine makes is a new version.  An event's number  *)
(* is its position in the log.                                             *)
(***************************************************************************)
EXTENDS Integers, Sequences, FiniteSets

CONSTANTS
    Hosts,          \* addresses the scan may find
    Clients,        \* clients, each with at most one watch open
    NoHost,         \* the host of an event that is about none
    Capacity,       \* notices the engine's channel holds before it drops
    MaxVersion,     \* bound: changes to one host
    MaxNotices,     \* bound: notices the engine sends
    MaxOpens,       \* bound: watches one client opens
    TrustFrames     \* a client takes its number from every frame, or only
                    \* from a snapshot that came whole

ASSUME ConstantsAssumption ==
    /\ NoHost \notin Hosts
    /\ Capacity \in Nat \ {0}
    /\ MaxVersion \in Nat /\ MaxNotices \in Nat /\ MaxOpens \in Nat
    /\ TrustFrames \in BOOLEAN

VARIABLES
    store,      \* the engine's HostStore: the version of each host
    owed,       \* hosts changed since they were last announced
    queue,      \* notices in the engine's channel
    lagged,     \* the channel dropped notices the follower is not yet told of
    lost,       \* ghost: hosts whose last notice was dropped
    outcome,    \* what the scan's task came to, or "running"
    notices,    \* how many notices the engine sent (for MaxNotices)
    fpc,        \* where the follower is
    todo,       \* what the follower is about to append
    seen,       \* Log.seen: the version last found to be news
    log,        \* Log.entries
    closed,     \* Log.closed
    wpc,        \* where each client's watch is
    cursor,     \* the watch's cursor
    snap,       \* the snapshot frames still to be sent, 0 for none
    batch,      \* positions `after` returned and not yet sent
    woken,      \* the watch's Notified future has completed
    late,       \* ghost: this watch opened after the scan was over
    number,     \* the number the client would hand back
    known,      \* the version the client last received of each host
    opens       \* how many watches the client opened (for MaxOpens)

engine   == <<store, owed, queue, lagged, lost, outcome, notices>>
follower == <<fpc, todo, seen, log, closed>>
watch    == <<wpc, cursor, snap, batch, late, number, known, opens>>
vars     == <<engine, follower, watch, woken>>

-----------------------------------------------------------------------------
(* What is said: the bodies of events, and the engine's notices.           *)

Notices == [kind : {"host"}, host : Hosts]
           \cup [kind : {"stage", "failure"}, host : {NoHost}]
Bodies  == [kind : {"host"}, host : Hosts, doc : Nat \ {0}]
           \cup [kind : {"stage", "progress", "failure", "finished"},
                 host : {NoHost}, doc : {0}]

HostChanged(h, d) == [kind |-> "host", host |-> h, doc |-> d]
Body(k)           == [kind |-> k, host |-> NoHost, doc |-> 0]
Notice(k, h)      == [kind |-> k, host |-> h]

\* Mutation: one entry too far.
AfterNext(n) == {i \in 1..Len(log) : i > n + 1}

\* Log::after: the numbers of the entries past a cursor.
After(n) == {i \in 1..Len(log) : i > n}

-----------------------------------------------------------------------------
(* The engine, as far as the daemon sees it.                               *)

EngineTypeOK ==
    /\ store \in [Hosts -> Nat]
    /\ owed \in SUBSET Hosts
    /\ queue \in Seq(Notices)
    /\ lagged \in BOOLEAN
    /\ lost \in SUBSET Hosts
    /\ outcome \in {"running", "ok", "err"}
    /\ notices \in Nat

EngineInit ==
    /\ store = [h \in Hosts |-> 0]
    /\ owed = {}
    /\ queue = <<>>
    /\ lagged = FALSE
    /\ lost = {}
    /\ outcome = "running"
    /\ notices = 0

Touch(h) ==
    /\ outcome = "running"
    /\ store[h] < MaxVersion
    /\ store' = [store EXCEPT ![h] = @ + 1]
    /\ owed' = owed \cup {h}
    /\ UNCHANGED <<queue, lagged, lost, outcome, notices, follower, watch, woken>>

\* A full channel forgets its oldest notice to take a new one.  A host is
\* lost if that was the last notice of it.
Send(n) ==
    LET full == Len(queue) >= Capacity
        kept == IF full THEN Tail(queue) ELSE queue
        here == {Append(kept, n)[i].host : i \in 1..Len(kept) + 1}
        gone == IF full THEN {queue[1].host} \cap Hosts ELSE {}
    IN  /\ outcome = "running"
        /\ notices < MaxNotices
        /\ notices' = notices + 1
        /\ queue' = Append(kept, n)
        /\ lagged' = (lagged \/ full)
        /\ lost' = (lost \cup gone) \ here

\* A host is announced after it changed, and may be announced again with
\* nothing new to say.
Announce(h) ==
    /\ store[h] > 0
    /\ Send(Notice("host", h))
    /\ owed' = owed \ {h}
    /\ UNCHANGED <<store, outcome, follower, watch, woken>>

NextStage ==
    /\ Send(Notice("stage", NoHost))
    /\ UNCHANGED <<store, owed, outcome, follower, watch, woken>>

ScannerFails ==
    /\ Send(Notice("failure", NoHost))
    /\ UNCHANGED <<store, owed, outcome, follower, watch, woken>>

\* A scan that ends in order has announced every change it made; one whose
\* task dies may not have.
Finish ==
    /\ outcome = "running"
    /\ outcome' \in (IF owed = {} THEN {"ok", "err"} ELSE {"err"})
    /\ UNCHANGED <<store, owed, queue, lagged, lost, notices, follower, watch, woken>>

Engine ==
    \/ \E h \in Hosts : Touch(h) \/ Announce(h)
    \/ NextStage \/ ScannerFails \/ Finish

-----------------------------------------------------------------------------
(* The follower: `follow`, with Log::changed, Log::push and Log::close.    *)

FollowerTypeOK ==
    /\ fpc \in {"recv", "push", "wake", "close", "last", "done"}
    /\ todo \in Seq(Bodies)
    /\ seen \in [Hosts -> Nat]
    /\ log \in Seq(Bodies)
    /\ closed \in BOOLEAN

FollowerInit ==
    /\ fpc = "recv"
    /\ todo = <<>>
    /\ seen = [h \in Hosts |-> 0]
    /\ log = <<>>
    /\ closed = FALSE

\* Mutation: every announcement counts as news.
NeverForgets(h) == store[h] > 0

\* Mutation: only the first thing said of a host counts as news.
FirstOnly(h) == seen[h] = 0

\* Log::changed, for a host as the store now holds it.
Changed(h) == store[h] # seen[h]

\* What one notice makes the follower append.  A host is read back out of
\* the store, so what is said is what it is now and not what it was when it
\* was announced.
Says(n) ==
    CASE n.kind = "host"    -> IF store[n.host] > 0 /\ Changed(n.host)
                               THEN <<HostChanged(n.host, store[n.host])>>
                               ELSE <<>>
      [] n.kind = "stage"   -> <<Body("stage"), Body("progress")>>
      [] n.kind = "failure" -> <<Body("failure")>>

\* EventsDropped comes before whatever survived, and is not acted on.
ReceiveLagged ==
    /\ fpc = "recv"
    /\ lagged
    /\ lagged' = FALSE
    /\ UNCHANGED <<store, owed, queue, lost, outcome, notices, follower, watch, woken>>

Receive ==
    /\ fpc = "recv"
    /\ ~lagged
    /\ queue # <<>>
    /\ queue' = Tail(queue)
    /\ todo' = Says(Head(queue))
    /\ fpc' = IF todo' = <<>> THEN "recv" ELSE "push"
    /\ seen' = IF Head(queue).kind = "host" /\ store[Head(queue).host] > 0
               THEN [seen EXCEPT ![Head(queue).host] = store[Head(queue).host]]
               ELSE seen
    /\ UNCHANGED <<store, owed, lagged, lost, outcome, notices, log, closed, watch, woken>>

\* Mutation: the scan is over when its task is, whatever is still queued.
ConcludeUndrained ==
    /\ fpc = "recv"
    /\ outcome # "running"
    /\ todo' = <<Body("finished")>>
    /\ fpc' = "push"
    /\ UNCHANGED <<engine, seen, log, closed, watch, woken>>

\* Mutation: a task that did not end in order is not concluded.
ConcludeOnlyOk ==
    /\ fpc = "recv" /\ ~lagged /\ queue = <<>>
    /\ outcome = "ok"
    /\ todo' = <<Body("finished")>>
    /\ fpc' = "push"
    /\ UNCHANGED <<engine, seen, log, closed, watch, woken>>

\* Mutation: the log is closed before Finished is pushed.
ConcludeClosesFirst ==
    /\ fpc = "recv" /\ ~lagged /\ queue = <<>>
    /\ outcome # "running"
    /\ todo' = <<Body("finished")>>
    /\ fpc' = "push"
    /\ closed' = TRUE
    /\ UNCHANGED <<engine, seen, log, watch, woken>>

\* Both halves of the join are over: the channel is drained and the task
\* has ended.
Conclude ==
    /\ fpc = "recv"
    /\ ~lagged
    /\ queue = <<>>
    /\ outcome # "running"
    /\ todo' = <<Body("finished")>>
    /\ fpc' = "push"
    /\ UNCHANGED <<engine, seen, log, closed, watch, woken>>

\* Mutation: a host's new entry replaces its last one where nothing came
\* between.
PushCoalescing ==
    /\ fpc = "push"
    /\ log' = IF log # <<>> /\ Head(todo).kind = "host" /\ log[Len(log)].host = Head(todo).host
              THEN [log EXCEPT ![Len(log)] = Head(todo)]
              ELSE Append(log, Head(todo))
    /\ todo' = Tail(todo)
    /\ fpc' = "wake"
    /\ UNCHANGED <<engine, seen, closed, watch, woken>>

Push ==
    /\ fpc = "push"
    /\ log' = Append(log, Head(todo))
    /\ todo' = Tail(todo)
    /\ fpc' = "wake"
    /\ UNCHANGED <<engine, seen, closed, watch, woken>>

\* Mutation: the future is made where it is awaited, after the check.
WakeWaiting == woken' = [c \in Clients |-> wpc[c] = "wait"]

\* notify_waiters, which reaches every Notified future already made and
\* none made later.
WakeAll == woken' = [c \in Clients |-> wpc[c] \in {"read", "check", "wait"}]

PushWakes ==
    /\ fpc = "wake"
    /\ WakeAll
    /\ fpc' = IF todo # <<>> THEN "push"
              ELSE IF log[Len(log)].kind = "finished" THEN "close" ELSE "recv"
    /\ UNCHANGED <<engine, todo, seen, log, closed, watch>>

Close ==
    /\ fpc = "close"
    /\ closed' = TRUE
    /\ fpc' = "last"
    /\ UNCHANGED <<engine, todo, seen, log, watch, woken>>

\* Mutation: closing the log wakes nobody.
CloseSilently ==
    /\ fpc = "last"
    /\ fpc' = "done"
    /\ UNCHANGED <<engine, todo, seen, log, closed, watch, woken>>

CloseWakes ==
    /\ fpc = "last"
    /\ WakeAll
    /\ fpc' = "done"
    /\ UNCHANGED <<engine, todo, seen, log, closed, watch>>

Follower ==
    \/ ReceiveLagged \/ Receive \/ Conclude
    \/ Push \/ PushWakes \/ Close \/ CloseWakes

-----------------------------------------------------------------------------
(* A watch: `watch` in stdio.rs over Scan::snapshot and Scan::after, and   *)
(* the client that reads its frames.                                       *)

Snapshotting == {"mark", "hosts", "snapshot"}
Tailing      == {"register", "read", "check", "send", "wait"}
Over         == {"end", "ended"}

WatchTypeOK ==
    /\ wpc \in [Clients -> {"idle"} \cup Snapshotting \cup Tailing \cup Over]
    /\ cursor \in [Clients -> Nat]
    /\ snap \in [Clients -> [Hosts -> Nat]]
    /\ batch \in [Clients -> SUBSET Nat]
    /\ woken \in [Clients -> BOOLEAN]
    /\ late \in [Clients -> BOOLEAN]
    /\ number \in [Clients -> Nat]
    /\ known \in [Clients -> [Hosts -> Nat]]
    /\ opens \in [Clients -> Nat]

WatchInit ==
    /\ wpc = [c \in Clients |-> "idle"]
    /\ cursor = [c \in Clients |-> 0]
    /\ snap = [c \in Clients |-> [h \in Hosts |-> 0]]
    /\ batch = [c \in Clients |-> {}]
    /\ woken = [c \in Clients |-> FALSE]
    /\ late = [c \in Clients |-> FALSE]
    /\ number = [c \in Clients |-> 0]
    /\ known = [c \in Clients |-> [h \in Hosts |-> 0]]
    /\ opens = [c \in Clients |-> 0]

Goto(c, place) == wpc' = [wpc EXCEPT ![c] = place]

\* A client asks from nothing or from the number it reached.
Open(c) ==
    /\ wpc[c] \in {"idle", "ended"}
    /\ opens[c] < MaxOpens
    /\ opens' = [opens EXCEPT ![c] = @ + 1]
    /\ late' = [late EXCEPT ![c] = closed]
    /\ \E from \in {0, number[c]} :
         /\ cursor' = [cursor EXCEPT ![c] = from]
         /\ Goto(c, IF from = 0 THEN "mark" ELSE "register")
    /\ UNCHANGED <<engine, follower, snap, batch, woken, number, known>>

\* Scan::snapshot takes the log's length first and the hosts second.  Its
\* last frame is what the cursor is moved to, and every frame carries the
\* same number.
Mark(c) ==
    /\ wpc[c] = "mark"
    /\ cursor' = [cursor EXCEPT ![c] = Len(log)]
    /\ Goto(c, "hosts")
    /\ UNCHANGED <<engine, follower, snap, batch, woken, late, number, known, opens>>

ReadHosts(c) ==
    /\ wpc[c] = "hosts"
    /\ snap' = [snap EXCEPT ![c] = store]
    /\ Goto(c, "snapshot")
    /\ UNCHANGED <<engine, follower, cursor, batch, woken, late, number, known, opens>>

SendHost(c, h) ==
    /\ wpc[c] = "snapshot"
    /\ snap[c][h] > 0
    /\ known' = [known EXCEPT ![c][h] = snap[c][h]]
    /\ snap' = [snap EXCEPT ![c][h] = 0]
    /\ number' = IF TrustFrames THEN [number EXCEPT ![c] = cursor[c]] ELSE number
    /\ UNCHANGED <<engine, follower, wpc, cursor, batch, woken, late, opens>>

\* Mutation: the cursor moves to where the log is once the snapshot is sent.
SendProgressRemarked(c) ==
    /\ wpc[c] = "snapshot"
    /\ \A h \in Hosts : snap[c][h] = 0
    /\ cursor' = [cursor EXCEPT ![c] = Len(log)]
    /\ number' = [number EXCEPT ![c] = Len(log)]
    /\ Goto(c, "register")
    /\ UNCHANGED <<engine, follower, snap, batch, woken, late, known, opens>>

SendProgress(c) ==
    /\ wpc[c] = "snapshot"
    /\ \A h \in Hosts : snap[c][h] = 0
    /\ number' = [number EXCEPT ![c] = cursor[c]]
    /\ Goto(c, "register")
    /\ UNCHANGED <<engine, follower, cursor, snap, batch, woken, late, known, opens>>

\* Scan::after: the future first, then the entries, then whether it is over.
Register(c) ==
    /\ wpc[c] = "register"
    /\ Goto(c, "read")
    /\ UNCHANGED <<engine, follower, cursor, snap, batch, woken, late, number, known, opens>>

Read(c) ==
    /\ wpc[c] = "read"
    /\ batch' = [batch EXCEPT ![c] = After(cursor[c])]
    /\ Goto(c, "check")
    /\ UNCHANGED <<engine, follower, cursor, snap, woken, late, number, known, opens>>

\* Mutation: nothing to send is taken for the end.
CheckEmptyEnds(c) ==
    /\ wpc[c] = "check"
    /\ Goto(c, IF batch[c] # {} THEN "send" ELSE "end")
    /\ woken' = [woken EXCEPT ![c] = FALSE]
    /\ UNCHANGED <<engine, follower, cursor, snap, batch, late, number, known, opens>>

Check(c) ==
    /\ wpc[c] = "check"
    /\ Goto(c, IF batch[c] # {} THEN "send" ELSE IF closed THEN "end" ELSE "wait")
    /\ woken' = [woken EXCEPT ![c] = @ /\ batch[c] = {} /\ ~closed]
    /\ UNCHANGED <<engine, follower, cursor, snap, batch, late, number, known, opens>>

Wake(c) ==
    /\ wpc[c] = "wait"
    /\ woken[c]
    /\ woken' = [woken EXCEPT ![c] = FALSE]
    /\ Goto(c, "register")
    /\ UNCHANGED <<engine, follower, cursor, snap, batch, late, number, known, opens>>

\* One frame of the tail, in the order of the log.
SendEvent(c) ==
    /\ wpc[c] = "send"
    /\ \E i \in batch[c] :
         /\ \A j \in batch[c] : i <= j
         /\ cursor' = [cursor EXCEPT ![c] = IF i > @ THEN i ELSE @]
         /\ number' = [number EXCEPT ![c] = i]
         /\ known' = IF log[i].kind = "host"
                     THEN [known EXCEPT ![c][log[i].host] = log[i].doc]
                     ELSE known
         /\ batch' = [batch EXCEPT ![c] = @ \ {i}]
         /\ Goto(c, IF batch[c] = {i} THEN "register" ELSE "send")
    /\ UNCHANGED <<engine, follower, snap, woken, late, opens>>

\* The frame that says there is nothing more.
End(c) ==
    /\ wpc[c] = "end"
    /\ Goto(c, "ended")
    /\ UNCHANGED <<engine, follower, cursor, snap, batch, woken, late, number, known, opens>>

\* The connection goes away, and the frames not yet sent with it.
Drop(c) ==
    /\ wpc[c] \notin {"idle", "ended"}
    /\ Goto(c, "idle")
    /\ batch' = [batch EXCEPT ![c] = {}]
    /\ snap' = [snap EXCEPT ![c] = [h \in Hosts |-> 0]]
    /\ cursor' = [cursor EXCEPT ![c] = 0]
    /\ late' = [late EXCEPT ![c] = FALSE]
    /\ woken' = [woken EXCEPT ![c] = FALSE]
    /\ UNCHANGED <<engine, follower, number, known, opens>>

\* What the daemon does for one client, once asked.
Watch(c) ==
    \/ Mark(c) \/ ReadHosts(c) \/ SendProgress(c)
    \/ \E h \in Hosts : SendHost(c, h)
    \/ Register(c) \/ Read(c) \/ Check(c) \/ Wake(c) \/ SendEvent(c) \/ End(c)

-----------------------------------------------------------------------------

TypeOK == EngineTypeOK /\ FollowerTypeOK /\ WatchTypeOK

Init == EngineInit /\ FollowerInit /\ WatchInit

Next ==
    \/ Engine
    \/ Follower
    \/ \E c \in Clients : Open(c) \/ Watch(c) \/ Drop(c)

Spec == Init /\ [][Next]_vars

\* The runtime keeps polling the follower and every open watch whose client
\* keeps reading.  Nothing is assumed of the engine or of what clients ask.
FairSpec == Spec /\ WF_vars(Follower) /\ \A c \in Clients : WF_vars(Watch(c))

-----------------------------------------------------------------------------
(* Safety.                                                                 *)

\* What a client holding `view` needs to have of the first n events: of
\* each host, a version no older than the last one they say.
Covers(view, n) ==
    \A i \in 1..n : log[i].kind = "host" => view[log[i].host] >= log[i].doc

\* Every event says something new: of one host, a later entry holds a newer
\* version, however often the engine announces it again.  (Log::changed,
\* and the follower being the only one to append.)
EveryEntryIsNews ==
    \A i, j \in 1..Len(log) :
        (i < j /\ log[i].kind = "host" /\ log[j].kind = "host"
               /\ log[i].host = log[j].host)
            => log[i].doc < log[j].doc

\* The log says how the scan ended exactly once, after everything else, and
\* before anybody is told the scan is over.  (The end of `follow`.)
FinishedIsLast ==
    /\ \A i \in 1..Len(log) : log[i].kind = "finished" => i = Len(log)
    /\ closed => log # <<>> /\ log[Len(log)].kind = "finished"

\* When a scan that ran to its end is over, the log's last word on every
\* host is the store's, except for a host whose last notice the channel
\* dropped and which nothing touched again.  (`follow` reading the store
\* rather than the notice, and draining the channel before Finished.)
LogCatchesUp ==
    closed /\ outcome = "ok" =>
        \A h \in Hosts \ lost : store[h] > 0 =>
            \E i \in 1..Len(log) : log[i] = HostChanged(h, store[h])

\* A client has received, of every host, at least what the log said of it up
\* to the number the client would hand back: coming back with that number
\* misses nothing.  (`watch`, `Scan::snapshot`: the mark is read before the
\* hosts.)
NumberMissesNothing == \A c \in Clients : Covers(known[c], number[c])

\* A watch in its tail has sent, of every host, at least what the log says
\* up to the watch's cursor, so what `after` leaves out was not needed.
CursorMissesNothing ==
    \A c \in Clients :
        wpc[c] \in Tailing \cup Over => Covers(known[c], cursor[c])

\* A watch is told the scan is over only when it is, and a watch opened
\* after that is told only once it has everything, the Finished event
\* included.  (`Scan::after`, `watch`.)
EndMeansOver ==
    \A c \in Clients : wpc[c] \in Over =>
        /\ closed
        /\ late[c] => cursor[c] = Len(log)

\* A client whose watch ended at the log's end, of a scan that ran to its
\* end and lost no notice, knows every host as the store has it: however
\* its watches were cut and reopened, it ends with the scan's result.
EndIsTheWholeResult ==
    \A c \in Clients :
        (wpc[c] \in Over /\ cursor[c] = Len(log) /\ outcome = "ok" /\ lost = {})
            => known[c] = store

\* A watch asleep with nobody on the way to wake it has all there is in the
\* log, and the scan is not over: an entry pushed, or the log closed, between
\* the look and the wait still wakes it.  (Scan::after makes its future before
\* it reads the entries and the flag.)
NobodySleepsThrough ==
    \A c \in Clients : wpc[c] = "wait" /\ ~woken[c] =>
        /\ fpc # "wake" => After(cursor[c]) = {}
        /\ closed => fpc = "last"

\* The log only grows at its end, and not at all once it is closed.
\* (Log::push is the only writer of entries; `follow` pushes nothing after
\* Log::close.)
LogOnlyGrows ==
    [][/\ Len(log') >= Len(log)
       /\ \A i \in 1..Len(log) : log'[i] = log[i]
       /\ closed => log' = log /\ closed']_vars

\* The scan keeps the promise of ScanFeed: the log is the feed, the number a
\* client would hand back is its place, and what it last received is its
\* view.  (All of `follow`, `watch` and Scan.)
Feed == INSTANCE ScanFeed WITH feed <- log, over <- closed, place <- number, view <- known

ImplementsFeed == Feed!Spec

-----------------------------------------------------------------------------
(* Liveness, of FairSpec.                                                  *)

\* Once the engine's task has ended, the scan is over for everybody: the
\* follower drains what is left, says Finished and closes the log.
FollowerEnds == (outcome # "running") ~> closed

\* A watch of a scan that is over ends, unless its client goes away first:
\* no reader is left waiting for a wake-up that already happened.
WatchEnds ==
    \A c \in Clients : (closed /\ wpc[c] # "idle") ~> (wpc[c] \in {"idle", "ended"})

\* An event in the log reaches every watch that stays: a watch in its tail
\* does not sit at a cursor behind the log.
TailCatchesUp ==
    \A c \in Clients :
        (wpc[c] \in Tailing /\ cursor[c] < Len(log))
            ~> (wpc[c] \notin Tailing \/ cursor[c] = Len(log))

-----------------------------------------------------------------------------
(* What comments and documents say, and the code does not always do.       *)

\* scans.rs: "Empty only when the scan is over and the cursor has reached
\* the end".
EmptyOnlyAtTheEnd ==
    \A c \in Clients : wpc[c] = "end" => cursor[c] = Len(log)

=============================================================================
