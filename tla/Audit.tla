-------------------------------- MODULE Audit --------------------------------
(***************************************************************************)
(* The audit file: calls of Audit::write from the tasks of one daemon, and *)
(* from other daemons told to append to the same file (src/src/audit.rs).  *)
(*                                                                         *)
(* The file is the pieces of lines in the order the system wrote them.  A  *)
(* write may take any part of what it is given, so a line goes out in      *)
(* Pieces pieces at the finest; the last one ends in the newline.          *)
(***************************************************************************)
EXTENDS Integers, Sequences, FiniteSets

CONSTANTS
    Calls,          \* calls of Audit::write, each of one entry
    Processes,      \* daemons appending to the file
    Pieces,         \* how many writes a line may take
    Free,           \* the owner of a lock nobody holds
    NoProcess       \* the process of a call not yet made

ASSUME AuditAssumption ==
    /\ Pieces \in Nat \ {0}
    /\ Free \notin Calls
    /\ NoProcess \notin Processes

VARIABLES
    file,       \* the pieces in the file
    lock,       \* the holder of each process's Mutex
    by,         \* the process each call is made in
    pc,         \* where each call is
    sent        \* how much of its line write_all has written

vars == <<file, lock, by, pc, sent>>

Stages == {"idle", "wait", "write", "ok", "err", "dead"}

TypeOK ==
    /\ file \in Seq([call : Calls, piece : 1..Pieces])
    /\ lock \in [Processes -> Calls \cup {Free}]
    /\ by \in [Calls -> Processes \cup {NoProcess}]
    /\ pc \in [Calls -> Stages]
    /\ sent \in [Calls -> 0..Pieces]
    /\ \A c \in Calls : pc[c] # "idle" => by[c] \in Processes

Init ==
    /\ file = <<>>
    /\ lock = [p \in Processes |-> Free]
    /\ by = [c \in Calls |-> NoProcess]
    /\ pc = [c \in Calls |-> "idle"]
    /\ sent = [c \in Calls |-> 0]

\* started and refused put an entry together and call write.
Call(c, p) ==
    /\ pc[c] = "idle"
    /\ by' = [by EXCEPT ![c] = p]
    /\ pc' = [pc EXCEPT ![c] = "wait"]
    /\ UNCHANGED <<file, lock, sent>>

\* Mutation: the file is written to without the lock.
TakeNoLock(c) ==
    /\ pc[c] = "wait"
    /\ pc' = [pc EXCEPT ![c] = "write"]
    /\ UNCHANGED <<file, lock, by, sent>>

\* A poisoned lock is taken like any other.
TakeLock(c) ==
    /\ pc[c] = "wait"
    /\ lock[by[c]] = Free
    /\ lock' = [lock EXCEPT ![by[c]] = c]
    /\ pc' = [pc EXCEPT ![c] = "write"]
    /\ UNCHANGED <<file, by, sent>>

\* Mutation: the line is given a newline of its own to start with, and none
\* to end it.
WriteOutOfTurn(c) ==
    /\ pc[c] = "write" /\ sent[c] < Pieces
    /\ file' = Append(file, [call |-> c, piece |-> Pieces - sent[c]])
    /\ sent' = [sent EXCEPT ![c] = @ + 1]
    /\ UNCHANGED <<lock, by, pc>>

\* write_all goes on until all of the line is written.
Write(c) ==
    /\ pc[c] = "write" /\ sent[c] < Pieces
    /\ file' = Append(file, [call |-> c, piece |-> sent[c] + 1])
    /\ sent' = [sent EXCEPT ![c] = @ + 1]
    /\ UNCHANGED <<lock, by, pc>>

\* The guard is dropped as write returns, whatever it returns.
Unlock(c) == lock' = [lock EXCEPT ![by[c]] = Free]

\* Mutation: one write, and no look at how much of the line it took.
ReturnEarly(c) ==
    /\ pc[c] = "write" /\ sent[c] > 0
    /\ pc' = [pc EXCEPT ![c] = "ok"]
    /\ Unlock(c)
    /\ UNCHANGED <<file, by, sent>>

\* A File keeps no buffer, so the flush has nothing to do and cannot fail.
Return(c) ==
    /\ pc[c] = "write" /\ sent[c] = Pieces
    /\ pc' = [pc EXCEPT ![c] = "ok"]
    /\ Unlock(c)
    /\ UNCHANGED <<file, by, sent>>

\* Mutation: a lock let go by hand, after the write that did not fail.
FailLocked(c) ==
    /\ pc[c] = "write" /\ sent[c] < Pieces
    /\ pc' = [pc EXCEPT ![c] = "err"]
    /\ UNCHANGED <<file, lock, by, sent>>

\* A write that fails leaves what was written before it.
Fail(c) ==
    /\ pc[c] = "write" /\ sent[c] < Pieces
    /\ pc' = [pc EXCEPT ![c] = "err"]
    /\ Unlock(c)
    /\ UNCHANGED <<file, by, sent>>

\* The process dies with its calls, and may be run again: the file is opened
\* to append, whatever it ends in.
Crash(p) ==
    /\ \E c \in Calls : by[c] = p /\ pc[c] \in {"wait", "write"}
    /\ pc' = [c \in Calls |->
                 IF by[c] = p /\ pc[c] \in {"wait", "write"} THEN "dead" ELSE pc[c]]
    /\ lock' = [lock EXCEPT ![p] = Free]
    /\ UNCHANGED <<file, by, sent>>

Run(c) == TakeLock(c) \/ Write(c) \/ Return(c) \/ Fail(c)

Next ==
    \/ \E c \in Calls : Run(c) \/ \E p \in Processes : Call(c, p)
    \/ \E p \in Processes : Crash(p)

Spec == Init /\ [][Next]_vars

\* A thread that holds the lock is run, and one that waits for a lock that is
\* free takes it.
FairSpec == Spec /\ \A c \in Calls : WF_vars(Run(c))

-----------------------------------------------------------------------------
(* Properties.                                                             *)

\* Within one daemon an entry is never written into the middle of another,
\* however many tasks write at once and wherever one of them stops.  (The
\* lock held over the whole of write_all.)
OwnLinesWhole ==
    \A i, j, k \in 1..Len(file) :
        (i < j /\ j < k /\ file[i].call = file[k].call
               /\ by[file[i].call] = by[file[j].call])
            => file[j].call = file[i].call

\* An entry that does not start a line of its own follows what a call that
\* failed or died left of one, or the unfinished line of another daemon: a
\* line nobody was told is there is the most that can be spoilt in one
\* daemon's file, and the entry right after it.  (write_all and the newline
\* pushed onto the line before it.)
GluedOnlyToTheCut ==
    \A i \in 2..Len(file) :
        LET here == file[i].call  before == file[i - 1].call
        IN  (file[i].piece = 1 /\ by[here] = by[before] /\ file[i - 1].piece # Pieces)
                => pc[before] \in {"err", "dead"}

\* The entries whose last piece is in the file, and with it (a call's pieces
\* go in order) all of theirs.  Such an entry may still be glued to one that was
\* cut short before it, or have another daemon's pieces among its own.
Whole == {c \in Calls : \E i \in 1..Len(file) : file[i] = [call |-> c, piece |-> Pieces]}

Told(c) == IF pc[c] \in {"ok", "err"} THEN pc[c] ELSE "nothing"

Promise == INSTANCE AuditPromise WITH entries <- Whole, told <- [c \in Calls |-> Told(c)]

\* The audit keeps what AuditPromise says of it: whoever was told Ok has all
\* of its entry in the file, and whoever was told Err has not.  That the entry
\* has a line to itself is not said here: OwnLinesWhole and GluedOnlyToTheCut say
\* how far it has.  (Audit::write on every path, over short writes, failures and
\* deaths.)
KeepsPromise == Promise!Spec

\* A call returns, unless its process dies: a write that fails holds nobody
\* else up.  (The lock going with its guard.)
CallsReturn == \A c \in Calls : pc[c] = "wait" ~> pc[c] \in {"ok", "err", "dead"}

=============================================================================
