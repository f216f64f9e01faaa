-------------------------------- MODULE Daemon --------------------------------
(***************************************************************************)
(* Starting up, and the one socket several daemons may be told to serve:   *)
(* main in src/src/main.rs, and serve, bind and Socket in                  *)
(* src/src/listen.rs.                                                      *)
(*                                                                         *)
(* The path names a file, and every call but the bind itself goes by the   *)
(* path: whoever put the file there, the connect, the removal, the chmod   *)
(* and the chown reach the one it names at that moment.  A daemon is one   *)
(* process; one that is run again is another.  What is said over a         *)
(* connection is Session's.                                                *)
(***************************************************************************)
EXTENDS Naturals

CONSTANTS
    Daemons,        \* processes told to serve on one path, by one user
    Groups,         \* what --socket-group may name
    NoGroup,        \* --socket-group not given
    Own,            \* the group of the user that runs them
    Litter,         \* a file at the path that no daemon listens on
    Nothing,        \* no file at the path
    Overlap         \* whether one may start while another is starting

ASSUME DaemonAssumption ==
    /\ NoGroup \notin Groups /\ Own \notin Groups
    /\ Litter \notin Daemons /\ Nothing \notin Daemons /\ Litter # Nothing
    /\ Overlap \in BOOLEAN

VARIABLES
    pc,         \* where each process is
    named,      \* the group it was told to open the socket to
    end,        \* how it ended
    at,         \* the file the path names: the daemon that bound it
    mode,       \* that file's permissions
    gid         \* that file's group

vars == <<pc, named, end, at, mode, gid>>

Files    == Daemons \cup {Litter}
Starting == {"look", "knock", "clear", "bind", "narrow", "give", "widen"}
Bound    == {"narrow", "give", "widen", "serve", "sweep"}
Phases   == {"off", "piped", "serve", "sweep", "close", "ended"} \cup Starting
Ends     == {"none", "misused", "in_use", "taken", "failed", "hung_up", "killed"}

TypeOK ==
    /\ pc \in [Daemons -> Phases]
    /\ named \in [Daemons -> Groups \cup {NoGroup}]
    /\ end \in [Daemons -> Ends]
    /\ at \in Files \cup {Nothing}
    /\ mode \in [Files -> {"wide", "owner", "shared"}]
    /\ gid \in [Files -> Groups \cup {Own}]
    /\ \A d \in Daemons : pc[d] \in {"give", "widen"} => named[d] # NoGroup

Init ==
    /\ pc = [d \in Daemons |-> "off"]
    /\ named = [d \in Daemons |-> NoGroup]
    /\ end = [d \in Daemons |-> "none"]
    /\ at \in {Litter, Nothing}
    /\ mode = [f \in Files |-> "owner"]
    /\ gid = [f \in Files |-> Own]

Goto(d, phase) == pc' = [pc EXCEPT ![d] = phase]
Stop(d, why)   == Goto(d, "ended") /\ end' = [end EXCEPT ![d] = why]

\* A listener is open from the bind until it is dropped, after the file.
Listening(d) == pc[d] \in Bound \cup {"close"}

\* What a call by the path changes: the file the path names, if any.
AtPath(f, value) == IF at = Nothing THEN f ELSE [f EXCEPT ![at] = value]

-----------------------------------------------------------------------------
(* Start-up.                                                               *)

\* The arguments, the policy and the audit are read before anything is
\* opened to a client; a mistake in any of them, and neither transport named,
\* ends the process with what was wrong.
Begin(d) ==
    /\ pc[d] = "off"
    /\ Overlap \/ \A e \in Daemons : pc[e] \notin Starting
    /\ \/ Stop(d, "misused") /\ UNCHANGED named
       \/ Goto(d, "piped") /\ UNCHANGED <<named, end>>
       \/ /\ \E g \in Groups \cup {NoGroup} : named' = [named EXCEPT ![d] = g]
          /\ Goto(d, "look")
          /\ UNCHANGED end
    /\ UNCHANGED <<at, mode, gid>>

\* The client that started it closes the pipe.
HangUp(d) ==
    /\ pc[d] = "piped"
    /\ Stop(d, "hung_up")
    /\ UNCHANGED <<named, at, mode, gid>>

-----------------------------------------------------------------------------
(* bind.                                                                   *)

Look(d) ==
    /\ pc[d] = "look"
    /\ Goto(d, IF at = Nothing THEN "bind" ELSE "knock")
    /\ UNCHANGED <<named, end, at, mode, gid>>

\* Mutation: a file that is there is a file to take away.
KnockOnNothing(d) ==
    /\ pc[d] = "knock"
    /\ Goto(d, "clear")
    /\ UNCHANGED <<named, end, at, mode, gid>>

\* A connection that is made is a daemon that is running.  Any error, the
\* file being gone included, sends it on to take the file away.
Knock(d) ==
    /\ pc[d] = "knock"
    /\ IF at \in Daemons /\ Listening(at)
       THEN Stop(d, "in_use")
       ELSE Goto(d, "clear") /\ UNCHANGED end
    /\ UNCHANGED <<named, at, mode, gid>>

\* Mutation: what is there is left for the bind to put up with.
ClearNothing(d) ==
    /\ pc[d] = "clear"
    /\ Goto(d, "bind")
    /\ UNCHANGED <<named, end, at, mode, gid>>

\* The removal goes by the path, whatever it names by now.
Clear(d) ==
    /\ pc[d] = "clear"
    /\ \/ /\ at # Nothing
          /\ at' = Nothing
          /\ Goto(d, "bind")
          /\ UNCHANGED end
       \/ Stop(d, "failed") /\ UNCHANGED at
    /\ UNCHANGED <<named, mode, gid>>

\* The kernel binds no path that is there.  A new socket is as wide as the
\* process's umask leaves it.
Bind(d) ==
    /\ pc[d] = "bind"
    /\ IF at # Nothing
       THEN Stop(d, "taken") /\ UNCHANGED <<at, mode, gid>>
       ELSE /\ at' = d
            /\ mode' = [mode EXCEPT ![d] = "wide"]
            /\ gid' = [gid EXCEPT ![d] = Own]
            /\ Goto(d, "narrow")
            /\ UNCHANGED end
    /\ UNCHANGED named

\* Mutation: a socket nobody named a group for is left as the bind made it.
NarrowForGroups(d) ==
    /\ pc[d] = "narrow"
    /\ mode' = IF named[d] = NoGroup THEN mode ELSE AtPath(mode, "owner")
    /\ Goto(d, IF named[d] = NoGroup THEN "serve" ELSE "give")
    /\ UNCHANGED <<named, end, at, gid>>

\* A call that fails ends the daemon and leaves the file, which nobody
\* listens on from then on.
Narrow(d) ==
    /\ pc[d] = "narrow"
    /\ \/ /\ at # Nothing
          /\ mode' = AtPath(mode, "owner")
          /\ Goto(d, IF named[d] = NoGroup THEN "serve" ELSE "give")
          /\ UNCHANGED end
       \/ Stop(d, "failed") /\ UNCHANGED mode
    /\ UNCHANGED <<named, at, gid>>

\* Mutation: opened up before it is given away.
GiveWide(d) ==
    /\ pc[d] = "give"
    /\ mode' = AtPath(mode, "shared")
    /\ Goto(d, "widen")
    /\ UNCHANGED <<named, end, at, gid>>

Give(d) ==
    /\ pc[d] = "give"
    /\ \/ /\ at # Nothing
          /\ gid' = AtPath(gid, named[d])
          /\ Goto(d, "widen")
          /\ UNCHANGED end
       \/ Stop(d, "failed") /\ UNCHANGED gid
    /\ UNCHANGED <<named, at, mode>>

Widen(d) ==
    /\ pc[d] = "widen"
    /\ \/ /\ at # Nothing
          /\ mode' = AtPath(mode, "shared")
          /\ Goto(d, "serve")
          /\ UNCHANGED end
       \/ Stop(d, "failed") /\ UNCHANGED mode
    /\ UNCHANGED <<named, at, gid>>

-----------------------------------------------------------------------------
(* The end of serve.                                                       *)

\* A connection that cannot be accepted ends the loop, and the daemon.
AcceptFails(d) ==
    /\ pc[d] = "serve"
    /\ Goto(d, "sweep")
    /\ UNCHANGED <<named, end, at, mode, gid>>

\* The guard is dropped before the listener, and takes away whatever file
\* the path names.
Sweep(d) ==
    /\ pc[d] = "sweep"
    /\ at' = Nothing
    /\ Goto(d, "close")
    /\ UNCHANGED <<named, end, mode, gid>>

Close(d) ==
    /\ pc[d] = "close"
    /\ Stop(d, "failed")
    /\ UNCHANGED <<named, at, mode, gid>>

\* Told to stop, by a signal nothing catches: no guard is dropped.
Kill(d) ==
    /\ pc[d] \notin {"off", "ended"}
    /\ Stop(d, "killed")
    /\ UNCHANGED <<named, at, mode, gid>>

-----------------------------------------------------------------------------

Next ==
    \E d \in Daemons :
        \/ Begin(d) \/ HangUp(d) \/ Look(d) \/ Knock(d) \/ Clear(d) \/ Bind(d)
        \/ Narrow(d) \/ Give(d) \/ Widen(d)
        \/ AcceptFails(d) \/ Sweep(d) \/ Close(d) \/ Kill(d)

Spec == Init /\ [][Next]_vars

-----------------------------------------------------------------------------
(* Properties.  Those that hold are of daemons started one at a time; what *)
(* comes of two that start together is OnlyTheDeadAreCleared under         *)
(* Overlap.                                                                *)

\* A daemon that serves is the one its path leads to, and is open to the
\* group it was told of, or to nobody but its user.  So there is one at a
\* time, and what one client starts another finds.  (bind looking before it
\* binds, and serve's guard taking away no file but its own.)
ServesWhoWasNamed ==
    \A d \in Daemons : pc[d] = "serve" =>
        /\ at = d
        /\ IF named[d] = NoGroup
           THEN mode[d] = "owner"
           ELSE mode[d] = "shared" /\ gid[d] = named[d]

\* The groups whose members can connect to d now: the path leads to it, it
\* listens, and the file's mode lets them in.  A socket as wide as the bind
\* made it may be open to anybody; that is for the umask to say.
ReachedBy(d) ==
    {g \in Groups \cup {Own} :
        /\ at = d /\ Listening(d)
        /\ mode[d] = "wide" \/ (mode[d] = "shared" /\ g = gid[d])}

\* From its first chmod on, whatever fails and whoever is killed, nobody but
\* the group it was told of can connect to a daemon, and no group if it was
\* told of none.  The moment between the bind and that chmod is left out, which
\* bind's own comment calls "a moment of a wider mode": who connects then waits
\* in the backlog and is served.  (The chmod before the accept, and the chown
\* before the second chmod, all by the path.)
NoOtherGroup ==
    \A d \in Daemons : pc[d] # "narrow" => ReachedBy(d) \subseteq {named[d]}

\* "The socket is created readable and writable by its owner and nobody else",
\* and "there is no moment where a group that was not named can reach it".
\* (listen.rs:25 and bind; not so between UnixListener::bind and the first
\* chmod.)
OwnersFromTheStart ==
    \A d \in Daemons : ReachedBy(d) \subseteq {named[d]}

\* What a dead daemon left at the path does not stop the next one: whatever
\* happened before, a bind does not find the path taken.  (bind's removal,
\* after kills and failures at every step.)
LitterIsNoObstacle == \A d \in Daemons : end[d] # "taken"

\* "A refused connection means nobody is listening, and only then is the file
\* removed": no daemon takes away the socket another one is listening on.
\* (bind's removal and Socket's Drop.)
ClearsNoOther ==
    \A d \in Daemons : (at = d /\ at' # d) => ~Listening(d) \/ pc'[d] # pc[d]

OnlyTheDeadAreCleared == [][ClearsNoOther]_vars

=============================================================================
